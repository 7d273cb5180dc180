---------------------------- MODULE KnowledgeBase ----------------------------
(***************************************************************************)
(* The parts of by_qa.knowledge_base that work on rows of their own, side   *)
(* by side.  None of them reads what another one writes, so that their     *)
(* behaviours are explored one part at a time: part names the one that     *)
(* takes steps, the others stand still.  What does share rows with other   *)
(* work has a module of its own: FileBuild, FileArtifacts, SemanticTask.   *)
(***************************************************************************)
EXTENDS Integers, FiniteSets, Sequences

CONSTANTS
    None,
    Directory, TreeFile, Name, Like, Checksum,  Uploader, Mutator,   \* FileTree
    MaxDepth, MaxTransactions, Root,
    File, RefPath, MaxWrites, MaxMoves,                              \* References
    Archive, Refers, Old, Outside, Limit,                            \* ZipImport
    Property, Tag, Writer,                                           \* Metadata
    MaxNesting, MaxLeaves, Leaf, Plain,                              \* MetadataDsl
    Instance, Config, LegacyTask, MaxStarts, MaxAttempts,            \* Bootstrap
    MaxScript,                                                       \* SqlScript
    Task, Concurrency,                                               \* RunnerPool
    Line, SoftLimit, HardLimit, MaxLines,                            \* Chunking
    SoftText, HardText, MaxText,                                     \* TextCut
    Surface, Worker, MaxEntities, MaxDeletions,                      \* Entities
    Content, MaxBegun,                                               \* BuildStatus
    Job, Batch, BatchOf,                                             \* Progress
    Block, MaxChars, Coalesce, Frame, HeadingTag, ContentTag,        \* DiscoveryContext
    Margin, MaxDocument,
    Fragment, Target, MaxTotal, MaxFragments, MaxFragment, MaxPerDoc,   \* Evidence
    MinTopic, MaxFound

\* None is no identifier, since it stands for NULL and for nobody; a dimension is a number; of the
\* items of an archive, numbered from one, it is known which are Markdown; files, directories and
\* the root are told apart, and so are the transactions that upload and those that move.
ASSUME KnowledgeBaseAssumption ==
    /\ None \notin Surface \cup Worker \cup Writer \cup Instance
    /\ MaxEntities \in Nat
    /\ None # "built"
    /\ IsFiniteSet(Task) /\ IsFiniteSet(Job)
    /\ None \notin File \cup RefPath
    /\ \A c \in Config : c.dimension # None
    /\ \A i \in DOMAIN Archive : i \in Nat \ {0} /\ Archive[i].md \in BOOLEAN
    /\ None \notin Uploader \cup Mutator \cup TreeFile \cup Directory
    /\ Root \notin TreeFile \cup Directory \cup {None}
    /\ TreeFile \cap Directory = {} /\ Uploader \cap Mutator = {}

\* A fragment has blocks (blank content is dropped) and lines from a first to a last, or none; the
\* limits of what is selected are at least one (others raise).
ASSUME EvidenceAssumption ==
    /\ Fragment \subseteq [doc : Int, rank : Nat, text : Seq(Nat), lines : SUBSET Nat, score : Int,
                            topics : SUBSET Nat]
    /\ \A f \in Fragment : f.text # <<>> /\ IsFiniteSet(f.topics)
    /\ \A f \in Fragment : f.lines # {} => \E a, b \in f.lines : f.lines = {a, b}
    /\ {MaxTotal, MaxFragments, MaxFragment, MaxPerDoc} \subseteq Nat \ {0}

VARIABLES
    part,
    entry, tx, advisory, opened, crossed, strayed,
    file, assertion, object, pending, writes, moves,
    live, unresolved, item, phase,
    rows, alive, rowLock, writerTx,
    where,
    ledger, made, table, legacy, schemaLock, starting, starts,
    script,
    row, run, heart, lost, written, batch, stopping,
    doc,
    text,
    entity, embedding, surfaceLock, proc, deletions,
    now, built, changes, tasks, begun, reader,
    state, open, asked, found, counts, total, page,
    markdown, slices, budget, selected, round,
    source

Tree   == INSTANCE FileTree WITH File <- TreeFile
Refs   == INSTANCE References WITH open <- pending, Path <- RefPath
Zip    == INSTANCE ZipImport WITH assertion <- unresolved
Props  == INSTANCE Metadata WITH lock <- rowLock, tx <- writerTx, Nobody <- None
Query  == INSTANCE MetadataDsl WITH MaxDepth <- MaxNesting
Schema == INSTANCE Bootstrap WITH Task <- LegacyTask, task <- legacy, lock <- schemaLock,
                                  proc <- starting
Script == INSTANCE SqlScript WITH MaxLength <- MaxScript
Pool   == INSTANCE RunnerPool WITH file <- written
Chunks == INSTANCE Chunking WITH Soft <- SoftLimit, Hard <- HardLimit
Window == INSTANCE TextCut WITH Soft <- SoftText, Hard <- HardText, MaxLength <- MaxText
Names  == INSTANCE Entities WITH lock <- surfaceLock
Status == INSTANCE BuildStatus WITH file <- built
Shown  == INSTANCE Progress
Given  == INSTANCE DiscoveryContext WITH doc <- markdown, phase <- round, MaxLines <- MaxDocument
Chosen == INSTANCE Evidence WITH MaxText <- MaxFragment

Parts == {"tree", "references", "zip", "metadata", "dsl", "schema", "script", "pool", "chunks",
          "window", "entities", "status", "progress", "discovery", "evidence"}

Init == /\ part \in Parts
        /\ Tree!Init /\ Refs!Init /\ Zip!Init /\ Props!Init /\ Query!Init /\ Schema!Init
        /\ Script!Init /\ Pool!Init /\ Chunks!Init /\ Window!Init /\ Names!Init /\ Status!Init
        /\ Shown!PInit /\ Given!Init /\ Chosen!Init
        \* one of the initial states will do for a part that stands still
        /\ part # "tree" => \A e \in Tree!Entry : entry[e] = Tree!Unused
        /\ part # "status" => built.content = CHOOSE c \in Content : TRUE

\* Only part p takes a step.
Only(p) ==
    /\ part = p /\ UNCHANGED part
    /\ IF p = "tree"       THEN TRUE
       ELSE UNCHANGED <<entry, tx, advisory, opened, crossed, strayed>>
    /\ IF p = "references" THEN TRUE ELSE UNCHANGED <<file, assertion, object, pending, writes, moves>>
    /\ IF p = "zip"        THEN TRUE ELSE UNCHANGED <<live, unresolved, item, phase>>
    /\ IF p = "metadata"   THEN TRUE ELSE UNCHANGED <<rows, alive, rowLock, writerTx>>
    /\ IF p = "dsl"        THEN TRUE ELSE UNCHANGED where
    /\ IF p = "schema"     THEN TRUE
       ELSE UNCHANGED <<ledger, made, table, legacy, schemaLock, starting, starts>>
    /\ IF p = "script"     THEN TRUE ELSE UNCHANGED script
    /\ IF p = "pool"       THEN TRUE
       ELSE UNCHANGED <<row, run, heart, lost, written, batch, stopping>>
    /\ IF p = "chunks"     THEN TRUE ELSE UNCHANGED doc
    /\ IF p = "window"     THEN TRUE ELSE UNCHANGED text
    /\ IF p = "entities"   THEN TRUE ELSE UNCHANGED <<entity, embedding, surfaceLock, proc, deletions>>
    /\ IF p = "status"     THEN TRUE ELSE UNCHANGED <<now, built, changes, tasks, begun, reader>>
    /\ IF p = "progress"   THEN TRUE
       ELSE UNCHANGED <<state, open, asked, found, counts, total, page>>
    /\ IF p = "discovery"  THEN TRUE ELSE UNCHANGED <<markdown, slices, budget, selected, round>>
    /\ IF p = "evidence"   THEN TRUE ELSE UNCHANGED source

Next == \/ Only("tree")       /\ Tree!Next
        \/ Only("references") /\ Refs!Next
        \/ Only("zip")        /\ Zip!Next
        \/ Only("metadata")   /\ Props!Next
        \/ Only("dsl")        /\ Query!Next
        \/ Only("schema")     /\ Schema!Next
        \/ Only("script")     /\ Script!Next
        \/ Only("pool")       /\ Pool!Next
        \/ Only("chunks")     /\ Chunks!Next
        \/ Only("window")     /\ Window!Next
        \/ Only("entities")   /\ Names!Next
        \/ Only("status")     /\ Status!Next
        \/ Only("progress")   /\ Shown!PNext
        \/ Only("discovery")  /\ Given!Next
        \/ Only("evidence")   /\ Chosen!Next

vars == <<part, entry, tx, advisory, opened, crossed, strayed, file, assertion, object,
          pending, writes, moves, live, unresolved, item, phase, rows, alive, rowLock, writerTx, where, ledger, made,
          table, legacy, schemaLock, starting, starts, script, row, run, heart, lost, written,
          batch, stopping, doc, text, entity, embedding, surfaceLock, proc, deletions, now, built,
          changes, tasks, begun, reader, state, open, asked, found, counts, total, page, markdown,
          slices, budget, selected, round, source>>

Spec == Init /\ [][Next]_vars
-----------------------------------------------------------------------------
(* What each part keeps, said in its own module.                           *)

\* Whatever is uploaded while a directory is deleted, renamed or moved, every live entry is found
\* under the path that its row carries, as long as these do not cross each other; and is shown
\* there, as long as no renaming strayed.
TreeSound == part = "tree" => Tree!Sound

\* A file that was accepted on the condition that its content is new has no duplicate.
NoDuplicate == Tree!NoDuplicate

\* A reference is bound to the live file it names or waits for one, and follows a file that moves.
ReferencesFollow == part = "references" => Refs!Settled /\ Refs!Follows

\* After an import every reference to an imported path is bound to the file that is there now.
ImportLinked == part = "zip" => Zip!Linked /\ Zip!FoundAtOnce

\* A batch of changes to the properties of a file is applied whole, to the values at its commit,
\* and leaves one value of a property, of one type, and none of a deleted file.
WritersSerial == Props!Serial /\ [](part = "metadata" => Props!OneValue)

\* A filter that the validator accepts finds the files it means.
SearchAnswers == part = "dsl" => Query!Answers

\* No process fails because another one applied a migration while it was starting, and one that
\* serves requests has all of its schema, and vectors that fit its table.
SchemaReady == part = "schema" => Schema!AppliedOnce /\ Schema!ReadyComplete

\* A migration is sent statement by statement: each is one, and together they are the file.
ScriptsWhole == part = "script" => Script!Whole

\* However a task ends, its events are published once.
PoolPublished == part = "pool" => Pool!Published

\* Every line of a document is sent once, in order, under the headings it stands under.
ChunksFaithful == part = "chunks" => Chunks!Faithful

\* The parts of a long paragraph are the whole of it, on the lines they say, and cut no reference.
WindowsCutWell == part = "window" => Window!CutWell

\* A name is that of one entity, whichever workers meet it at the same time.
NamesAgree == part = "entities" => Names!NamesAgree

\* Who is told that a file is built is told of the content that it has.
NothingRevived == part = "status" => Status!NothingRevived

\* What a caller is told of a batch adds up, though it is read bit by bit.
ProgressShown == part = "progress" => Shown!ProgressShown

\* What the discovery is given of a document is within its size, says truthfully whether it is
\* whole, leaves out nothing that fits, and attributes every piece to the section it is in.
DocumentShown == part = "discovery" => Given!SectionsRight /\ Given!ExcerptHonest /\ Given!BudgetUsed

\* Evidence for an enrichment is merged without losing text, a topic or a mention, in whatever
\* order it was found, and left out only when one of the limits, which hold, is reached.
EvidenceChosen == part = "evidence" => Chosen!NothingLost /\ Chosen!LimitsKept /\ Chosen!NothingLeft
=============================================================================
