------------------------- MODULE FileArtifactsProofs -------------------------
(***************************************************************************)
(* The safety properties of FileArtifacts for any number of builders and   *)
(* updaters of the file, which may overlap.                                *)
(***************************************************************************)
EXTENDS FileArtifacts, TLAPS

\* The initial states are well typed.
LEMMA TypeInit == Init => TypeOK
  BY ProcessAssumption
  DEF Init, TypeOK, FreshBuild, FreshUpdate, Building, Updating, Row, Build, Update

\* What a step of one builder leaves in its own record and in those of the others.
LEMMA BuildStep ==
    ASSUME TypeOK, NEW b \in Builder
    PROVE  /\ \A at \in Building : BuildAt(b, at) =>
                /\ build' \in [Builder -> Build]
                /\ build'[b].at = at /\ build'[b].bytes = build[b].bytes
                /\ \A d \in Builder \ {b} : build'[d] = build[d]
           /\ BuildEnds(b) =>
                /\ build' \in [Builder -> Build]
                /\ build'[b].at = "idle"
                /\ \A d \in Builder \ {b} : build'[d] = build[d]
  <1>1. build \in [Builder -> Build] /\ build[b] \in Build
    BY DEF TypeOK
  <1>2. ASSUME NEW at \in Building, BuildAt(b, at)
        PROVE  /\ build' \in [Builder -> Build]
               /\ build'[b].at = at /\ build'[b].bytes = build[b].bytes
               /\ \A d \in Builder \ {b} : build'[d] = build[d]
    <2> DEFINE new == [build[b] EXCEPT !.at = at]
    <2>1. new \in Build /\ new.at = at /\ new.bytes = build[b].bytes
      BY <1>1 DEF Build
    <2>2. build' = [build EXCEPT ![b] = new]
      BY <1>2 DEF BuildAt
    <2> HIDE DEF new
    <2> QED
      BY <1>1, <2>1, <2>2
  <1>3. ASSUME BuildEnds(b)
        PROVE  /\ build' \in [Builder -> Build]
               /\ build'[b].at = "idle"
               /\ \A d \in Builder \ {b} : build'[d] = build[d]
    <2>1. FreshBuild \in Build /\ FreshBuild.at = "idle"
      BY DEF FreshBuild, Build, Building
    <2>2. build' = [build EXCEPT ![b] = FreshBuild]
      BY <1>3 DEF BuildEnds
    <2> QED
      BY <1>1, <2>1, <2>2
  <1> QED
    BY <1>2, <1>3

\* What a step of one updater leaves in its own record and in those of the others.
LEMMA UpdateStep ==
    ASSUME TypeOK, NEW u \in Updater, NEW at \in Updating, UpdateAt(u, at)
    PROVE  /\ update' \in [Updater -> Update]
           /\ update'[u].at = at
           /\ update'[u].to = update[u].to /\ update'[u].old = update[u].old
           /\ update'[u].late = update[u].late
           /\ \A v \in Updater \ {u} : update'[v] = update[v]
  <1> DEFINE new == [update[u] EXCEPT !.at = at, !.fenced = None]
  <1>1. update \in [Updater -> Update] /\ update[u] \in Update
    BY DEF TypeOK
  <1>2. new \in Update /\ new.at = at /\ new.to = update[u].to /\ new.old = update[u].old
        /\ new.late = update[u].late
    BY <1>1 DEF Update
  <1>3. update' = [update EXCEPT ![u] = new]
    BY DEF UpdateAt
  <1> HIDE DEF new
  <1> QED
    BY <1>1, <1>2, <1>3

\* A build starts, and a build reads the original.
LEMMA StartStep ==
    ASSUME TypeOK, NEW b \in Builder, Start(b)
    PROVE  /\ build' \in [Builder -> Build]
           /\ build'[b].at = "claimed"
           /\ \A d \in Builder \ {b} : build'[d] = build[d]
  <1> DEFINE new == [at |-> "claimed", input |-> row.content, bytes |-> None]
  <1>1. new \in Build /\ new.at = "claimed"
    BY DEF Build, Building, TypeOK, Row
  <1>2. build' = [build EXCEPT ![b] = new]
    BY DEF Start
  <1> HIDE DEF new
  <1> QED
    BY <1>1, <1>2 DEF TypeOK

LEMMA ReadStep ==
    ASSUME TypeOK, NEW b \in Builder, Read(b)
    PROVE  /\ build' \in [Builder -> Build]
           /\ build'[b].at = "read" /\ build'[b].bytes \in Content
           /\ \A d \in Builder \ {b} : build'[d] = build[d]
  <1> DEFINE new == [build[b] EXCEPT !.at = "read", !.bytes = original]
  <1>1. build \in [Builder -> Build] /\ build[b] \in Build /\ original \in Content
    BY DEF TypeOK
  <1>2. new \in Build /\ new.at = "read" /\ new.bytes = original
    BY <1>1 DEF Build, Building
  <1>3. build' = [build EXCEPT ![b] = new]
    BY DEF Read
  <1> HIDE DEF new
  <1> QED
    BY <1>1, <1>2, <1>3

\* An update whose COMMIT succeeded without an answer is about to put old bytes back.
LEMMA LostAnswer ==
    ASSUME TypeOK, NEW u \in Updater,
           update' = [update EXCEPT ![u].at = "restoring", ![u].fenced = None, ![u].late = TRUE]
    PROVE  /\ update' \in [Updater -> Update]
           /\ update'[u].at = "restoring" /\ update'[u].late
           /\ update'[u].to = update[u].to /\ update'[u].old = update[u].old
           /\ \A v \in Updater \ {u} : update'[v] = update[v]
  <1> DEFINE new == [update[u] EXCEPT !.at = "restoring", !.fenced = None, !.late = TRUE]
  <1>1. update \in [Updater -> Update] /\ update[u] \in Update
    BY DEF TypeOK
  <1>2. new \in Update /\ new.at = "restoring" /\ new.late
        /\ new.to = update[u].to /\ new.old = update[u].old
    BY <1>1 DEF Update, Updating
  <1>3. update' = [update EXCEPT ![u] = new]
    OBVIOUS
  <1> HIDE DEF new
  <1> QED
    BY <1>1, <1>2, <1>3

\* A record that is overtaken keeps all but its lateness.
LEMMA OvertakenRecord ==
    ASSUME TypeOK, NEW v \in Updater
    PROVE  /\ Overtaken(v) \in Update
           /\ Overtaken(v).at = update[v].at
           /\ Overtaken(v).to = update[v].to /\ Overtaken(v).old = update[v].old
           /\ update[v].late \/ update[v].at = "restoring" => Overtaken(v).late
  <1>1. update[v] \in Update
    BY DEF TypeOK
  <1> QED
    BY <1>1 DEF Overtaken, Update

\* An update locks the row, and overtakes those that still owe old bytes.
LEMMA BeginStep ==
    ASSUME TypeOK, NEW u \in Updater, NEW c \in Content, BeginUpdate(u, c)
    PROVE  /\ update' \in [Updater -> Update]
           /\ update'[u].at = "locked" /\ update'[u].to = c /\ update'[u].old = original
           /\ \A v \in Updater \ {u} :
                 /\ update'[v].at = update[v].at
                 /\ update'[v].to = update[v].to /\ update'[v].old = update[v].old
                 /\ update[v].late \/ update[v].at = "restoring" => update'[v].late
  <1> DEFINE new  == [at |-> "locked", to |-> c, old |-> OldBytes, markdown |-> row.markdown,
                      fenced |-> IF c # row.content THEN active ELSE None, late |-> FALSE]
             rest == [v \in Updater |-> Overtaken(v)]
  <1>1. new \in Update /\ new.at = "locked" /\ new.to = c /\ new.old = original
    BY DEF Update, Updating, TypeOK, Row, OldBytes
  <1>2. update' = [rest EXCEPT ![u] = new]
    BY DEF BeginUpdate
  <1>3. rest \in [Updater -> Update] /\ \A v \in Updater : rest[v] = Overtaken(v)
    BY OvertakenRecord
  <1> HIDE DEF new, rest
  <1>4. update' \in [Updater -> Update] /\ update'[u] = new
        /\ \A v \in Updater \ {u} : update'[v] = Overtaken(v)
    BY <1>1, <1>2, <1>3
  <1> QED
    BY <1>1, <1>4, OvertakenRecord

\* An update writes the original.
LEMMA OverwriteStep ==
    ASSUME TypeOK, NEW u \in Updater, WriteOriginal(u)
    PROVE  /\ update' \in [Updater -> Update]
           /\ update'[u].at = "written"
           /\ update'[u].to = update[u].to /\ update'[u].old = update[u].old
           /\ \A v \in Updater \ {u} : update'[v] = update[v]
  <1> DEFINE new == [update[u] EXCEPT !.at = "written"]
  <1>1. update \in [Updater -> Update] /\ update[u] \in Update
    BY DEF TypeOK
  <1>2. new \in Update /\ new.at = "written" /\ new.to = update[u].to /\ new.old = update[u].old
    BY <1>1 DEF Update, Updating
  <1>3. update' = [update EXCEPT ![u] = new]
    BY DEF WriteOriginal
  <1> HIDE DEF new
  <1> QED
    BY <1>1, <1>2, <1>3

\* Every step keeps the types.
LEMMA TypeStep == TypeOK /\ [Next]_vars => TypeOK'
  <1> SUFFICES ASSUME TypeOK, [Next]_vars
               PROVE  TypeOK'
    OBVIOUS
  <1>1. ASSUME NEW b \in Builder, Start(b) \/ Read(b)
        PROVE  TypeOK'
    BY <1>1, StartStep, ReadStep DEF TypeOK, Start, Read, Objects
  <1>2. ASSUME NEW b \in Builder, Prepare(b) \/ DeleteStale(b) \/ Extract(b)
        PROVE  TypeOK'
    BY <1>2, BuildStep DEF TypeOK, Prepare, DeleteStale, Extract, Objects, Building, Row
  <1>3. ASSUME NEW b \in Builder, Write(b) \/ RollbackBuild(b) \/ DeleteWritten(b)
        PROVE  TypeOK'
    BY <1>3, BuildStep
    DEF TypeOK, Write, RollbackBuild, DeleteWritten, Objects, Building, Build, Process
  <1>4. ASSUME NEW b \in Builder, CommitBuild(b) \/ FinishBuild(b) \/ StopBuild(b)
        PROVE  TypeOK'
    BY <1>4, BuildStep
    DEF TypeOK, CommitBuild, FinishBuild, StopBuild, Objects, Building, Build, Row
  <1>5. CASE Reap
    BY <1>5 DEF TypeOK, Reap, Objects
  <1>6. ASSUME NEW u \in Updater, NEW c \in Content, BeginUpdate(u, c)
        PROVE  TypeOK'
    BY <1>6, BeginStep DEF TypeOK, BeginUpdate, Objects, Process
  <1>7. ASSUME NEW u \in Updater, WriteOriginal(u)
        PROVE  TypeOK'
    BY <1>7, OverwriteStep DEF TypeOK, WriteOriginal
  <1>8. ASSUME NEW u \in Updater, CommitUpdate(u)
        PROVE  TypeOK'
    <2>1. row' \in Row
      BY <1>8 DEF TypeOK, CommitUpdate, RowAfter, Row
    <2> QED
      BY <1>8, <2>1, UpdateStep, LostAnswer DEF TypeOK, CommitUpdate, Objects, Updating
  <1>9. ASSUME NEW u \in Updater, RollbackUpdate(u) \/ LoseUpdate(u)
        PROVE  TypeOK'
    BY <1>9, UpdateStep DEF TypeOK, RollbackUpdate, LoseUpdate, Objects, Updating
  <1>10. ASSUME NEW u \in Updater, DropMarkdown(u) \/ Restore(u)
         PROVE  TypeOK'
    BY <1>10, UpdateStep DEF TypeOK, DropMarkdown, Restore, Updating
  <1>11. CASE UNCHANGED vars
    BY <1>11 DEF vars, TypeOK
  <1> QED
    BY <1>1, <1>2, <1>3, <1>4, <1>5, <1>6, <1>7, <1>8, <1>9, <1>10, <1>11 DEF Next

\* The rows, builds and updates of FileArtifacts have their types, whatever the contents, builds
\* and updates are.
THEOREM TypeCorrect == Spec => []TypeOK
  BY TypeInit, TypeStep, PTL DEF Spec

\* The row lock is handed on.
LEMMA LockedStep == TypeOK /\ Locked /\ [Next]_vars => Locked'
  <1> SUFFICES ASSUME TypeOK, Locked, [Next]_vars
               PROVE  Locked'
    OBVIOUS
  <1> USE ProcessAssumption DEF Locked, Process
  <1>1. ASSUME NEW b \in Builder, Start(b) \/ Read(b)
        PROVE  Locked'
    BY <1>1, StartStep, ReadStep DEF Start, Read, Objects, TaskFree, TypeOK
  <1>2. ASSUME NEW b \in Builder,
               Prepare(b) \/ DeleteStale(b) \/ Extract(b) \/ DeleteWritten(b) \/ FinishBuild(b)
        PROVE  Locked'
    BY <1>2, BuildStep
    DEF Prepare, DeleteStale, Extract, DeleteWritten, FinishBuild, Objects, Building
  <1>3. ASSUME NEW b \in Builder, Write(b) \/ CommitBuild(b) \/ RollbackBuild(b)
        PROVE  Locked'
    BY <1>3, BuildStep
    DEF Write, CommitBuild, RollbackBuild, Objects, Building, TypeOK
  <1>4. ASSUME NEW b \in Builder, StopBuild(b)
        PROVE  Locked'
    BY <1>4, BuildStep DEF StopBuild, Objects, Building, TypeOK
  <1>5. CASE Reap
    BY <1>5 DEF Reap, Objects
  <1>6. ASSUME NEW u \in Updater, NEW c \in Content, BeginUpdate(u, c)
        PROVE  Locked'
    BY <1>6, BeginStep DEF BeginUpdate, Objects, TypeOK
  <1>7. ASSUME NEW u \in Updater, WriteOriginal(u) \/ DropMarkdown(u) \/ Restore(u)
        PROVE  Locked'
    BY <1>7, OverwriteStep, UpdateStep DEF WriteOriginal, DropMarkdown, Restore, Updating
  <1>8. ASSUME NEW u \in Updater, CommitUpdate(u)
        PROVE  Locked'
    <2>1. /\ update'[u].at \notin {"locked", "written"}
          /\ \A v \in Updater \ {u} : update'[v] = update[v]
      BY <1>8, UpdateStep, LostAnswer DEF CommitUpdate, Updating
    <2> QED
      BY <1>8, <2>1 DEF CommitUpdate, Objects, TypeOK
  <1>9. ASSUME NEW u \in Updater, RollbackUpdate(u) \/ LoseUpdate(u)
        PROVE  Locked'
    BY <1>9, UpdateStep DEF RollbackUpdate, LoseUpdate, Objects, Updating, TypeOK
  <1>10. CASE UNCHANGED vars
    BY <1>10 DEF vars
  <1> QED
    BY <1>1, <1>2, <1>3, <1>4, <1>5, <1>6, <1>7, <1>8, <1>9, <1>10 DEF Next

-----------------------------------------------------------------------------
(* The Markdown that the row refers to.                                    *)

\* Every step of a builder keeps the invariant.
LEMMA MarkdownBuild ==
    ASSUME MarkdownInv, NEW b \in Builder,
           \/ Start(b) \/ Prepare(b) \/ DeleteStale(b) \/ Extract(b) \/ Read(b) \/ Write(b)
           \/ CommitBuild(b) \/ RollbackBuild(b) \/ DeleteWritten(b) \/ FinishBuild(b)
           \/ StopBuild(b)
    PROVE  Cleared' /\ MarkdownOfChunks'
  <1> USE ProcessAssumption DEF MarkdownInv, Locked, Cleared, MarkdownOfChunks, Process
  <1>1. CASE Start(b)
    BY <1>1, StartStep DEF Start, Objects, TaskFree
  <1>2. CASE Prepare(b)
    <2>1. CASE MayWrite(b)
      <3>1. ~row'.markdown
        BY <1>2, <2>1 DEF Prepare, TypeOK, Row
      <3> QED
        BY <1>2, <2>1, <3>1, BuildStep DEF Prepare, Objects, Building
    <2>2. CASE ~MayWrite(b)
      BY <1>2, <2>2, BuildStep DEF Prepare, Objects, Building
    <2> QED
      BY <2>1, <2>2
  <1>3. CASE DeleteStale(b) \/ Extract(b) \/ DeleteWritten(b)
    BY <1>3, BuildStep DEF DeleteStale, Extract, DeleteWritten, Objects, Building
  <1>4. CASE Read(b)
    BY <1>4, ReadStep DEF Read, Objects
  <1>5. CASE Write(b)
    BY <1>5, BuildStep DEF Write, MayWrite, Objects, Building, TypeOK
  <1>6. CASE CommitBuild(b)
    <2>1. /\ build'[b].at \in {"idle", "undoing"}
          /\ \A d \in Builder \ {b} : build'[d] = build[d]
      BY <1>6, BuildStep DEF CommitBuild, Building
    <2>2. row'.chunks = build[b].bytes /\ active' = None /\ sidecar' = sidecar
      BY <1>6 DEF CommitBuild, Objects, TypeOK, Row
    <2>3. sidecar \in {build[b].bytes, None} /\ lock = b
      BY <1>6 DEF CommitBuild
    <2> QED
      BY <2>1, <2>2, <2>3
  <1>7. CASE RollbackBuild(b)
    BY <1>7, BuildStep DEF RollbackBuild, Objects, Building, TypeOK
  <1>8. CASE FinishBuild(b) \/ StopBuild(b)
    BY <1>8, BuildStep DEF FinishBuild, StopBuild, Objects, Building, TaskFree, TypeOK
  <1> QED
    BY <1>1, <1>2, <1>3, <1>4, <1>5, <1>6, <1>7, <1>8

\* Every step of an updater, and of the reaper, keeps the invariant.
LEMMA MarkdownUpdate ==
    ASSUME MarkdownInv, NEW u \in Updater,
           \/ \E c \in Content : BeginUpdate(u, c)
           \/ WriteOriginal(u) \/ CommitUpdate(u) \/ DropMarkdown(u)
           \/ RollbackUpdate(u) \/ Restore(u) \/ LoseUpdate(u)
    PROVE  Cleared' /\ MarkdownOfChunks'
  <1> USE ProcessAssumption DEF MarkdownInv, Locked, Cleared, MarkdownOfChunks, Process
  <1>1. CASE \E c \in Content : BeginUpdate(u, c)
    BY <1>1 DEF BeginUpdate, Objects
  <1>2. CASE WriteOriginal(u) \/ DropMarkdown(u) \/ Restore(u)
    BY <1>2 DEF WriteOriginal, DropMarkdown, Restore
  <1>3. CASE CommitUpdate(u)
    BY <1>3 DEF CommitUpdate, RowAfter, Objects
  <1>4. CASE RollbackUpdate(u) \/ LoseUpdate(u)
    BY <1>4 DEF RollbackUpdate, LoseUpdate, Objects
  <1> QED
    BY <1>1, <1>2, <1>3, <1>4

\* The invariant is inductive.
LEMMA MarkdownStep == MarkdownInv /\ [Next]_vars => MarkdownInv'
  <1> SUFFICES ASSUME MarkdownInv, [Next]_vars
               PROVE  MarkdownInv'
    OBVIOUS
  <1>1. TypeOK' /\ Locked'
    BY TypeStep, LockedStep DEF MarkdownInv
  <1>2. ASSUME Reap
        PROVE  Cleared' /\ MarkdownOfChunks'
    BY <1>2, ProcessAssumption
    DEF MarkdownInv, Cleared, MarkdownOfChunks, Reap, Objects, TaskFree, Locked, Process
  <1>3. ASSUME UNCHANGED vars
        PROVE  Cleared' /\ MarkdownOfChunks'
    BY <1>3 DEF MarkdownInv, Cleared, MarkdownOfChunks, vars
  <1>4. Cleared' /\ MarkdownOfChunks'
    BY <1>2, <1>3, MarkdownBuild, MarkdownUpdate DEF Next
  <1> QED
    BY <1>1, <1>4 DEF MarkdownInv

\* The initial states satisfy both invariants.
LEMMA InvInit == Init => MarkdownInv /\ RestoreInv
  <1> SUFFICES ASSUME Init
               PROVE  MarkdownInv /\ RestoreInv
    OBVIOUS
  <1>1. TypeOK
    BY TypeInit
  <1>2. Locked
    BY ProcessAssumption DEF Init, Locked, FreshBuild, FreshUpdate, Process
  <1>3. Cleared /\ MarkdownOfChunks
    BY DEF Init, Cleared, MarkdownOfChunks, FreshBuild
  <1>4. Undoable
    BY DEF Init, Undoable, FreshUpdate
  <1> QED
    BY <1>1, <1>2, <1>3, <1>4 DEF MarkdownInv, RestoreInv

\* The Markdown that a row refers to is, while the object is there, that of its chunks.
THEOREM MarkdownCorrect == Spec => []MarkdownOfChunks
  <1>1. MarkdownInv => MarkdownOfChunks
    BY DEF MarkdownInv
  <1> QED
    BY <1>1, InvInit, MarkdownStep, PTL DEF Spec

-----------------------------------------------------------------------------
(* The original.                                                           *)

\* What was spoiled stays so: the updates that died or came late do nothing more.
LEMMA SpoiledStep == TypeOK /\ Spoiled /\ [Next]_vars => Spoiled'
  <1> SUFFICES ASSUME TypeOK, [Next]_vars, NEW u \in Updater,
                      \/ update[u].at \in {"lost", "late"}
                      \/ update[u].at = "restoring" /\ update[u].late
               PROVE  Spoiled'
    BY DEF Spoiled
  <1> USE DEF Spoiled
  <1>1. CASE UNCHANGED update
    BY <1>1
  <1>2. ASSUME NEW v \in Updater, NEW c \in Content, BeginUpdate(v, c)
        PROVE  Spoiled'
    <2>1. u # v
      BY <1>2 DEF BeginUpdate
    <2> QED
      BY <1>2, <2>1, BeginStep
  <1>3. ASSUME NEW v \in Updater, WriteOriginal(v)
        PROVE  Spoiled'
    BY <1>3, OverwriteStep DEF WriteOriginal
  <1>4. ASSUME NEW v \in Updater, CommitUpdate(v)
        PROVE  Spoiled'
    BY <1>4, UpdateStep, LostAnswer DEF CommitUpdate, Updating
  <1>5. ASSUME NEW v \in Updater, RollbackUpdate(v) \/ LoseUpdate(v)
        PROVE  Spoiled'
    BY <1>5, UpdateStep DEF RollbackUpdate, LoseUpdate, Updating
  <1>6. ASSUME NEW v \in Updater, DropMarkdown(v) \/ Restore(v)
        PROVE  Spoiled'
    BY <1>6, UpdateStep DEF DropMarkdown, Restore, Updating
  <1>7. CASE Next
    <2>1. Reap \/ (\E b \in Builder :
                       \/ Start(b) \/ Prepare(b) \/ DeleteStale(b) \/ Extract(b) \/ Read(b)
                       \/ Write(b) \/ CommitBuild(b) \/ RollbackBuild(b) \/ DeleteWritten(b)
                       \/ FinishBuild(b) \/ StopBuild(b))
          => UNCHANGED update
      BY DEF Reap, Start, Prepare, DeleteStale, Extract, Read, Write, CommitBuild, RollbackBuild,
             DeleteWritten, FinishBuild, StopBuild
    <2> QED
      BY <1>1, <1>2, <1>3, <1>4, <1>5, <1>6, <1>7, <2>1 DEF Next
  <1> QED
    BY <1>1, <1>7 DEF vars

\* Updates that are neither lost nor late leave what the row describes, whichever overlap.
LEMMA RestoreStep == RestoreInv /\ [Next]_vars => RestoreInv'
  <1> SUFFICES ASSUME RestoreInv, [Next]_vars
               PROVE  RestoreInv'
    OBVIOUS
  <1>1. TypeOK' /\ Locked'
    BY TypeStep, LockedStep DEF RestoreInv
  <1>2. CASE Spoiled
    BY <1>1, <1>2, SpoiledStep DEF RestoreInv, Undoable
  <1>3. CASE ~Spoiled
    <2> DEFINE Open(u) == update[u].at \in {"locked", "written", "restoring"}
    <2>1. \A u, v \in Updater : Open(u) /\ Open(v) => u = v
      BY <1>3 DEF RestoreInv, Undoable
    <2>2. \A u \in Updater : Open(u) => update[u].old = row.content
      BY <1>3 DEF RestoreInv, Undoable
    <2>3. \A u \in Updater : update[u].at = "written" => original = update[u].to
      BY <1>3 DEF RestoreInv, Undoable
    <2>4. (\A u \in Updater : update[u].at \notin {"written", "restoring"})
             => original = row.content
      BY <1>3 DEF RestoreInv, Undoable
    <2>5. \A u \in Updater : update[u].at # "lost" /\ update[u].at # "late"
                             /\ (update[u].at = "restoring" => ~update[u].late)
      BY <1>3 DEF Spoiled
    <2>6. \A u \in Updater : update[u].at \in {"locked", "written"} <=> lock = u
      BY DEF RestoreInv, Locked
    <2>7. TypeOK
      BY DEF RestoreInv
    <2>8. ASSUME ~Spoiled',
                 \A u, v \in Updater : Open(u)' /\ Open(v)' => u = v,
                 \A u \in Updater : Open(u)' => update'[u].old = row'.content,
                 \A u \in Updater : update'[u].at = "written" => original' = update'[u].to,
                 (\A u \in Updater : update'[u].at \notin {"written", "restoring"})
                    => original' = row'.content
          PROVE  Undoable'
      BY <2>8 DEF Undoable
    <2>9. ASSUME original' = original, update' = update, row'.content = row.content
          PROVE  Undoable'
      <3>1. original' = original /\ update' = update
        BY <2>9
      <3>2. ~Spoiled'
        BY <2>5, <3>1 DEF Spoiled
      <3>3. \A u \in Updater : Open(u)' <=> Open(u)
        BY <3>1
      <3>4. \A u \in Updater : Open(u)' => update'[u].old = row'.content
        BY <2>2, <2>9, <3>1
      <3>5. (\A u \in Updater : update'[u].at \notin {"written", "restoring"})
               => original' = row'.content
        BY <2>4, <2>9, <3>1
      <3> QED
        BY <2>1, <2>3, <2>8, <3>1, <3>2, <3>3, <3>4, <3>5
    <2>10. ASSUME NEW b \in Builder,
                  \/ Start(b) \/ Prepare(b) \/ DeleteStale(b) \/ Extract(b) \/ Read(b)
                  \/ Write(b) \/ CommitBuild(b) \/ RollbackBuild(b) \/ DeleteWritten(b)
                  \/ FinishBuild(b) \/ StopBuild(b)
           PROVE  original' = original /\ update' = update /\ row'.content = row.content
      <3>1. row \in Row
        BY <2>7 DEF TypeOK
      <3> QED
        BY <2>10, <3>1 DEF Start, Prepare, DeleteStale, Extract, Read, Write, CommitBuild,
          RollbackBuild, DeleteWritten, FinishBuild, StopBuild, Objects, Row
    <2>11. ASSUME NEW u \in Updater, NEW c \in Content, BeginUpdate(u, c)
           PROVE  Undoable'
      <3>1. CASE \E v \in Updater \ {u} : update[v].at = "restoring"
        BY <2>7, <2>11, <3>1, BeginStep DEF Undoable, Spoiled
      <3>2. CASE \A v \in Updater \ {u} : update[v].at # "restoring"
        <4>1. \A v \in Updater \ {u} : ~Open(v) /\ ~Open(v)'
          <5>1. \A v \in Updater : lock # v
            BY <2>11, ProcessAssumption DEF BeginUpdate, Process
          <5> QED
            BY <2>6, <2>7, <2>11, <3>2, <5>1, BeginStep
        <4>2. original = row.content
          BY <2>4, <2>11, <4>1 DEF BeginUpdate
        <4> QED
          BY <2>7, <2>11, <4>1, <4>2, BeginStep DEF BeginUpdate, Objects, Undoable
      <3> QED
        BY <3>1, <3>2
    <2>12. ASSUME NEW u \in Updater, WriteOriginal(u)
           PROVE  Undoable'
      <3>1. /\ update'[u].at = "written" /\ update'[u].to = update[u].to
            /\ update'[u].old = update[u].old
            /\ \A v \in Updater \ {u} : update'[v] = update[v]
        BY <2>7, <2>12, OverwriteStep
      <3>2. Open(u) /\ original' = update[u].to /\ row' = row
        BY <2>12 DEF WriteOriginal
      <3>3. \A v \in Updater \ {u} : ~Open(v)
        BY <2>1, <3>2
      <3> QED
        BY <2>2, <3>1, <3>2, <3>3 DEF Undoable
    <2>13. ASSUME NEW u \in Updater, CommitUpdate(u)
           PROVE  Undoable'
      <3>1. row'.content = update[u].to /\ original' = update[u].to
        BY <2>3, <2>13 DEF CommitUpdate, RowAfter, Objects
      <3>2. \A v \in Updater \ {u} : ~Open(v)
        BY <2>1, <2>13 DEF CommitUpdate
      <3>3. CASE update'[u].at \in {"idle", "dropping"} /\ \A v \in Updater \ {u} : update'[v] = update[v]
        BY <3>1, <3>2, <3>3 DEF Undoable
      <3>4. CASE update'[u].at = "restoring" /\ update'[u].late
        BY <3>4 DEF Undoable, Spoiled
      <3> QED
        BY <2>7, <2>13, <3>3, <3>4, UpdateStep, LostAnswer DEF CommitUpdate, Updating
    <2>14. ASSUME NEW u \in Updater, RollbackUpdate(u)
           PROVE  Undoable'
      <3>1. \A v \in Updater \ {u} : ~Open(v)
        BY <2>1, <2>14 DEF RollbackUpdate
      <3>2. update[u].at = "locked" => original = row.content
        BY <2>4, <3>1
      <3> QED
        BY <2>2, <2>7, <2>14, <3>1, <3>2, UpdateStep DEF RollbackUpdate, Objects, Updating, Undoable
    <2>15. ASSUME NEW u \in Updater, LoseUpdate(u)
           PROVE  Undoable'
      <3>1. CASE update[u].at \in {"written", "restoring"}
        BY <2>7, <2>15, <3>1, UpdateStep DEF LoseUpdate, Updating, Undoable, Spoiled
      <3>2. CASE update[u].at \in {"locked", "dropping"}
        <4>1. update'[u].at = "idle" /\ \A v \in Updater \ {u} : update'[v] = update[v]
          BY <2>7, <2>15, <3>2, UpdateStep DEF LoseUpdate, Updating
        <4>2. original' = original /\ row' = row
          BY <2>15 DEF LoseUpdate, Objects
        <4> QED
          BY <1>3, <2>1, <2>2, <2>3, <2>4, <3>2, <4>1, <4>2 DEF Undoable
      <3> QED
        BY <2>15, <3>1, <3>2 DEF LoseUpdate
    <2>16. ASSUME NEW u \in Updater, DropMarkdown(u)
           PROVE  Undoable'
      <3>1. update'[u].at = "idle" /\ \A v \in Updater \ {u} : update'[v] = update[v]
        BY <2>7, <2>16, UpdateStep DEF DropMarkdown, Updating
      <3>2. original' = original /\ row' = row /\ update[u].at = "dropping"
        BY <2>16 DEF DropMarkdown
      <3> QED
        BY <1>3, <2>1, <2>2, <2>3, <2>4, <3>1, <3>2 DEF Undoable
    <2>17. ASSUME NEW u \in Updater, Restore(u)
           PROVE  Undoable'
      <3>1. original' = row'.content
        BY <2>2, <2>17 DEF Restore
      <3>2. \A v \in Updater \ {u} : ~Open(v) /\ update'[v] = update[v]
        BY <2>1, <2>7, <2>17, UpdateStep DEF Restore, Updating
      <3>3. update'[u].at = "idle"
        BY <2>5, <2>7, <2>17, UpdateStep DEF Restore, Updating
      <3> QED
        BY <3>1, <3>2, <3>3 DEF Undoable
    <2>18. ASSUME Reap \/ UNCHANGED vars
           PROVE  original' = original /\ update' = update /\ row'.content = row.content
      BY <2>18 DEF Reap, vars, Objects
    <2> HIDE DEF Open
    <2>19. Undoable'
      BY <2>9, <2>10, <2>11, <2>12, <2>13, <2>14, <2>15, <2>16, <2>17, <2>18 DEF Next
    <2> QED
      BY <1>1, <2>19 DEF RestoreInv
  <1> QED
    BY <1>2, <1>3

\* When no update holds the row or owes the storage anything, the original is what the row
\* describes, however many updates overlapped or failed, unless one of them was lost or late.
THEOREM OriginalCorrect == Spec => []OriginalRestored
  <1>1. RestoreInv => OriginalRestored
    BY DEF RestoreInv, Undoable, Spoiled, OriginalRestored
  <1> QED
    BY <1>1, InvInit, RestoreStep, PTL DEF Spec
=============================================================================
