-------------------------- MODULE FileBuildProofs --------------------------
(***************************************************************************)
(* Theorems about FileBuild, for every set of files, contents, profiles,   *)
(* executors and mutators and every bound on the requests; at the end,     *)
(* that the counters of a batch agree with its tasks and that FileBuild    *)
(* implements Jobs.                                                        *)
(***************************************************************************)
EXTENDS FileBuildJobs, FiniteSetTheorems, TLAPS

USE ConstantsAssumption

-----------------------------------------------------------------------------
(* What the helpers return.                                                *)

\* A task is a pair of a request and a file.
LEMMA TaskParts ==
    ASSUME NEW t \in Task
    PROVE  t[1] \in Request /\ t[2] \in File /\ t = <<t[1], t[2]>>
  BY DEF Task

\* The number of a request's tasks in a set is a natural number.
LEMMA DeltaNat ==
    ASSUME NEW r \in Request, NEW S
    PROVE  Delta(r, S) \in Nat
  <1>1. IsFiniteSet({f \in File : <<r, f>> \in S})
    BY FS_Subset
  <1> QED
    BY <1>1, FS_CardinalityType DEF Delta, CountOf

\* Ending tasks keeps rows rows.
LEMMA EndAllType ==
    ASSUME TypeOK, NEW S, NEW status \in Terminal
    PROVE  EndAll(S, status) \in [Task -> Row]
  <1> SUFFICES ASSUME NEW t \in Task
               PROVE  (IF t \in S THEN Ended(t, status) ELSE row[t]) \in Row
    BY DEF EndAll
  <1>1. row[t] \in Row
    BY DEF TypeOK
  <1>2. Ended(t, status) \in Row
    BY <1>1 DEF Ended, Row
  <1> QED
    BY <1>1, <1>2

\* Advancing batches keeps batches batches.
LEMMA AdvanceAllType ==
    ASSUME TypeOK, NEW S
    PROVE  AdvanceAll(S) \in [Request -> Batch]
  <1> SUFFICES ASSUME NEW r \in Request
               PROVE  (IF batch[r].status = "none" \/ Delta(r, S) = 0
                         THEN batch[r] ELSE AdvancedBatch(batch[r], Delta(r, S))) \in Batch
    BY DEF AdvanceAll
  <1>1. batch[r] \in Batch
    BY DEF TypeOK
  <1>2. Delta(r, S) \in Nat
    BY DeltaNat
  <1>3. AdvancedBatch(batch[r], Delta(r, S)) \in Batch
    <2>1. batch[r].completed + Delta(r, S) \in Nat
      BY <1>1, <1>2 DEF Batch
    <2> QED
      BY <1>1, <2>1 DEF AdvancedBatch, Batch
  <1> QED
    BY <1>1, <1>3

\* What a mutation leaves of the rows are rows.
LEMMA MutatedRowsType ==
    ASSUME TypeOK, NEW S, NEW O
    PROVE  MutatedRows(S, O) \in [Task -> Row]
  <1>1. EndAll(S, "skipped") \in [Task -> Row]
    BY EndAllType DEF Terminal, Outcome
  <1>2. ASSUME NEW ended \in [Task -> Row], NEW t \in Task
        PROVE  [ended[t] EXCEPT !.outdated = @ \/ t \in O] \in Row
    <2>1. ended[t] \in Row
      OBVIOUS
    <2> QED
      BY <2>1 DEF Row
  <1> QED
    BY <1>1, <1>2 DEF MutatedRows

\* A row that is created is a row.
LEMMA NewRowType ==
    ASSUME TypeOK, NEW f \in File, NEW p \in Profile,
           NEW mode \in {"BACKGROUND", "INLINE"}, NEW early \in BOOLEAN
    PROVE  NewRow(f, p, mode, early) \in Row
  BY DEF TypeOK, NewRow, Row, Active

\* An execution that is not idle has a task; it can move, and it can stop.
LEMMA ExecType ==
    ASSUME TypeOK, NEW e \in Executor
    PROVE  /\ exec[e].at # "idle" => exec[e].task \in Task
           /\ \A at \in Working \cup Outcome :
                 exec[e].at # "idle" /\ Moves(e, at) => exec' \in [Executor -> Execution]
           /\ Stops(e) => exec' \in [Executor -> Execution]
  <1>1. exec \in [Executor -> Execution] /\ exec[e] \in Execution
    BY DEF TypeOK
  <1>2. Idle \in Execution
    BY DEF Execution
  <1>3. ASSUME exec[e].at # "idle"
        PROVE  exec[e] \in [at : Working \cup Outcome, task : Task, stale : BOOLEAN]
    BY <1>1, <1>3 DEF Execution, Idle
  <1>4. ASSUME NEW at \in Working \cup Outcome, exec[e].at # "idle"
        PROVE  [exec[e] EXCEPT !.at = at] \in Execution
    BY <1>3, <1>4 DEF Execution
  <1> QED
    BY <1>1, <1>2, <1>3, <1>4 DEF Moves, Stops

-----------------------------------------------------------------------------
(* Type correctness.                                                       *)

\* Every initial state is well typed.
LEMMA TypeInit == Init => TypeOK
  <1> SUFFICES ASSUME Init PROVE TypeOK
    OBVIOUS
  <1>1. AbsentRow \in Row
    BY DEF AbsentRow, Row
  <1>2. NoBatch \in Batch
    BY DEF NoBatch, Batch
  <1>3. Idle \in Execution
    BY DEF Idle, Execution
  <1>4. NoMutation \in Mutation
    BY DEF NoMutation, Mutation
  <1> QED
    BY <1>1, <1>2, <1>3, <1>4 DEF Init, TypeOK

\* Every step keeps the state well typed.
LEMMA TypeStep == TypeOK /\ [Next]_vars => TypeOK'
  <1> SUFFICES ASSUME TypeOK, [Next]_vars
               PROVE  TypeOK'
    OBVIOUS
  <1>1. ASSUME NEW F \in SUBSET File, NEW early \in SUBSET File, NEW p \in Profile,
               NEW force \in BOOLEAN, Accept(F, p, force, early)
        PROVE  TypeOK'
    <2> DEFINE accepted == {f \in F : checksum[f] # None /\ ~Reusable(f, p, force)}
               replaced == Superseded(accepted)
               created  == [status    |-> IF accepted = {} THEN "completed" ELSE "pending",
                            accepted  |-> Cardinality(accepted),
                            completed |-> 0]
    <2>1. EndAll(replaced, "skipped") \in [Task -> Row]
      BY EndAllType DEF Terminal, Outcome
    <2>2. \A f \in File : NewRow(f, p, "BACKGROUND", f \in early) \in Row
      <3>1. \A f \in File : (f \in early) \in BOOLEAN
        OBVIOUS
      <3> QED
        BY <3>1, NewRowType
    <2>3. row' = [t \in Task |-> IF t[1] = last + 1 /\ t[2] \in accepted
                                   THEN NewRow(t[2], p, "BACKGROUND", t[2] \in early)
                                   ELSE EndAll(replaced, "skipped")[t]]
      BY <1>1 DEF Accept
    <2>4. row' \in [Task -> Row]
      BY <2>1, <2>2, <2>3, TaskParts
    <2>5. Cardinality(accepted) \in Nat
      BY FS_Subset, FS_CardinalityType
    <2>6. created \in Batch
      BY <2>5 DEF Batch
    <2>7. AdvanceAll(replaced) \in [Request -> Batch]
      BY AdvanceAllType
    <2>8. batch' = [AdvanceAll(replaced) EXCEPT ![last + 1] = created]
      BY <1>1 DEF Accept
    <2>9. batch' \in [Request -> Batch]
      BY <2>6, <2>7, <2>8
    <2>10. last' \in 0 .. MaxRequests
      BY <1>1 DEF Accept, TypeOK
    <2> QED
      BY <1>1, <2>4, <2>9, <2>10 DEF Accept, TypeOK, FileRow, Content
  <1>2. ASSUME NEW e \in Caller, NEW f \in File, NEW early \in BOOLEAN,
               InlineStart(e, f, early)
        PROVE  TypeOK'
    <2> DEFINE replaced == Superseded({f})
    <2>1. <<last + 1, f>> \in Task /\ last + 1 \in 0 .. MaxRequests
      BY <1>2 DEF InlineStart, TypeOK, Task, Request
    <2>2. EndAll(replaced, "skipped") \in [Task -> Row]
      BY EndAllType DEF Terminal, Outcome
    <2>3. NewRow(f, ProfileOf[e], "INLINE", early) \in Row
      BY NewRowType DEF Executor
    <2>4. row' \in [Task -> Row]
      BY <1>2, <2>1, <2>2, <2>3 DEF InlineStart
    <2>5. batch' \in [Request -> Batch]
      BY <1>2, AdvanceAllType DEF InlineStart
    <2>6. exec' \in [Executor -> Execution]
      <3>1. Claimed(<<last + 1, f>>) \in Execution
        BY <2>1 DEF Claimed, Execution, Working
      <3> QED
        BY <1>2, <3>1 DEF InlineStart, TypeOK
    <2> QED
      BY <1>2, <2>1, <2>4, <2>5, <2>6 DEF InlineStart, TypeOK, FileRow, Content
  <1>3. ASSUME NEW e \in Slot, NEW t \in Task, Claim(e, t)
        PROVE  TypeOK'
    <2>1. row' \in [Task -> Row]
      <3>1. [row[t] EXCEPT !.status = "running", !.worker = e] \in Row
        <4>1. row[t] \in Row /\ e \in Executor
          BY DEF TypeOK, Executor
        <4> QED
          BY <4>1 DEF Row, Active
      <3> QED
        BY <1>3, <3>1 DEF Claim, TypeOK
    <2>2. batch' \in [Request -> Batch]
      BY <1>3, TaskParts DEF Claim, TypeOK, Batch
    <2>3. exec' \in [Executor -> Execution]
      <3>1. Claimed(t) \in Execution
        BY DEF Claimed, Execution, Working
      <3> QED
        BY <1>3, <3>1 DEF Claim, TypeOK
    <2> QED
      BY <1>3, <2>1, <2>2, <2>3 DEF Claim, TypeOK, FileRow, Content
  <1>4. ASSUME NEW e \in Executor, Prepare(e)
        PROVE  TypeOK'
    <2>1. exec' \in [Executor -> Execution]
      BY <1>4, ExecType DEF Prepare, Working, Outcome
    <2>2. index' \in [File -> Derivation \cup {None}]
      BY <1>4 DEF Prepare, Cleared, TypeOK
    <2> QED
      BY <1>4, <2>1, <2>2 DEF Prepare, TypeOK, Content
  <1>5. ASSUME NEW e \in Executor, Stage(e)
        PROVE  TypeOK'
    <2>1. exec[e].at \in DOMAIN NextStage =>
              exec[e].at # "idle" /\ NextStage[exec[e].at] \in Working
      BY DEF NextStage, Working
    <2>2. exec' \in [Executor -> Execution]
      BY <1>5, <2>1, ExecType DEF Stage
    <2> QED
      BY <1>5, <2>2 DEF Stage, TypeOK, FileRow, Content
  <1>6. ASSUME NEW e \in Executor, Commit(e)
        PROVE  TypeOK'
    <2>1. exec' \in [Executor -> Execution]
      BY <1>6, ExecType DEF Commit, Outcome
    <2>2. row' \in [Task -> Row] /\ batch' \in [Request -> Batch]
      BY <1>6, EndAllType, AdvanceAllType DEF Commit, TypeOK, Terminal
    <2>3. exec[e].task \in Task /\ exec[e].stale \in BOOLEAN
      BY <1>6 DEF Commit, TypeOK, Execution, Idle
    <2>4. Derived(e) \in Derivation
      BY <2>3, ConstantsAssumption DEF Derived, Derivation
    <2>5. index' \in [File -> Derivation \cup {None}]
      BY <1>6, <2>3, <2>4 DEF Commit, TypeOK
    <2> QED
      BY <1>6, <2>1, <2>2, <2>5 DEF Commit, TypeOK, Content
  <1>7. ASSUME NEW e \in Executor, NEW outcome \in Outcome, Fail(e, outcome)
        PROVE  TypeOK'
    <2>1. exec[e].at # "idle"
      BY <1>7 DEF Fail, Working
    <2>2. exec' \in [Executor -> Execution]
      BY <1>7, <2>1, ExecType DEF Fail
    <2> QED
      BY <1>7, <2>2 DEF Fail, TypeOK, FileRow, Content
  <1>8. ASSUME NEW e \in Executor, Finish(e)
        PROVE  TypeOK'
    <2>1. exec' \in [Executor -> Execution]
      BY <1>8, ExecType DEF Finish
    <2>2. row' \in [Task -> Row] /\ batch' \in [Request -> Batch]
      <3>1. exec[e].at \in Terminal
        BY <1>8 DEF Finish, Terminal
      <3> QED
        BY <1>8, <3>1, EndAllType, AdvanceAllType DEF Finish, TypeOK
    <2> QED
      BY <1>8, <2>1, <2>2 DEF Finish, TypeOK, FileRow, Content
  <1>9. ASSUME NEW e \in Slot, LoseLease(e)
        PROVE  TypeOK'
    BY <1>9, ExecType DEF LoseLease, TypeOK, FileRow, Content, Executor
  <1>10. ASSUME NEW e \in Executor, Crash(e)
         PROVE  TypeOK'
    BY <1>10, ExecType DEF Crash, TypeOK, FileRow, Content
  <1>11. ASSUME NEW t \in Task, Expire(t)
         PROVE  TypeOK'
    <2>1. row' \in [Task -> Row]
      <3>1. [row[t] EXCEPT !.expired = TRUE] \in Row
        <4>1. row[t] \in Row
          BY DEF TypeOK
        <4> QED
          BY <4>1 DEF Row
      <3> QED
        BY <1>11, <3>1 DEF Expire, TypeOK
    <2> QED
      BY <1>11, <2>1 DEF Expire, TypeOK, FileRow, Content
  <1>12. ASSUME NEW t \in Task, Reap(t)
         PROVE  TypeOK'
    <2>1. row' \in [Task -> Row] /\ batch' \in [Request -> Batch]
      BY <1>12, EndAllType, AdvanceAllType DEF Reap, Terminal, Outcome
    <2> QED
      BY <1>12, <2>1 DEF Reap, TypeOK, FileRow, Content
  <1>13. ASSUME NEW m \in Mutator, NEW f \in File, NEW c \in Checksum, BeginUpdate(m, f, c)
         PROVE  TypeOK'
    <2>1. mutation' \in [Mutator -> Mutation]
      BY <1>13 DEF BeginUpdate, TypeOK, Mutation, ActiveOf
    <2> QED
      BY <1>13, <2>1 DEF BeginUpdate, TypeOK, FileRow, Content
  <1>14. ASSUME NEW m \in Mutator, NEW F \in SUBSET File, BeginDelete(m, F)
         PROVE  TypeOK'
    <2>1. mutation' \in [Mutator -> Mutation]
      BY <1>14 DEF BeginDelete, TypeOK, Mutation, ActiveOf
    <2> QED
      BY <1>14, <2>1 DEF BeginDelete, TypeOK, FileRow, Content
  <1>15. ASSUME NEW m \in Mutator, CommitMutation(m)
         PROVE  TypeOK'
    <2> DEFINE mut == mutation[m]
    <2>1. mut \in Mutation
      BY DEF TypeOK
    <2>2. mut.kind = "update" => mut.to \in Checksum \cup {None}
      BY <2>1 DEF Mutation
    <2>3. checksum' \in [File -> Checksum \cup {None}]
      BY <1>15, <2>2 DEF CommitMutation, TypeOK
    <2>4. deleted' \in [File -> BOOLEAN]
      BY <1>15 DEF CommitMutation, TypeOK
    <2>5. index' \in [File -> Derivation \cup {None}]
      BY <1>15 DEF CommitMutation, ClearedByMutation, TypeOK
    <2>6. changed' \in SUBSET File
      BY <1>15, <2>1 DEF CommitMutation, TypeOK, Mutation
    <2>7. exec' \in [Executor -> Execution]
      <3>1. ASSUME NEW e \in Executor, exec[e].at \in Working
            PROVE  [exec[e] EXCEPT !.stale = TRUE] \in Execution
        <4>1. exec[e] \in Execution \ {Idle}
          BY <3>1 DEF TypeOK, Idle, Working
        <4>2. [exec[e] EXCEPT !.stale = TRUE]
                \in [at : Working \cup Outcome, task : Task, stale : BOOLEAN]
          BY <4>1 DEF Execution
        <4> QED
          BY <4>2 DEF Execution
      <3>2. exec' = Overtaken(mut) /\ exec \in [Executor -> Execution]
        BY <1>15 DEF CommitMutation, TypeOK
      <3> QED
        BY <3>1, <3>2 DEF Overtaken
    <2>8. row' \in [Task -> Row]
      BY <1>15, MutatedRowsType DEF CommitMutation
    <2>9. batch' \in [Request -> Batch]
      BY <1>15, AdvanceAllType DEF CommitMutation
    <2>10. mutation' \in [Mutator -> Mutation]
      BY <1>15 DEF CommitMutation, TypeOK, Mutation, NoMutation
    <2> QED
      BY <1>15, <2>3, <2>4, <2>5, <2>6, <2>7, <2>8, <2>9, <2>10 DEF CommitMutation, TypeOK
  <1>16. ASSUME NEW m \in Mutator, AbortMutation(m)
         PROVE  TypeOK'
    <2>1. mutation' \in [Mutator -> Mutation]
      BY <1>16 DEF AbortMutation, TypeOK, Mutation, NoMutation
    <2> QED
      BY <1>16, <2>1 DEF AbortMutation, TypeOK, FileRow, Content
  <1>17. ASSUME UNCHANGED vars
         PROVE  TypeOK'
    BY <1>17 DEF vars, TypeOK
  <1> QED
    BY <1>1, <1>2, <1>3, <1>4, <1>5, <1>6, <1>7, <1>8, <1>9, <1>10, <1>11, <1>12,
       <1>13, <1>14, <1>15, <1>16, <1>17 DEF Next

\* Type correctness of every reachable state.
THEOREM TypeCorrect == Spec => []TypeOK
  BY TypeInit, TypeStep, PTL DEF Spec

-----------------------------------------------------------------------------
(* The life of a task: what a step may do to its row.                      *)

SameInput(t) == row'[t].input = row[t].input

Keeps(t)  == row'[t].status = row[t].status /\ SameInput(t)
Starts(t) == row[t].status = "pending" /\ row'[t].status = "running" /\ SameInput(t)

\* The step holds the row lock of t, by itself or as the mutation that ends.
Locked(t) ==
    \/ TaskFree(t) /\ UNCHANGED mutation
    \/ \E m \in Mutator : t \in mutation[m].fenced /\ CommitMutation(m)
Ends(t) == IsActive(t) /\ row'[t].status \in Terminal /\ SameInput(t) /\ Locked(t)

Creates(t) ==
    /\ t[1] = last + 1 /\ last' = last + 1
    /\ row'[t].status \in Active
    /\ \A u \in Task : u[2] = t[2] /\ u # t => row'[u].status \notin Active

\* What EndAll does to one row.
LEMMA EndAllRow ==
    ASSUME TypeOK, NEW S, NEW status, NEW t \in Task
    PROVE  /\ EndAll(S, status)[t].status = IF t \in S THEN status ELSE row[t].status
           /\ EndAll(S, status)[t].input = row[t].input
  <1>1. row[t] \in Row
    BY DEF TypeOK
  <1> QED
    BY <1>1 DEF EndAll, Ended, Row

\* What the rows created by requests and by Entity builds hold.
LEMMA NewRowFields ==
    ASSUME NEW f, NEW p, NEW early
    PROVE  /\ NewRow(f, p, "BACKGROUND", early).status = "pending"
           /\ NewRow(f, p, "INLINE", early).status = "running"
           /\ \A mode : NewRow(f, p, mode, early).input = checksum[f]
  BY DEF NewRow

\* Ended is not active, and active is neither ended nor absent.
LEMMA Statuses ==
    /\ Active \cap Terminal = {}
    /\ "absent" \notin Active \cup Terminal
    /\ "running" \in Active /\ "pending" \in Active
    /\ Outcome \subseteq Terminal /\ "succeeded" \in Terminal /\ "skipped" \in Outcome
    /\ "failed" \in Outcome
  BY DEF Active, Terminal, Outcome

\* A step keeps, starts, ends or creates a task.
LEMMA Life ==
    ASSUME TypeOK, Fenced, [Next]_vars, NEW t \in Task
    PROVE  Keeps(t) \/ Starts(t) \/ Ends(t) \/ Creates(t)
  <1>1. ASSUME NEW F \in SUBSET File, NEW early \in SUBSET File, NEW p \in Profile,
               NEW force \in BOOLEAN, Accept(F, p, force, early)
        PROVE  Keeps(t) \/ Ends(t) \/ Creates(t)
    <2> DEFINE accepted == {f \in F : checksum[f] # None /\ ~Reusable(f, p, force)}
               replaced == Superseded(accepted)
               ended    == EndAll(replaced, "skipped")
    <2>1. \A u \in Task : row'[u] = IF u[1] = last + 1 /\ u[2] \in accepted
                                      THEN NewRow(u[2], p, "BACKGROUND", u[2] \in early) ELSE ended[u]
      BY <1>1 DEF Accept
    <2>2. \A u \in Task : u \in replaced <=> u[2] \in accepted /\ IsActive(u)
      BY DEF Superseded, ActiveOf
    <2>3. \A u \in Task : /\ ended[u].status = IF u \in replaced THEN "skipped" ELSE row[u].status
                          /\ ended[u].input = row[u].input
      BY EndAllRow
    <2> HIDE DEF accepted, replaced, ended
    <2>4. CASE t[1] = last + 1 /\ t[2] \in accepted
      <3>1. row'[t].status \in Active
        BY <2>1, <2>4, NewRowFields, Statuses
      <3>2. ASSUME NEW u \in Task, u[2] = t[2], u # t
            PROVE  row'[u].status \notin Active
        <4>1. u[1] # last + 1
          BY <2>4, <3>2 DEF Task
        <4>2. row'[u].status = IF u \in replaced THEN "skipped" ELSE row[u].status
          BY <2>1, <2>3, <4>1
        <4> QED
          BY <2>2, <2>4, <3>2, <4>2, Statuses DEF IsActive
      <3> QED
        BY <1>1, <2>4, <3>1, <3>2 DEF Creates, Accept
    <2>5. CASE ~(t[1] = last + 1 /\ t[2] \in accepted)
      <3>1. SameInput(t) /\ row'[t].status = IF t \in replaced THEN "skipped" ELSE row[t].status
        BY <2>1, <2>3, <2>5 DEF SameInput
      <3>2. CASE t \in replaced
        <4>1. TaskFree(t) /\ UNCHANGED mutation
          BY <1>1, <3>2 DEF Accept, replaced, accepted
        <4> QED
          BY <2>2, <3>1, <3>2, <4>1, Statuses DEF Ends, Locked
      <3> QED
        BY <3>1, <3>2 DEF Keeps
    <2> QED
      BY <2>4, <2>5
  <1>2. ASSUME NEW e \in Caller, NEW f \in File, NEW early \in BOOLEAN,
               InlineStart(e, f, early)
        PROVE  Keeps(t) \/ Ends(t) \/ Creates(t)
    <2> DEFINE replaced == Superseded({f})
               ended    == EndAll(replaced, "skipped")
    <2>1. <<last + 1, f>> \in Task
      BY <1>2 DEF InlineStart, TypeOK, Task, Request
    <2>2. ended \in [Task -> Row]
      BY EndAllType, Statuses
    <2>3. \A u \in Task : row'[u] = IF u = <<last + 1, f>>
                                      THEN NewRow(f, ProfileOf[e], "INLINE", early) ELSE ended[u]
      BY <1>2, <2>1, <2>2 DEF InlineStart
    <2>4. \A u \in Task : u \in replaced <=> u[2] = f /\ IsActive(u)
      BY DEF Superseded, ActiveOf
    <2>5. \A u \in Task : /\ ended[u].status = IF u \in replaced THEN "skipped" ELSE row[u].status
                          /\ ended[u].input = row[u].input
      BY EndAllRow
    <2> HIDE DEF replaced, ended
    <2>6. CASE t = <<last + 1, f>>
      <3>1. row'[t].status \in Active
        BY <2>3, <2>6, NewRowFields, Statuses
      <3>2. ASSUME NEW u \in Task, u[2] = t[2], u # t
            PROVE  row'[u].status \notin Active
        <4>1. row'[u].status = IF u \in replaced THEN "skipped" ELSE row[u].status
          BY <2>3, <2>5, <2>6, <3>2
        <4> QED
          BY <2>4, <2>6, <3>2, <4>1, Statuses DEF IsActive
      <3> QED
        BY <1>2, <2>6, <3>1, <3>2 DEF Creates, InlineStart
    <2>7. CASE t # <<last + 1, f>>
      <3>1. SameInput(t) /\ row'[t].status = IF t \in replaced THEN "skipped" ELSE row[t].status
        BY <2>3, <2>5, <2>7 DEF SameInput
      <3>2. CASE t \in replaced
        <4>1. TaskFree(t) /\ UNCHANGED mutation
          BY <1>2, <3>2 DEF InlineStart, replaced
        <4> QED
          BY <2>4, <3>1, <3>2, <4>1, Statuses DEF Ends, Locked
      <3> QED
        BY <3>1, <3>2 DEF Keeps
    <2> QED
      BY <2>6, <2>7
  <1>3. ASSUME NEW e \in Slot, NEW u \in Task, Claim(e, u)
        PROVE  Keeps(t) \/ Starts(t)
    <2>1. row[t] \in Row /\ row' = [row EXCEPT ![u].status = "running", ![u].worker = e]
      BY <1>3 DEF TypeOK, Claim
    <2> QED
      BY <1>3, <2>1 DEF Claim, TypeOK, Row, Keeps, Starts, SameInput
  <1>4. ASSUME NEW u \in Task, NEW status \in Terminal, IsActive(u), TaskFree(u),
               row' = EndAll({u}, status), UNCHANGED mutation
        PROVE  Keeps(t) \/ Ends(t)
    BY <1>4, EndAllRow DEF Keeps, Ends, Locked, SameInput
  <1>5. ASSUME NEW e \in Executor, Commit(e)
        PROVE  Keeps(t) \/ Ends(t)
    <2>1. exec[e].task \in Task
      BY <1>5, ExecType DEF Commit
    <2>2. Held(e) => IsActive(exec[e].task)
      BY Statuses DEF Held, IsActive
    <2> QED
      BY <1>4, <1>5, <2>1, <2>2, Statuses DEF Commit, Keeps, SameInput
  <1>6. ASSUME NEW e \in Executor, Finish(e)
        PROVE  Keeps(t) \/ Ends(t)
    <2>1. exec[e].task \in Task
      BY <1>6, ExecType DEF Finish, Outcome
    <2>2. Held(e) => IsActive(exec[e].task)
      BY Statuses DEF Held, IsActive
    <2> QED
      BY <1>4, <1>6, <2>1, <2>2, Statuses DEF Finish, Keeps, SameInput
  <1>7. ASSUME NEW u \in Task, Reap(u)
        PROVE  Keeps(t) \/ Ends(t)
    BY <1>4, <1>7, Statuses DEF Reap, IsActive
  <1>8. ASSUME NEW u \in Task, Expire(u)
        PROVE  Keeps(t)
    <2>1. row[t] \in Row /\ row' = [row EXCEPT ![u].expired = TRUE]
      BY <1>8 DEF TypeOK, Expire
    <2> QED
      BY <2>1 DEF TypeOK, Row, Keeps, SameInput
  <1>9. ASSUME NEW m \in Mutator, CommitMutation(m)
        PROVE  Keeps(t) \/ Ends(t)
    <2> DEFINE mut   == mutation[m]
               ended == EndAll(mut.fenced, "skipped")
    <2>1. ended \in [Task -> Row]
      BY EndAllType, Statuses
    <2>2. /\ ended[t].status = IF t \in mut.fenced THEN "skipped" ELSE row[t].status
          /\ ended[t].input = row[t].input
      BY EndAllRow
    <2>3. row'[t].status = ended[t].status /\ row'[t].input = ended[t].input
      <3>1. PICK O : row'[t] = [ended[t] EXCEPT !.outdated = @ \/ t \in O]
        BY <1>9 DEF CommitMutation, MutatedRows
      <3>2. ended[t] \in Row
        BY <2>1
      <3> HIDE DEF ended
      <3> QED
        BY <3>1, <3>2 DEF Row
    <2>4. t \in mut.fenced => IsActive(t)
      BY DEF Fenced
    <2> QED
      BY <1>9, <2>2, <2>3, <2>4, Statuses DEF Keeps, Ends, SameInput, Locked
  <1>10. ASSUME UNCHANGED row
         PROVE  Keeps(t)
    BY <1>10 DEF Keeps, SameInput
  <1>11. CASE Next
    <2>1. \/ \E e \in Executor : Prepare(e) \/ Stage(e) \/ Crash(e)
          \/ \E e \in Executor, outcome \in Outcome : Fail(e, outcome)
          \/ \E e \in Slot : LoseLease(e)
          \/ \E m \in Mutator, f \in File, c \in Checksum : BeginUpdate(m, f, c)
          \/ \E m \in Mutator, F \in SUBSET File : BeginDelete(m, F)
          \/ \E m \in Mutator : AbortMutation(m)
          => UNCHANGED row
      BY DEF Prepare, Stage, Fail, LoseLease, Crash, BeginUpdate, BeginDelete, AbortMutation
    <2> QED
      BY <1>1, <1>2, <1>3, <1>5, <1>6, <1>7, <1>8, <1>9, <1>10, <1>11, <2>1 DEF Next
  <1> QED
    BY <1>10, <1>11 DEF vars

-----------------------------------------------------------------------------
(* The inductive invariant.                                                *)

\* The invariant holds initially: nothing has been requested.
LEMMA IInvInit == Init => IInv
  <1> SUFFICES ASSUME Init PROVE IInv
    OBVIOUS
  <1>1. TypeOK
    BY TypeInit
  <1>2. \A t \in Task : ~Exists(t) /\ ~IsActive(t)
    BY Statuses DEF Init, AbsentRow, Exists, IsActive
  <1>3. \A e \in Executor : exec[e].at = "idle"
    BY DEF Init, Idle
  <1>4. \A m \in Mutator : mutation[m].fenced = {}
    BY DEF Init, NoMutation
  <1>5. last = 0 /\ \A f \in File : index[f] = None
    BY DEF Init
  <1> QED
    BY <1>1, <1>2, <1>3, <1>4, <1>5
    DEF IInv, Numbered, Fenced, Fresh, NewestIsActive, IndexCurrent, ExclusiveRebuild, Working

\* A step does not take back a request number.
LEMMA LastGrows ==
    ASSUME TypeOK, [Next]_vars
    PROVE  last \in Int /\ last' \in Int /\ last <= last'
  <1>1. last \in Int
    BY DEF TypeOK
  <1>2. last' = last \/ last' = last + 1
    BY DEF Next, vars, Accept, InlineStart, Claim, Prepare, Stage, Commit, Fail, Finish,
           LoseLease, Crash, Expire, Reap, BeginUpdate, BeginDelete, CommitMutation, AbortMutation
  <1> QED
    BY <1>1, <1>2

\* An update changes the content that e has checked.
Overtakes(e) ==
    /\ exec'[e].at = exec[e].at /\ exec'[e].task = exec[e].task
    /\ exec[e].at \in Working \ {"claimed"}
    /\ \E m \in Mutator :
          /\ CommitMutation(m) /\ mutation[m].kind = "update"
          /\ exec[e].task[2] \in mutation[m].files

\* What a step does to an execution that is not idle after it.
LEMMA ExecStep ==
    ASSUME TypeOK, [Next]_vars, NEW e \in Executor, exec'[e].at # "idle"
    PROVE  \/ exec'[e] = exec[e]
           \/ Overtakes(e)
           \/ /\ exec[e].at # "idle" /\ exec'[e].task = exec[e].task
              /\ \/ exec'[e].at \in Outcome
                 \/ /\ exec'[e].at = "prepared" /\ exec'[e].stale = exec[e].stale
                    /\ Prepare(e) /\ Held(e) /\ InputValid(exec[e].task)
                 \/ /\ exec[e].at \in Working \ {"claimed"} /\ exec'[e].stale = exec[e].stale
                    /\ Stage(e)
           \/ /\ exec'[e].at = "claimed" /\ ~exec'[e].stale
              /\ row'[exec'[e].task].status = "running"
  <1>1. exec \in [Executor -> Execution] /\ exec[e] \in Execution
    BY DEF TypeOK
  <1>2. ASSUME NEW d \in Executor, NEW at, Moves(d, at)
        PROVE  \/ exec'[e] = exec[e]
               \/ /\ d = e /\ exec'[e].at = at /\ exec'[e].task = exec[e].task
                  /\ exec'[e].stale = exec[e].stale
    BY <1>1, <1>2 DEF Moves, Execution, Idle
  <1>3. ASSUME NEW d \in Executor, Stops(d)
        PROVE  exec'[e] = exec[e]
    BY <1>1, <1>3 DEF Stops, Idle
  <1>4. ASSUME NEW d \in Caller, NEW f \in File, NEW early \in BOOLEAN,
               InlineStart(d, f, early)
        PROVE  \/ exec'[e] = exec[e]
               \/ /\ exec'[e].at = "claimed" /\ ~exec'[e].stale
                  /\ row'[exec'[e].task].status = "running"
    <2> DEFINE t == <<last + 1, f>>
    <2>1. t \in Task /\ EndAll(Superseded({f}), "skipped") \in [Task -> Row]
      <3>1. t \in Task
        BY <1>4 DEF InlineStart, TypeOK, Task, Request
      <3> QED
        BY <3>1, EndAllType, Statuses
    <2>2. row'[t].status = "running"
      BY <1>4, <2>1, NewRowFields DEF InlineStart
    <2>3. exec'[e] = exec[e] \/ exec'[e] = Claimed(t)
      BY <1>1, <1>4 DEF InlineStart
    <2> QED
      BY <2>2, <2>3 DEF Claimed
  <1>5. ASSUME NEW d \in Slot, NEW t \in Task, Claim(d, t)
        PROVE  \/ exec'[e] = exec[e]
               \/ /\ exec'[e].at = "claimed" /\ ~exec'[e].stale
                  /\ row'[exec'[e].task].status = "running"
    <2>1. row'[t].status = "running"
      BY <1>5 DEF Claim, TypeOK, Row
    <2>2. exec'[e] = exec[e] \/ exec'[e] = Claimed(t)
      BY <1>1, <1>5 DEF Claim
    <2> QED
      BY <2>1, <2>2 DEF Claimed
  <1>6. ASSUME NEW d \in Executor, Prepare(d)
        PROVE  \/ exec'[e] = exec[e]
               \/ /\ exec[e].at # "idle" /\ exec'[e].task = exec[e].task
                  /\ \/ exec'[e].at \in Outcome
                     \/ /\ exec'[e].at = "prepared" /\ exec'[e].stale = exec[e].stale
                        /\ Prepare(e) /\ Held(e) /\ InputValid(exec[e].task)
    BY <1>2, <1>3, <1>6, Statuses DEF Prepare
  <1>7. ASSUME NEW d \in Executor, Stage(d)
        PROVE  \/ exec'[e] = exec[e]
               \/ /\ exec[e].at # "idle" /\ exec'[e].task = exec[e].task
                  /\ exec[e].at \in Working \ {"claimed"} /\ exec'[e].stale = exec[e].stale
                  /\ Stage(e)
    BY <1>2, <1>3, <1>7 DEF Stage, NextStage, Working
  <1>8. ASSUME NEW d \in Executor, Commit(d)
        PROVE  \/ exec'[e] = exec[e]
               \/ exec[e].at # "idle" /\ exec'[e].task = exec[e].task /\ exec'[e].at \in Outcome
    BY <1>2, <1>3, <1>8, Statuses DEF Commit
  <1>9. ASSUME NEW d \in Executor, NEW outcome \in Outcome, Fail(d, outcome)
        PROVE  \/ exec'[e] = exec[e]
               \/ exec[e].at # "idle" /\ exec'[e].task = exec[e].task /\ exec'[e].at \in Outcome
    BY <1>2, <1>9 DEF Fail, Working
  <1>10. ASSUME NEW d \in Executor, Finish(d) \/ LoseLease(d) \/ Crash(d)
         PROVE  exec'[e] = exec[e]
    BY <1>3, <1>10 DEF Finish, LoseLease, Crash
  <1>11. ASSUME UNCHANGED exec
         PROVE  exec'[e] = exec[e]
    BY <1>11
  <1>12. ASSUME NEW m \in Mutator, CommitMutation(m)
         PROVE  exec'[e] = exec[e] \/ Overtakes(e)
    <2>1. exec'[e] = Overtaken(mutation[m])[e]
      BY <1>12 DEF CommitMutation
    <2>2. ASSUME exec[e].at \in Working
          PROVE  /\ [exec[e] EXCEPT !.stale = TRUE].at = exec[e].at
                 /\ [exec[e] EXCEPT !.stale = TRUE].task = exec[e].task
      BY <1>1, <2>2 DEF Execution, Idle, Working
    <2> QED
      BY <1>12, <2>1, <2>2 DEF Overtaken, Overtakes
  <1> QED
    BY <1>4, <1>5, <1>6, <1>7, <1>8, <1>9, <1>10, <1>11, <1>12
    DEF Next, vars, Executor, Accept, Expire, Reap, BeginUpdate, BeginDelete, AbortMutation

\* Rows and executions stay numbered by requests that were made.
LEMMA NumberedStep ==
    ASSUME TypeOK, Numbered, Fenced, [Next]_vars
    PROVE  Numbered'
  <1>1. ASSUME NEW t \in Task, Exists(t)'
        PROVE  t[1] <= last'
    <2>1. t[1] \in Int
      BY TaskParts DEF Request
    <2>2. Exists(t) \/ Creates(t)
      BY <1>1, Life, Statuses DEF Keeps, Starts, Ends, Exists, IsActive
    <2> QED
      BY <2>1, <2>2, LastGrows DEF Numbered, Creates
  <1>2. ASSUME NEW e \in Executor, exec'[e].at # "idle"
        PROVE  row'[exec'[e].task].status \notin {"absent", "pending"}
    <2> DEFINE t == exec[e].task
    <2>1. CASE exec[e].at # "idle" /\ exec'[e].task = t
      <3>1. t \in Task /\ Exists(t) /\ row[t].status # "pending"
        BY <2>1, ExecType DEF Numbered, Exists
      <3>2. ~Creates(t)
        BY <3>1, LastGrows, TaskParts DEF Creates, Numbered, Request
      <3> QED
        BY <2>1, <3>1, <3>2, Life, Statuses DEF Keeps, Starts, Ends, Exists
    <2>2. CASE exec'[e] # exec[e] /\ ~(exec[e].at # "idle" /\ exec'[e].task = t)
      BY <1>2, <2>2, ExecStep, Statuses DEF Numbered, Overtakes, Working
    <2> QED
      BY <1>2, <2>1, <2>2
  <1> QED
    BY <1>1, <1>2 DEF Numbered

\* The tasks that a mutation has fenced stay active and its own.
LEMMA FencedStep ==
    ASSUME TypeOK, Fenced, [Next]_vars
    PROVE  Fenced'
  <1>1. \A m \in Mutator : mutation[m] \in Mutation /\ mutation[m].fenced \subseteq Task
    BY DEF TypeOK, Mutation
  <1>2. ASSUME UNCHANGED mutation
        PROVE  Fenced'
    <2>1. ASSUME NEW m \in Mutator, NEW t \in mutation[m].fenced
          PROVE  IsActive(t)'
      <3>1. t \in Task /\ IsActive(t) /\ ~TaskFree(t)
        BY <1>1 DEF Fenced, TaskFree
      <3>2. ~ \E n \in Mutator : t \in mutation[n].fenced /\ CommitMutation(n)
        BY <1>2, <1>1 DEF CommitMutation, TypeOK, NoMutation
      <3>3. Keeps(t) \/ Starts(t) \/ Creates(t)
        BY <3>1, <3>2, Life DEF Ends, Locked
      <3> QED
        BY <3>1, <3>3, Statuses DEF Keeps, Starts, Creates, IsActive
    <2> QED
      BY <1>2, <2>1 DEF Fenced
  <1>3. ASSUME NEW m \in Mutator, NEW F \in SUBSET File, NEW mut, UNCHANGED row,
               \A t \in ActiveOf(F) : TaskFree(t),
               mutation' = [mutation EXCEPT ![m] = mut], mut.fenced = ActiveOf(F)
        PROVE  Fenced'
    <2>1. /\ mutation'[m].fenced = ActiveOf(F)
          /\ \A n \in Mutator : n # m => mutation'[n] = mutation[n]
      BY <1>3 DEF TypeOK
    <2>2. \A t \in ActiveOf(F) : IsActive(t)' /\ \A n \in Mutator : t \notin mutation[n].fenced
      BY <1>3 DEF ActiveOf, IsActive, TaskFree
    <2>3. \A n \in Mutator : \A t \in mutation[n].fenced : IsActive(t)'
      BY <1>3 DEF Fenced, IsActive
    <2> QED
      BY <2>1, <2>2, <2>3 DEF Fenced
  <1>4. ASSUME NEW m \in Mutator, mutation' = [mutation EXCEPT ![m] = NoMutation],
               \A t \in Task : IsActive(t) /\ t \notin mutation[m].fenced => IsActive(t)'
        PROVE  Fenced'
    <2>1. /\ mutation'[m].fenced = {}
          /\ \A n \in Mutator : n # m => mutation'[n] = mutation[n]
      BY <1>4 DEF TypeOK, NoMutation
    <2> QED
      BY <1>1, <1>4, <2>1 DEF Fenced
  <1>5. ASSUME NEW m \in Mutator, NEW f \in File, NEW c \in Checksum, BeginUpdate(m, f, c)
        PROVE  Fenced'
    <2> DEFINE mut == [kind |-> "update", files |-> {f}, to |-> c,
                       fenced |-> ActiveOf({f})]
    <2>1. mutation' = [mutation EXCEPT ![m] = mut] /\ mut.fenced = ActiveOf({f})
      BY <1>5 DEF BeginUpdate
    <2>2. UNCHANGED row /\ \A t \in ActiveOf({f}) : TaskFree(t)
      BY <1>5 DEF BeginUpdate
    <2> HIDE DEF mut
    <2> QED
      BY <1>3, <2>1, <2>2
  <1>6. ASSUME NEW m \in Mutator, NEW F \in SUBSET File, BeginDelete(m, F)
        PROVE  Fenced'
    <2> DEFINE mut == [kind |-> "delete", files |-> F, to |-> None,
                       fenced |-> ActiveOf(F)]
    <2>1. mutation' = [mutation EXCEPT ![m] = mut] /\ mut.fenced = ActiveOf(F)
      BY <1>6 DEF BeginDelete
    <2>2. UNCHANGED row /\ \A t \in ActiveOf(F) : TaskFree(t)
      BY <1>6 DEF BeginDelete
    <2> HIDE DEF mut
    <2> QED
      BY <1>3, <2>1, <2>2
  <1>7. ASSUME NEW m \in Mutator, AbortMutation(m)
        PROVE  Fenced'
    BY <1>4, <1>7 DEF AbortMutation, IsActive
  <1>8. ASSUME NEW m \in Mutator, CommitMutation(m)
        PROVE  Fenced'
    <2>1. ASSUME NEW t \in Task, IsActive(t), t \notin mutation[m].fenced
          PROVE  IsActive(t)'
      <3> DEFINE ended == EndAll(mutation[m].fenced, "skipped")
      <3>1. ended[t].status = row[t].status
        BY <2>1, EndAllRow
      <3>2. ended[t] \in Row
        BY EndAllType, Statuses
      <3>3. PICK O : row'[t] = [ended[t] EXCEPT !.outdated = @ \/ t \in O]
        BY <1>8 DEF CommitMutation, MutatedRows
      <3> HIDE DEF ended
      <3>4. row'[t].status = row[t].status
        BY <3>1, <3>2, <3>3 DEF Row
      <3> QED
        BY <2>1, <3>4 DEF IsActive
    <2> QED
      BY <1>4, <1>8, <2>1 DEF CommitMutation
  <1> QED
    BY <1>2, <1>5, <1>6, <1>7, <1>8
    DEF Next, vars, Accept, InlineStart, Claim, Prepare, Stage, Commit, Fail, Finish, LoseLease,
        Crash, Expire, Reap

\* What is active stays the newest task of its file.
LEMMA NewestStep ==
    ASSUME TypeOK, Numbered, Fenced, NewestIsActive, [Next]_vars
    PROVE  NewestIsActive'
  <1> SUFFICES ASSUME NEW t \in Task, NEW u \in Task, t[2] = u[2], IsActive(t)', Exists(u)'
               PROVE  u[1] <= t[1]
    BY DEF NewestIsActive
  <1>1. t[1] \in Int /\ u[1] \in Int
    BY TaskParts DEF Request
  <1>2. CASE Creates(t)
    BY <1>1, <1>2, NumberedStep DEF Creates, Numbered
  <1>3. CASE Creates(u)
    BY <1>1, <1>3 DEF Creates, IsActive
  <1>4. CASE ~Creates(t) /\ ~Creates(u)
    <2>1. IsActive(t)
      BY <1>4, Life, Statuses DEF Keeps, Starts, Ends, IsActive
    <2>2. Exists(u)
      BY <1>4, Life, Statuses DEF Keeps, Starts, Ends, IsActive, Exists
    <2> QED
      BY <2>1, <2>2 DEF NewestIsActive
  <1> QED
    BY <1>2, <1>3, <1>4

\* What a step does to a mutation that is open after it.
LEMMA MutationStep ==
    ASSUME TypeOK, [Next]_vars, NEW m \in Mutator, mutation'[m].kind = "update"
    PROVE  \/ mutation'[m] = mutation[m]
           \/ UNCHANGED row /\ mutation'[m].fenced = ActiveOf(mutation'[m].files)
  <1>1. mutation \in [Mutator -> Mutation]
    BY DEF TypeOK
  <1>2. ASSUME NEW n \in Mutator, NEW f \in File, NEW c \in Checksum, BeginUpdate(n, f, c)
        PROVE  \/ mutation'[m] = mutation[m]
               \/ UNCHANGED row /\ mutation'[m].fenced = ActiveOf(mutation'[m].files)
    BY <1>1, <1>2 DEF BeginUpdate
  <1>3. ASSUME NEW n \in Mutator, NEW F \in SUBSET File, BeginDelete(n, F)
        PROVE  mutation'[m] = mutation[m]
    BY <1>1, <1>3 DEF BeginDelete
  <1>4. ASSUME NEW n \in Mutator, CommitMutation(n) \/ AbortMutation(n)
        PROVE  mutation'[m] = mutation[m]
    BY <1>1, <1>4 DEF CommitMutation, AbortMutation, NoMutation
  <1> QED
    BY <1>2, <1>3, <1>4
    DEF Next, vars, Accept, InlineStart, Claim, Prepare, Stage, Commit, Fail, Finish, LoseLease,
        Crash, Expire, Reap

\* Builds at work on an active task stay fresh.
LEMMA FreshStep ==
    ASSUME TypeOK, Numbered, Fenced, Fresh, [Next]_vars
    PROVE  Fresh'
  <1> SUFFICES ASSUME NEW e \in Executor, exec'[e].at \in Working,
                      row'[exec'[e].task].status \in Active
               PROVE  /\ ~exec'[e].stale
                      /\ \A m \in Mutator :
                            /\ exec'[e].at # "claimed"
                            /\ mutation'[m].kind = "update"
                            /\ exec'[e].task[2] \in mutation'[m].files
                            => exec'[e].task \in mutation'[m].fenced
    BY DEF Fresh, IsActive
  <1> DEFINE t == exec[e].task
  <1>1. exec'[e].at # "idle" /\ exec'[e].at \notin Outcome
    BY DEF Working, Outcome
  <1>2. CASE /\ exec'[e].at = "claimed" /\ ~exec'[e].stale
             /\ row'[exec'[e].task].status = "running"
    BY <1>2
  <1>3. ASSUME exec[e].at # "idle", exec'[e].task = t
        PROVE  t \in Task /\ IsActive(t) /\ row'[t].status \in Active
    <2>1. t \in Task
      BY <1>3, ExecType
    <2>2. ~Creates(t)
      BY <1>3, <2>1, LastGrows, TaskParts DEF Creates, Numbered, Exists, Request
    <2>3. row'[t].status \in Active
      BY <1>3
    <2> HIDE DEF t
    <2>4. IsActive(t)
      BY <2>1, <2>2, <2>3, Life, Statuses DEF Keeps, Starts, Ends, IsActive
    <2> QED
      BY <2>1, <2>3, <2>4
  <1>4. CASE /\ exec[e].at # "idle" /\ exec'[e].task = t /\ exec'[e].stale = exec[e].stale
             /\ Prepare(e) /\ Held(e)
    <2>1. exec[e].at \in Working /\ FileFree(t[2]) /\ UNCHANGED mutation
      BY <1>4 DEF Prepare, Working
    <2> QED
      BY <1>3, <1>4, <2>1 DEF Fresh, FileFree
  <1>5. ASSUME exec[e].at \in Working \ {"claimed"}, exec'[e].task = t,
               NEW m \in Mutator, mutation'[m].kind = "update", t[2] \in mutation'[m].files
        PROVE  t \in mutation'[m].fenced
    <2>1. t \in Task /\ IsActive(t)
      BY <1>3, <1>5 DEF Working
    <2>2. CASE mutation'[m] = mutation[m]
      BY <1>5, <2>1, <2>2 DEF Fresh
    <2>3. CASE mutation'[m].fenced = ActiveOf(mutation'[m].files)
      BY <1>5, <2>1, <2>3 DEF ActiveOf
    <2> QED
      BY <1>5, <2>2, <2>3, MutationStep
  <1>6. CASE /\ exec[e].at \in Working \ {"claimed"} /\ exec'[e].task = t
             /\ exec'[e].stale = exec[e].stale
    BY <1>3, <1>5, <1>6 DEF Fresh, Working
  <1>7. CASE exec'[e] = exec[e]
    <2>1. CASE exec[e].at = "claimed"
      BY <1>3, <1>7, <2>1 DEF Fresh, Working
    <2>2. CASE exec[e].at # "claimed"
      BY <1>6, <1>7, <2>2
    <2> QED
      BY <2>1, <2>2
  <1>8. ASSUME Overtakes(e)
        PROVE  FALSE
    <2>1. PICK m \in Mutator :
              CommitMutation(m) /\ mutation[m].kind = "update" /\ t[2] \in mutation[m].files
      BY <1>8 DEF Overtakes
    <2>2. t \in Task /\ IsActive(t) /\ row'[t].status \in Active
      BY <1>3, <1>8 DEF Overtakes, Working
    <2>3. t \in mutation[m].fenced
      BY <1>8, <2>1, <2>2 DEF Fresh, Overtakes
    <2> DEFINE ended == EndAll(mutation[m].fenced, "skipped")
    <2>4. ended[t].status = "skipped" /\ ended[t] \in Row
      BY <2>2, <2>3, EndAllRow, EndAllType, Statuses
    <2>5. PICK O : row'[t] = [ended[t] EXCEPT !.outdated = @ \/ t \in O]
      BY <2>1, <2>2 DEF CommitMutation, MutatedRows
    <2> HIDE DEF ended
    <2>6. row'[t].status = "skipped"
      BY <2>4, <2>5 DEF Row
    <2> QED
      BY <2>2, <2>6, Statuses DEF IsActive
  <1> QED
    BY <1>1, <1>2, <1>4, <1>6, <1>7, <1>8, ExecStep

\* An executor publishes the derivatives of f.
Publishes(e, f) ==
    /\ exec[e].at = "embedding" /\ exec[e].task \in Task /\ exec[e].task[2] = f
    /\ Held(e) /\ InputValid(exec[e].task)
    /\ index'[f] = Derived(e)
    /\ row' = EndAll({exec[e].task}, "succeeded")
    /\ UNCHANGED <<checksum, deleted>>

\* The derivatives of a file change by being cleared or by being published.
LEMMA IndexChange ==
    ASSUME TypeOK, [Next]_vars, NEW f \in File
    PROVE  \/ /\ index'[f] = index[f]
              /\ checksum'[f] = checksum[f] /\ deleted'[f] = deleted[f]
           \/ index'[f] = None
           \/ \E e \in Executor : Publishes(e, f)
  <1>1. index \in [File -> Derivation \cup {None}]
    BY DEF TypeOK
  <1>2. ASSUME NEW m \in Mutator, CommitMutation(m), f \in mutation[m].files
        PROVE  index'[f] = None
    BY <1>2 DEF CommitMutation, ClearedByMutation
  <1>3. ASSUME NEW m \in Mutator, CommitMutation(m), f \notin mutation[m].files
        PROVE  index'[f] = index[f] /\ checksum'[f] = checksum[f] /\ deleted'[f] = deleted[f]
    BY <1>3 DEF CommitMutation, ClearedByMutation, TypeOK
  <1>4. CASE \E m \in Mutator : CommitMutation(m)
    BY <1>2, <1>3, <1>4
  <1>5. ASSUME UNCHANGED <<checksum, deleted>>, ~ \E m \in Mutator : CommitMutation(m),
               index'[f] = index[f] \/ index'[f] = None
        PROVE  \/ /\ index'[f] = index[f]
                  /\ checksum'[f] = checksum[f] /\ deleted'[f] = deleted[f]
               \/ index'[f] = None
    BY <1>5
  <1>6. ASSUME NEW e \in Executor, Prepare(e)
        PROVE  UNCHANGED <<checksum, deleted>> /\ (index'[f] = index[f] \/ index'[f] = None)
    BY <1>1, <1>6 DEF Prepare, Cleared, Content
  <1>7. ASSUME NEW e \in Executor, Commit(e)
        PROVE  /\ UNCHANGED <<checksum, deleted>>
               /\ index'[f] = index[f] \/ Publishes(e, f)
    <2>1. exec[e].task \in Task
      BY <1>7, ExecType DEF Commit
    <2> QED
      BY <1>1, <1>7, <2>1, TaskParts DEF Commit, Publishes, Content
  <1>8. CASE ~ \E m \in Mutator : CommitMutation(m)
    BY <1>5, <1>6, <1>7, <1>8
    DEF Next, vars, FileRow, Content, Accept, InlineStart, Claim, Stage, Fail, Finish, LoseLease,
        Crash, Expire, Reap, BeginUpdate, BeginDelete, AbortMutation
  <1> QED
    BY <1>4, <1>8

\* What is searchable stays current.
LEMMA IndexStep ==
    ASSUME TypeOK, Numbered, Fenced, Fresh, IndexCurrent, [Next]_vars
    PROVE  IndexCurrent'
  <1> SUFFICES ASSUME NEW f \in File, index'[f] # None
               PROVE  LET t == index'[f].task
                      IN  /\ t[2] = f
                          /\ row'[t].status = "succeeded"
                          /\ row'[t].input = checksum'[f]
                          /\ ~index'[f].stale
                          /\ ~deleted'[f]
    BY DEF IndexCurrent
  <1>1. CASE /\ index'[f] = index[f]
             /\ checksum'[f] = checksum[f] /\ deleted'[f] = deleted[f]
    <2> DEFINE t == index[f].task
    <2>1. t \in Task /\ t[2] = f /\ row[t].status = "succeeded" /\ row[t].input = checksum[f]
          /\ ~index[f].stale /\ ~deleted[f]
      BY <1>1 DEF IndexCurrent, TypeOK, Derivation
    <2>2. ~Creates(t)
      BY <2>1, LastGrows, TaskParts DEF Creates, Numbered, Exists, Request
    <2>3. Keeps(t)
      BY <2>1, <2>2, Life, Statuses DEF Starts, Ends, IsActive
    <2> QED
      BY <1>1, <2>1, <2>3 DEF Keeps, SameInput
  <1>2. ASSUME NEW e \in Executor, Publishes(e, f)
        PROVE  LET t == index'[f].task
               IN  /\ t[2] = f
                   /\ row'[t].status = "succeeded"
                   /\ row'[t].input = checksum'[f]
                   /\ ~index'[f].stale
                   /\ ~deleted'[f]
    <2> DEFINE t == exec[e].task
    <2>1. t \in Task /\ index'[f].task = t /\ t[2] = f /\ index'[f].stale = exec[e].stale
          /\ row' = EndAll({t}, "succeeded") /\ UNCHANGED <<checksum, deleted>>
      BY <1>2 DEF Publishes, Derived
    <2>2. /\ EndAll({t}, "succeeded")[t].status   = "succeeded"
          /\ EndAll({t}, "succeeded")[t].input    = row[t].input
      <3>1. t \in Task
        BY <2>1
      <3> HIDE DEF t
      <3> QED
        BY <3>1, EndAllRow
    <2>3. row[t].input = checksum[f] /\ ~deleted[f]
      BY <1>2 DEF Publishes, InputValid
    <2>4. ~exec[e].stale
      BY <1>2, Statuses DEF Publishes, Held, Fresh, IsActive, Working
    <2> QED
      BY <2>1, <2>2, <2>3, <2>4
  <1> QED
    BY <1>1, <1>2, IndexChange

\* A build that clears has its file's derivatives to itself until it ends.
LEMMA ExclusiveStep ==
    ASSUME TypeOK, Numbered, Fenced, NewestIsActive, ExclusiveRebuild, [Next]_vars
    PROVE  ExclusiveRebuild'
  <1> SUFFICES ASSUME NEW e \in Executor, exec'[e].at \in Working \ {"claimed"},
                      row'[exec'[e].task].status = "running"
               PROVE  index'[exec'[e].task[2]] = None
    BY DEF ExclusiveRebuild
  <1> DEFINE t == exec[e].task
             f == t[2]
  <1>1. exec'[e].at # "idle" /\ exec'[e].at \notin Outcome
    BY DEF Working, Outcome
  <1>2. exec'[e].task = t /\ exec[e].at # "idle"
    BY <1>1, ExecStep DEF Overtakes, Working
  <1>3. t \in Task /\ f \in File
    BY <1>2, ExecType, TaskParts
  <1>4. CASE Prepare(e) /\ Held(e) /\ InputValid(t)
    <2>1. index' = Cleared(f)
      BY <1>4 DEF Prepare
    <2> QED
      BY <1>2, <1>3, <2>1 DEF Cleared, TypeOK
  <1>5. CASE exec[e].at \in Working \ {"claimed"}
    <2>1. ~Creates(t)
      BY <1>2, <1>3, LastGrows, TaskParts DEF Creates, Numbered, Request, Exists
    <2>2. row[t].status = "running"
      BY <1>2, <1>3, <2>1, Life, Statuses DEF Keeps, Starts, Ends, Numbered
    <2>3. index[f] = None
      BY <1>5, <2>2 DEF ExclusiveRebuild
    <2>4. ASSUME NEW d \in Executor, Publishes(d, f)
          PROVE  FALSE
      <3> DEFINE u == exec[d].task
      <3>1. u \in Task /\ IsActive(u) /\ IsActive(t) /\ u[2] = t[2]
        BY <2>2, <2>4, Statuses DEF Publishes, Held, IsActive
      <3>2. u[1] = t[1]
        BY <1>3, <3>1, TaskParts, Statuses DEF NewestIsActive, IsActive, Exists, Request
      <3>3. u = t
        BY <1>3, <3>1, <3>2, TaskParts
      <3>4. row'[t].status = "succeeded"
        <4>1. EndAll({t}, "succeeded")[t].status = "succeeded"
          BY <1>3, EndAllRow
        <4> QED
          BY <2>4, <3>3, <4>1 DEF Publishes
      <3> QED
        BY <1>2, <3>4
    <2> QED
      BY <1>2, <1>3, <2>3, <2>4, IndexChange
  <1> QED
    BY <1>1, <1>2, <1>4, <1>5, ExecStep DEF Overtakes

\* The conjunction is inductive.
LEMMA IInvStep == IInv /\ [Next]_vars => IInv'
  BY TypeStep, NumberedStep, FencedStep, FreshStep, NewestStep, IndexStep, ExclusiveStep DEF IInv

\* The inductive invariant holds in every reachable state.
THEOREM Inductive == Spec => []IInv
  BY IInvInit, IInvStep, PTL DEF Spec

-----------------------------------------------------------------------------
(* The safety properties.                                                  *)

\* A file never has two active tasks.
THEOREM OneActive == Spec => []OneActivePerFile
  <1>1. IInv => OneActivePerFile
    <2> SUFFICES ASSUME IInv, NEW t \in Task, NEW u \in Task,
                        t[2] = u[2], IsActive(t), IsActive(u)
                 PROVE  t = u
      BY DEF OneActivePerFile
    <2>1. t[1] <= u[1] /\ u[1] <= t[1]
      BY Statuses DEF IInv, NewestIsActive, Exists, IsActive
    <2> QED
      BY <2>1, TaskParts DEF Request
  <1> QED
    BY <1>1, Inductive, PTL

\* Only current derivatives are searchable.
THEOREM Current == Spec => []IndexCurrent
  <1>1. IInv => IndexCurrent
    BY DEF IInv
  <1> QED
    BY <1>1, Inductive, PTL

\* A running build that has cleared finds nothing published by others.
THEOREM Exclusive == Spec => []ExclusiveRebuild
  <1>1. IInv => ExclusiveRebuild
    BY DEF IInv
  <1> QED
    BY <1>1, Inductive, PTL

\* The status of a task that has ended never changes.
THEOREM Final == Spec => TerminalFinal
  <1>1. IInv /\ [Next]_vars =>
          [\A t \in Task : IsTerminal(t) => row'[t].status = row[t].status]_vars
    <2> SUFFICES ASSUME IInv, [Next]_vars, NEW t \in Task, IsTerminal(t)
                 PROVE  row'[t].status = row[t].status
      OBVIOUS
    <2>1. ~Creates(t)
      BY LastGrows, TaskParts, Statuses DEF IInv, Creates, Numbered, Exists, IsTerminal, Request
    <2> QED
      BY <2>1, Life, Statuses DEF IInv, Keeps, Starts, Ends, IsTerminal, IsActive
  <1> QED
    BY <1>1, Inductive, PTL DEF Spec, TerminalFinal

\* Only the newest task of a file publishes.
THEOREM Published == Spec => PublishedByNewest
  <1>1. IInv /\ [Next]_vars =>
          [\A f \in File :
              index'[f] \notin {index[f], None} =>
                  /\ \A u \in Task : u[2] = f /\ Exists(u) => u[1] <= index'[f].task[1]
                  /\ IsActive(index'[f].task)]_vars
    <2> SUFFICES ASSUME IInv, [Next]_vars, NEW f \in File, index'[f] \notin {index[f], None}
                 PROVE  /\ \A u \in Task : u[2] = f /\ Exists(u) => u[1] <= index'[f].task[1]
                        /\ IsActive(index'[f].task)
      OBVIOUS
    <2>1. PICK e \in Executor :
              /\ exec[e].task \in Task /\ exec[e].task[2] = f /\ Held(e)
              /\ index'[f].task = exec[e].task
      <3>1. PICK e \in Executor : Publishes(e, f)
        BY IndexChange DEF IInv
      <3> QED
        BY <3>1 DEF Publishes, Derived
    <2>2. IsActive(exec[e].task)
      BY <2>1, Statuses DEF Held, IsActive
    <2> QED
      BY <2>1, <2>2 DEF IInv, NewestIsActive
  <1> QED
    BY <1>1, Inductive, PTL DEF Spec, PublishedByNewest


-----------------------------------------------------------------------------
(* The inductive strengthening of BatchAccounting.                         *)

\* The files request r has a task for, and those whose task has ended.
Made(r) == {f \in File : Exists(<<r, f>>)}
Done(r) == {f \in File : IsTerminal(<<r, f>>)}

\* The tasks of a request with a batch are background tasks, and the counters are theirs.
Counted(r) ==
    /\ r <= last
    /\ \A f \in Made(r) : row[<<r, f>>].mode = "BACKGROUND"
    /\ batch[r].accepted  = Cardinality(Made(r))
    /\ batch[r].completed = Cardinality(Done(r))
    /\ (batch[r].status = "completed") <=> (batch[r].completed = batch[r].accepted)
    /\ batch[r].status = "pending" =>
          \A f \in File : row[<<r, f>>].status \in {"absent", "pending"}

\* A number without a batch is unused or that of an Entity build.
Unbatched(r) == \A f \in Made(r) : row[<<r, f>>].mode = "INLINE"

Account(r) == IF batch[r].status = "none" THEN Unbatched(r) ELSE Counted(r)

\* What makes BatchAccounting inductive: a batch has the tasks it was made with.
Accounted == \A r \in Request : Account(r)

-----------------------------------------------------------------------------
(* One request under a step that ends some of its tasks, or none.          *)

\* Of the tasks of request r the step ends those in S, and it advances its batch by them.
EndsIn(r, S) ==
    /\ \A f \in File :
          /\ row'[<<r, f>>].mode = row[<<r, f>>].mode
          /\ IF <<r, f>> \in S
               THEN IsActive(<<r, f>>) /\ row'[<<r, f>>].status \in Terminal
               ELSE row'[<<r, f>>].status = row[<<r, f>>].status
    /\ batch'[r] = AdvanceAll(S)[r]

\* Sets of files are finite, and so is what is counted.
LEMMA Countable ==
    ASSUME NEW r
    PROVE  /\ IsFiniteSet(Made(r)) /\ Cardinality(Made(r)) \in Nat
           /\ IsFiniteSet(Done(r)) /\ Cardinality(Done(r)) \in Nat
           /\ Done(r) \subseteq Made(r)
           /\ Cardinality(Done(r)) = Cardinality(Made(r)) => Done(r) = Made(r)
  <1>1. Made(r) \in SUBSET File /\ Done(r) \in SUBSET File
    BY DEF Made, Done
  <1>2. Done(r) \in SUBSET Made(r)
    BY Statuses DEF Made, Done, Exists, IsTerminal
  <1>3. IsFiniteSet(Made(r)) /\ IsFiniteSet(Done(r))
    BY <1>1, FS_Subset
  <1> QED
    BY <1>2, <1>3, FS_Subset, FS_CardinalityType

\* The tasks stay the same, and the ended ones grow by those in S.
LEMMA EndsCount ==
    ASSUME NEW r \in Request, NEW S, EndsIn(r, S)
    PROVE  /\ Made(r)' = Made(r)
           /\ Cardinality(Done(r)') = Cardinality(Done(r)) + Delta(r, S)
           /\ Delta(r, S) = 0 =>
                 \A f \in File : row'[<<r, f>>].status = row[<<r, f>>].status
  <1> DEFINE Ending == {f \in File : <<r, f>> \in S}
  <1>1. Made(r)' = Made(r)
    BY Statuses DEF Made, Exists, EndsIn, IsActive
  <1>2. Done(r)' = Done(r) \cup Ending
    BY Statuses DEF Done, IsTerminal, EndsIn, IsActive
  <1>3. Done(r) \cap Ending = {}
    BY Statuses DEF Done, IsTerminal, EndsIn, IsActive
  <1>4. IsFiniteSet(Done(r)) /\ IsFiniteSet(Ending)
    <2>1. Ending \in SUBSET File
      OBVIOUS
    <2> QED
      BY <2>1, Countable, FS_Subset
  <1>5. Delta(r, S) = Cardinality(Ending)
    BY DEF Delta, CountOf
  <1>6. Cardinality(Done(r)') = Cardinality(Done(r)) + Delta(r, S)
    <2> HIDE DEF Ending
    <2>1. Cardinality(Done(r) \cup Ending) =
              Cardinality(Done(r)) + Cardinality(Ending) - Cardinality(Done(r) \cap Ending)
      BY <1>4, FS_Union
    <2>2. Cardinality(Done(r)) \in Nat /\ Cardinality(Ending) \in Nat
      BY <1>4, FS_CardinalityType
    <2>3. Cardinality(Done(r) \cap Ending) = 0
      BY <1>3, FS_EmptySet
    <2>4. Cardinality(Done(r)') = Cardinality(Done(r) \cup Ending)
      BY <1>2
    <2> QED
      BY <1>5, <2>1, <2>2, <2>3, <2>4
  <1>7. ASSUME Delta(r, S) = 0, NEW f \in File
        PROVE  row'[<<r, f>>].status = row[<<r, f>>].status
    <2>1. Ending = {}
      BY <1>4, <1>5, <1>7, FS_EmptySet
    <2> QED
      BY <2>1 DEF EndsIn
  <1> QED
    BY <1>1, <1>6, <1>7

\* The account of the request stays right.
LEMMA EndsAccount ==
    ASSUME TypeOK, NEW r \in Request, NEW S, EndsIn(r, S), Account(r), last <= last', last' \in Int
    PROVE  Account(r)'
  <1>1. batch[r] \in Batch /\ last \in Int /\ r \in Int
    BY DEF TypeOK, Request
  <1>2. Delta(r, S) \in Nat
    BY DeltaNat
  <1>3. batch'[r] = IF batch[r].status = "none" \/ Delta(r, S) = 0
                      THEN batch[r] ELSE AdvancedBatch(batch[r], Delta(r, S))
    BY DEF EndsIn, AdvanceAll
  <1>4. CASE batch[r].status = "none"
    BY <1>3, <1>4, EndsCount DEF Account, Unbatched, Made, EndsIn
  <1>5. CASE batch[r].status # "none"
    <2>1. Counted(r)
      BY <1>5 DEF Account
    <2>2. /\ batch'[r].status # "none"
          /\ batch'[r].accepted = batch[r].accepted
          /\ batch'[r].completed = batch[r].completed + Delta(r, S)
          /\ (batch'[r].status = "completed") <=> (batch'[r].completed = batch'[r].accepted)
      <3>1. CASE Delta(r, S) = 0
        BY <1>1, <1>3, <1>5, <2>1, <3>1 DEF Counted, Batch
      <3>2. CASE Delta(r, S) # 0
        <4>1. batch'[r] = AdvancedBatch(batch[r], Delta(r, S))
          BY <1>3, <1>5, <3>2
        <4> QED
          BY <1>1, <4>1 DEF AdvancedBatch, Batch
      <3> QED
        BY <3>1, <3>2
    <2>3. ASSUME batch'[r].status = "pending", NEW f \in File
          PROVE  row'[<<r, f>>].status \in {"absent", "pending"}
      <3>1. Delta(r, S) = 0
        <4>1. ASSUME Delta(r, S) # 0
              PROVE  FALSE
          <5>1. batch'[r] = AdvancedBatch(batch[r], Delta(r, S))
            BY <1>3, <1>5, <4>1
          <5> QED
            BY <1>1, <2>3, <5>1 DEF AdvancedBatch, Batch
        <4> QED
          BY <4>1
      <3> QED
        BY <1>3, <2>1, <2>3, <3>1, EndsCount DEF Counted
    <2>4. \A f \in Made(r)' : row'[<<r, f>>].mode = "BACKGROUND"
      BY <2>1, EndsCount DEF Counted, EndsIn, Made
    <2>5. r <= last'
      BY <1>1, <2>1 DEF Counted
    <2>6. /\ batch'[r].accepted  = Cardinality(Made(r)')
          /\ batch'[r].completed = Cardinality(Done(r)')
      BY <2>1, <2>2, EndsCount DEF Counted
    <2> QED
      BY <2>2, <2>3, <2>4, <2>5, <2>6 DEF Account, Counted
  <1> QED
    BY <1>4, <1>5

-----------------------------------------------------------------------------
(* What each step does to the requests.                                    *)

\* The mode of a task outlives its end.
LEMMA EndAllMode ==
    ASSUME TypeOK, NEW S, NEW status, NEW t \in Task
    PROVE  EndAll(S, status)[t].mode = row[t].mode
  <1>1. row[t] \in Row
    BY DEF TypeOK
  <1> QED
    BY <1>1 DEF EndAll, Ended, Row

\* A step that changes no status and no batch ends no task.
LEMMA Quiet ==
    ASSUME TypeOK, UNCHANGED batch,
           \A t \in Task : row'[t].status = row[t].status /\ row'[t].mode = row[t].mode
    PROVE  \A r \in Request : EndsIn(r, {})
  <1> SUFFICES ASSUME NEW r \in Request
               PROVE  EndsIn(r, {})
    OBVIOUS
  <1>1. Delta(r, {}) = 0
    <2>1. {f \in File : <<r, f>> \in {}} = {}
      OBVIOUS
    <2> QED
      BY <2>1, FS_EmptySet DEF Delta, CountOf
  <1>2. AdvanceAll({})[r] = batch[r]
    BY <1>1 DEF AdvanceAll
  <1>3. \A f \in File : <<r, f>> \in Task
    BY DEF Task
  <1> QED
    BY <1>2, <1>3 DEF EndsIn

\* A step that ends active tasks and advances the batches by them.
LEMMA Ending ==
    ASSUME TypeOK, NEW S, NEW status \in Terminal, \A t \in Task : t \in S => IsActive(t),
           batch' = AdvanceAll(S),
           \A t \in Task : /\ row'[t].status = EndAll(S, status)[t].status
                           /\ row'[t].mode = EndAll(S, status)[t].mode
    PROVE  \A r \in Request : EndsIn(r, S)
  <1> SUFFICES ASSUME NEW r \in Request, NEW f \in File
               PROVE  /\ row'[<<r, f>>].mode = row[<<r, f>>].mode
                      /\ IF <<r, f>> \in S
                           THEN IsActive(<<r, f>>) /\ row'[<<r, f>>].status \in Terminal
                           ELSE row'[<<r, f>>].status = row[<<r, f>>].status
    BY DEF EndsIn
  <1>1. <<r, f>> \in Task
    BY DEF Task
  <1> QED
    BY <1>1, EndAllRow, EndAllMode

\* Request r creates pending tasks for the accepted files, and a batch that counts them.
CreatedIn(r, accepted) ==
    /\ batch'[r] = [status    |-> IF accepted = {} THEN "completed" ELSE "pending",
                    accepted  |-> Cardinality(accepted),
                    completed |-> 0]
    /\ \A f \in File :
          /\ row[<<r, f>>].status = "absent"
          /\ row'[<<r, f>>].status = IF f \in accepted THEN "pending" ELSE "absent"
          /\ f \in accepted => row'[<<r, f>>].mode = "BACKGROUND"

\* The files of F for which the request creates tasks.
AcceptedOf(F, p, force) == {f \in F : checksum[f] # None /\ ~Reusable(f, p, force)}

\* A request ends tasks of earlier requests and creates tasks of its own.
LEMMA AcceptStep ==
    ASSUME TypeOK, Numbered, NEW F \in SUBSET File, NEW early \in SUBSET File,
           NEW p \in Profile, NEW force \in BOOLEAN, Accept(F, p, force, early)
    PROVE  /\ last' = last + 1 /\ last + 1 \in Request
           /\ \E S : \A r \in Request \ {last + 1} : EndsIn(r, S)
           /\ CreatedIn(last + 1, AcceptedOf(F, p, force))
  <1> DEFINE accepted == {f \in F : checksum[f] # None /\ ~Reusable(f, p, force)}
             replaced == Superseded(accepted)
             ended    == EndAll(replaced, "skipped")
             created  == [status    |-> IF accepted = {} THEN "completed" ELSE "pending",
                          accepted  |-> Cardinality(accepted),
                          completed |-> 0]
  <1>1. \A t \in Task : row'[t] = IF t[1] = last + 1 /\ t[2] \in accepted
                                    THEN NewRow(t[2], p, "BACKGROUND", t[2] \in early) ELSE ended[t]
    BY DEF Accept
  <1>2. batch' = [AdvanceAll(replaced) EXCEPT ![last + 1] = created]
    BY DEF Accept
  <1>3. last' = last + 1 /\ last + 1 \in Request /\ ~(last + 1 <= last)
    BY DEF Accept, TypeOK, Request
  <1>4. \A t \in Task : t \in replaced => IsActive(t)
    BY DEF Superseded, ActiveOf
  <1>5. AdvanceAll(replaced) \in [Request -> Batch]
    BY AdvanceAllType
  <1>6. accepted \in SUBSET File
    OBVIOUS
  <1>7. \A t \in Task : /\ ended[t].status = IF t \in replaced THEN "skipped" ELSE row[t].status
                        /\ ended[t].mode = row[t].mode
    BY EndAllRow, EndAllMode
  <1>8. batch'[last + 1] = created
    BY <1>2, <1>3, <1>5
  <1> HIDE DEF accepted, replaced, ended
  <1>9. ASSUME NEW r \in Request \ {last + 1}
        PROVE  EndsIn(r, replaced)
    <2>1. batch'[r] = AdvanceAll(replaced)[r]
      BY <1>2, <1>3, <1>5
    <2>2. ASSUME NEW f \in File
          PROVE  <<r, f>> \in Task /\ row'[<<r, f>>] = ended[<<r, f>>]
      <3>1. <<r, f>> \in Task /\ <<r, f>>[1] # last + 1
        BY DEF Task
      <3> QED
        BY <1>1, <3>1
    <2> QED
      BY <1>4, <1>7, <2>1, <2>2, Statuses DEF EndsIn
  <1>10. ASSUME NEW f \in File
         PROVE  /\ row[<<last + 1, f>>].status = "absent"
                /\ row'[<<last + 1, f>>].status = IF f \in accepted THEN "pending" ELSE "absent"
                /\ f \in accepted => row'[<<last + 1, f>>].mode = "BACKGROUND"
    <2>1. <<last + 1, f>> \in Task /\ <<last + 1, f>>[1] = last + 1 /\ <<last + 1, f>>[2] = f
      BY <1>3 DEF Task
    <2>2. row[<<last + 1, f>>].status = "absent"
      BY <1>3, <2>1 DEF Numbered, Exists
    <2>3. <<last + 1, f>> \notin replaced
      BY <1>4, <2>1, <2>2, Statuses DEF IsActive
    <2>4. CASE f \in accepted
      <3>1. row'[<<last + 1, f>>] = NewRow(f, p, "BACKGROUND", f \in early)
        BY <1>1, <2>1, <2>4
      <3> QED
        BY <2>2, <2>4, <3>1 DEF NewRow
    <2>5. CASE f \notin accepted
      BY <1>1, <1>7, <2>1, <2>2, <2>3, <2>5
    <2> QED
      BY <2>4, <2>5
  <1>11. CreatedIn(last + 1, accepted)
    BY <1>8, <1>10 DEF CreatedIn
  <1>12. accepted = AcceptedOf(F, p, force)
    BY DEF AcceptedOf, accepted
  <1> HIDE DEF accepted
  <1> QED
    BY <1>3, <1>6, <1>9, <1>11, <1>12

\* An Entity build ends tasks of earlier requests and creates its own outside any batch.
LEMMA InlineStep ==
    ASSUME TypeOK, Numbered, Accounted, NEW e \in Caller, NEW f \in File, NEW early \in BOOLEAN,
               InlineStart(e, f, early)
    PROVE  /\ last' = last + 1 /\ last + 1 \in Request
           /\ \E S : \A r \in Request \ {last + 1} : EndsIn(r, S)
           /\ batch'[last + 1].status = "none"
           /\ \A g \in File :
                 /\ row[<<last + 1, g>>].status = "absent"
                 /\ \/ row'[<<last + 1, g>>].status = "absent"
                    \/ row'[<<last + 1, g>>].mode = "INLINE"
  <1> DEFINE replaced == Superseded({f})
             ended    == EndAll(replaced, "skipped")
  <1>1. last' = last + 1 /\ last + 1 \in Request /\ ~(last + 1 <= last)
    BY DEF InlineStart, TypeOK, Request
  <1>2. ended \in [Task -> Row] /\ <<last + 1, f>> \in Task
    BY <1>1, EndAllType, Statuses DEF Task
  <1>3. \A t \in Task : row'[t] = IF t = <<last + 1, f>>
                                    THEN NewRow(f, ProfileOf[e], "INLINE", early) ELSE ended[t]
    BY <1>2 DEF InlineStart
  <1>4. \A t \in Task : t \in replaced => IsActive(t)
    BY DEF Superseded, ActiveOf
  <1>5. \A t \in Task : /\ ended[t].status = IF t \in replaced THEN "skipped" ELSE row[t].status
                        /\ ended[t].mode = row[t].mode
    BY EndAllRow, EndAllMode
  <1>6. batch' = AdvanceAll(replaced)
    BY DEF InlineStart
  <1> HIDE DEF replaced, ended
  <1>7. ASSUME NEW r \in Request \ {last + 1}
        PROVE  EndsIn(r, replaced)
    <2>1. ASSUME NEW g \in File
          PROVE  <<r, g>> \in Task /\ row'[<<r, g>>] = ended[<<r, g>>]
      <3>1. <<r, g>> \in Task /\ <<r, g>> # <<last + 1, f>>
        BY DEF Task
      <3> QED
        BY <1>3, <3>1
    <2> QED
      BY <1>4, <1>5, <1>6, <2>1, Statuses DEF EndsIn
  <1>8. batch'[last + 1].status = "none"
    <2>1. batch[last + 1].status = "none"
      BY <1>1 DEF Accounted, Account, Counted
    <2> QED
      BY <1>1, <1>6, <2>1 DEF AdvanceAll
  <1>9. ASSUME NEW g \in File
        PROVE  /\ row[<<last + 1, g>>].status = "absent"
               /\ \/ row'[<<last + 1, g>>].status = "absent"
                  \/ row'[<<last + 1, g>>].mode = "INLINE"
    <2>1. <<last + 1, g>> \in Task /\ <<last + 1, g>>[1] = last + 1
      BY <1>1 DEF Task
    <2>2. row[<<last + 1, g>>].status = "absent"
      BY <1>1, <2>1 DEF Numbered, Exists
    <2>3. <<last + 1, g>> \notin replaced
      BY <1>4, <2>1, <2>2, Statuses DEF IsActive
    <2>4. CASE <<last + 1, g>> = <<last + 1, f>>
      BY <1>3, <2>1, <2>2, <2>4 DEF NewRow
    <2>5. CASE <<last + 1, g>> # <<last + 1, f>>
      BY <1>3, <1>5, <2>1, <2>2, <2>3, <2>5
    <2> QED
      BY <2>4, <2>5
  <1> QED
    BY <1>1, <1>7, <1>8, <1>9

\* A claim starts one pending background task and the work on its batch.
LEMMA ClaimStep ==
    ASSUME TypeOK, NEW e \in Slot, NEW t \in Task, Claim(e, t)
    PROVE  /\ last' = last
           /\ \A u \in Task : /\ row'[u].mode = row[u].mode
                              /\ row'[u].status = IF u = t THEN "running" ELSE row[u].status
           /\ row[t].status = "pending" /\ row[t].mode = "BACKGROUND"
           /\ \A r \in Request :
                 batch'[r] = IF r = t[1] /\ batch[r].status = "pending"
                               THEN [batch[r] EXCEPT !.status = "processing"] ELSE batch[r]
  <1>1. \A u \in Task : row[u] \in Row
    BY DEF TypeOK
  <1>2. \A u \in Task : /\ row'[u].mode = row[u].mode
                        /\ row'[u].status = IF u = t THEN "running" ELSE row[u].status
    BY <1>1 DEF Claim, TypeOK, Row
  <1>3. \A r \in Request : batch[r] \in Batch
    BY DEF TypeOK
  <1>4. \A r \in Request :
           batch'[r] = IF r = t[1] /\ batch[r].status = "pending"
                         THEN [batch[r] EXCEPT !.status = "processing"] ELSE batch[r]
    BY <1>3 DEF Claim, TypeOK, Batch
  <1> QED
    BY <1>2, <1>4 DEF Claim

\* Every other step ends some active tasks, or none.
LEMMA StepKind ==
    ASSUME TypeOK, Fenced, [Next]_vars
    PROVE  \/ \E F, early \in SUBSET File, p \in Profile, force \in BOOLEAN : Accept(F, p, force, early)
           \/ \E e \in Caller, f \in File, early \in BOOLEAN : InlineStart(e, f, early)
           \/ \E e \in Slot, t \in Task : Claim(e, t)
           \/ last' = last /\ \E S : \A r \in Request : EndsIn(r, S)
  <1>1. ASSUME UNCHANGED <<row, batch, last>>
        PROVE  last' = last /\ \E S : \A r \in Request : EndsIn(r, S)
    BY <1>1, Quiet
  <1>2. ASSUME NEW t \in Task, NEW status \in Terminal, IsActive(t), last' = last,
               row' = EndAll({t}, status), batch' = AdvanceAll({t})
        PROVE  last' = last /\ \E S : \A r \in Request : EndsIn(r, S)
    BY <1>2, Ending
  <1>3. ASSUME NEW e \in Executor, Commit(e)
        PROVE  last' = last /\ \E S : \A r \in Request : EndsIn(r, S)
    <2>1. exec[e].task \in Task /\ last' = last
      BY <1>3, ExecType DEF Commit
    <2>2. Held(e) => IsActive(exec[e].task)
      BY Statuses DEF Held, IsActive
    <2>3. \/ UNCHANGED <<row, batch>>
          \/ /\ Held(e) /\ row' = EndAll({exec[e].task}, "succeeded")
             /\ batch' = AdvanceAll({exec[e].task})
      BY <1>3 DEF Commit
    <2> QED
      BY <1>1, <1>2, <2>1, <2>2, <2>3, Statuses
  <1>4. ASSUME NEW e \in Executor, Finish(e)
        PROVE  last' = last /\ \E S : \A r \in Request : EndsIn(r, S)
    <2>1. exec[e].at \in Terminal /\ exec[e].at # "idle"
      BY <1>4 DEF Finish, Terminal, Outcome
    <2>2. exec[e].task \in Task /\ last' = last
      BY <1>4, <2>1, ExecType DEF Finish
    <2>3. Held(e) => IsActive(exec[e].task)
      BY Statuses DEF Held, IsActive
    <2>4. \/ UNCHANGED <<row, batch>>
          \/ /\ Held(e) /\ row' = EndAll({exec[e].task}, exec[e].at)
             /\ batch' = AdvanceAll({exec[e].task})
      BY <1>4 DEF Finish
    <2> QED
      BY <1>1, <1>2, <2>1, <2>2, <2>3, <2>4
  <1>5. ASSUME NEW t \in Task, Expire(t)
        PROVE  last' = last /\ \E S : \A r \in Request : EndsIn(r, S)
    <2>1. \A u \in Task : row[u] \in Row
      BY DEF TypeOK
    <2>2. \A u \in Task : row'[u].status = row[u].status /\ row'[u].mode = row[u].mode
      BY <1>5, <2>1 DEF Expire, TypeOK, Row
    <2> QED
      BY <1>5, <2>2, Quiet DEF Expire
  <1>6. ASSUME NEW t \in Task, Reap(t)
        PROVE  last' = last /\ \E S : \A r \in Request : EndsIn(r, S)
    <2>1. IsActive(t)
      BY <1>6, Statuses DEF Reap, IsActive
    <2> QED
      BY <1>2, <1>6, <2>1, Statuses DEF Reap
  <1>7. ASSUME NEW m \in Mutator, CommitMutation(m)
        PROVE  last' = last /\ \E S : \A r \in Request : EndsIn(r, S)
    <2> DEFINE S    == mutation[m].fenced
               rows == EndAll(S, "skipped")
    <2>1. rows \in [Task -> Row]
      BY EndAllType, Statuses
    <2>2. PICK O : row' = MutatedRows(S, O) /\ batch' = AdvanceAll(S) /\ last' = last
      BY <1>7 DEF CommitMutation
    <2>3. \A t \in Task : row'[t].status = rows[t].status /\ row'[t].mode = rows[t].mode
      <3>1. \A t \in Task : row'[t] = [rows[t] EXCEPT !.outdated = @ \/ t \in O]
        BY <2>2 DEF MutatedRows
      <3> HIDE DEF rows
      <3> QED
        BY <2>1, <3>1 DEF Row
    <2>4. \A t \in Task : t \in S => IsActive(t)
      BY DEF Fenced
    <2>5. \A r \in Request : EndsIn(r, S)
      <3> HIDE DEF S
      <3> QED
        BY <2>2, <2>3, <2>4, Ending, Statuses
    <2> QED
      BY <2>2, <2>5
  <1> QED
    BY <1>1, <1>3, <1>4, <1>5, <1>6, <1>7
    DEF Next, vars, Prepare, Stage, Fail, LoseLease, Crash, BeginUpdate, BeginDelete, AbortMutation

-----------------------------------------------------------------------------
(* The accounts stay right.                                                *)

\* Initially no request has a batch or a task.
LEMMA AccountInit == Init => Accounted
  <1> SUFFICES ASSUME Init, NEW r \in Request
               PROVE  Account(r)
    BY DEF Accounted
  <1>1. \A f \in File : row[<<r, f>>].status = "absent"
    BY DEF Init, AbsentRow, Task
  <1> QED
    BY <1>1 DEF Init, NoBatch, Account, Unbatched, Made, Exists

\* A new request's jobs were not there, and are pending if the request creates them.
LEMMA AcceptJobs ==
    ASSUME TypeOK, Numbered, NEW F \in SUBSET File, NEW early \in SUBSET File,
           NEW p \in Profile, NEW force \in BOOLEAN, Accept(F, p, force, early)
    PROVE  \A f \in File : /\ row[<<last + 1, f>>].status = "absent"
                           /\ row'[<<last + 1, f>>].status \in {"absent", "pending"}
  <1>1. CreatedIn(last + 1, AcceptedOf(F, p, force))
    BY AcceptStep
  <1> QED
    BY <1>1 DEF CreatedIn

\* The batch of a new request counts the tasks the request creates.
LEMMA AcceptAccount ==
    ASSUME TypeOK, Numbered, NEW F \in SUBSET File, NEW early \in SUBSET File,
           NEW p \in Profile, NEW force \in BOOLEAN, Accept(F, p, force, early), NEW r \in Request, r = last + 1
    PROVE  Account(r)'
  <1> DEFINE accepted == AcceptedOf(F, p, force)
  <1>1. accepted \in SUBSET File /\ CreatedIn(r, accepted)
    <2>1. CreatedIn(last + 1, accepted)
      BY AcceptStep
    <2>2. accepted \in SUBSET File
      BY DEF AcceptedOf
    <2> QED
      BY <2>1, <2>2
  <1> HIDE DEF accepted
  <1>2. IsFiniteSet(accepted)
    BY <1>1, FS_Subset, ConstantsAssumption
  <1>3. r <= last'
    <2>1. last' = last + 1
      BY DEF Accept
    <2> QED
      BY <2>1 DEF Request
  <1>4. Made(r)' = accepted /\ Done(r)' = {}
    BY <1>1 DEF CreatedIn, Made, Done, Exists, IsTerminal, Terminal, Outcome
  <1>5. (Cardinality(accepted) = 0) <=> (accepted = {})
    BY <1>2, FS_EmptySet
  <1>6. Cardinality(Done(r)') = 0
    BY <1>4, FS_EmptySet
  <1>7. /\ batch'[r].status = IF accepted = {} THEN "completed" ELSE "pending"
        /\ batch'[r].accepted = Cardinality(accepted) /\ batch'[r].completed = 0
    BY <1>1 DEF CreatedIn
  <1>8. /\ \A f \in Made(r)' : row'[<<r, f>>].mode = "BACKGROUND"
        /\ \A f \in File : row'[<<r, f>>].status \in {"absent", "pending"}
    BY <1>1, <1>4 DEF CreatedIn
  <1>9. batch'[r].status # "none"
    BY <1>7
  <1>10. Counted(r)'
    BY <1>3, <1>4, <1>5, <1>6, <1>7, <1>8 DEF Counted
  <1> QED
    BY <1>9, <1>10 DEF Account

\* A claim starts the work on a batch, and counts nothing.
LEMMA ClaimAccount ==
    ASSUME TypeOK, NEW e \in Slot, NEW t \in Task, Claim(e, t),
           NEW r \in Request, Account(r)
    PROVE  Account(r)'
  <1>1. batch[r] \in Batch
    BY DEF TypeOK
  <1>2. /\ last' = last
        /\ \A f \in File :
              /\ row'[<<r, f>>].mode = row[<<r, f>>].mode
              /\ row'[<<r, f>>].status = IF <<r, f>> = t THEN "running"
                                         ELSE row[<<r, f>>].status
        /\ row[t].status = "pending"
    BY ClaimStep DEF Task
  <1>3. Made(r)' = Made(r) /\ Done(r)' = Done(r)
    BY <1>2 DEF Made, Done, Exists, IsTerminal, Terminal, Outcome
  <1>4. /\ batch'[r].accepted = batch[r].accepted /\ batch'[r].completed = batch[r].completed
        /\ (batch'[r].status = "completed") <=> (batch[r].status = "completed")
        /\ (batch'[r].status = "none") <=> (batch[r].status = "none")
        /\ batch'[r].status = "pending" => batch[r].status = "pending" /\ r # t[1]
    <2>1. batch'[r] = IF r = t[1] /\ batch[r].status = "pending"
                        THEN [batch[r] EXCEPT !.status = "processing"] ELSE batch[r]
      BY ClaimStep
    <2> QED
      BY <1>1, <2>1 DEF Batch
  <1>5. CASE batch[r].status = "none"
    BY <1>2, <1>3, <1>4, <1>5 DEF Account, Unbatched, Made
  <1>6. CASE batch[r].status # "none"
    <2>1. Counted(r)
      BY <1>6 DEF Account
    <2>2. ASSUME batch'[r].status = "pending", NEW f \in File
          PROVE  row'[<<r, f>>].status \in {"absent", "pending"}
      BY <1>2, <1>4, <2>1, <2>2, TaskParts DEF Counted
    <2>3. \A f \in Made(r)' : row'[<<r, f>>].mode = "BACKGROUND"
      BY <1>2, <1>3, <2>1 DEF Counted, Made
    <2>4. Counted(r)'
      BY <1>2, <1>3, <1>4, <2>1, <2>2, <2>3 DEF Counted
    <2> QED
      BY <1>4, <1>6, <2>4 DEF Account
  <1> QED
    BY <1>5, <1>6

\* Every step keeps the accounts right.
LEMMA AccountStep ==
    ASSUME TypeOK, Numbered, Fenced, Accounted, [Next]_vars
    PROVE  Accounted'
  <1> SUFFICES ASSUME NEW r \in Request
               PROVE  Account(r)'
    BY DEF Accounted
  <1>1. Account(r) /\ last \in Int /\ r \in Int
    BY DEF Accounted, TypeOK, Request
  <1>2. ASSUME NEW S, EndsIn(r, S), last' = last \/ last' = last + 1
        PROVE  Account(r)'
    BY <1>1, <1>2, EndsAccount
  <1>3. ASSUME NEW F \in SUBSET File, NEW early \in SUBSET File, NEW p \in Profile,
               NEW force \in BOOLEAN, Accept(F, p, force, early)
        PROVE  Account(r)'
    <2>1. CASE r = last + 1
      BY <1>3, <2>1, AcceptAccount
    <2>2. CASE r # last + 1
      BY <1>2, <1>3, <2>2, AcceptStep
    <2> QED
      BY <2>1, <2>2
  <1>4. ASSUME NEW e \in Caller, NEW f \in File, NEW early \in BOOLEAN,
               InlineStart(e, f, early)
        PROVE  Account(r)'
    <2>1. CASE r = last + 1
      <3>1. /\ batch'[r].status = "none"
            /\ \A g \in File : \/ row'[<<r, g>>].status = "absent"
                               \/ row'[<<r, g>>].mode = "INLINE"
        BY <1>4, <2>1, InlineStep
      <3> QED
        BY <3>1 DEF Account, Unbatched, Made, Exists
    <2>2. CASE r # last + 1
      BY <1>2, <1>4, <2>2, InlineStep
    <2> QED
      BY <2>1, <2>2
  <1>5. ASSUME NEW e \in Slot, NEW t \in Task, Claim(e, t)
        PROVE  Account(r)'
    BY <1>1, <1>5, ClaimAccount
  <1> QED
    BY <1>2, <1>3, <1>4, <1>5, StepKind

\* The accounts are right in every reachable state.
LEMMA AccountsRight == Spec => [](IInv /\ Accounted)
  <1>1. Init => IInv /\ Accounted
    BY IInvInit, AccountInit
  <1>2. IInv /\ Accounted /\ [Next]_vars => (IInv /\ Accounted)'
    BY IInvStep, AccountStep DEF IInv
  <1> QED
    BY <1>1, <1>2, PTL DEF Spec

\* The counters of a batch agree with its tasks, and it is completed with its last one.
THEOREM Accounting == Spec => []BatchAccounting
  <1>1. Accounted => BatchAccounting
    <2> SUFFICES ASSUME Accounted, NEW r \in Request, batch[r].status # "none"
                 PROVE  /\ batch[r].accepted  = CountOf(r, {t \in Task : Exists(t)})
                        /\ batch[r].completed = CountOf(r, {t \in Task : IsTerminal(t)})
                        /\ (batch[r].status = "completed") <=>
                              (batch[r].completed = batch[r].accepted)
                        /\ batch[r].status = "pending" =>
                              \A f \in File : row[<<r, f>>].status \in {"absent", "pending"}
      BY DEF BatchAccounting
    <2>1. Counted(r)
      BY DEF Accounted, Account
    <2>2. /\ {f \in File : <<r, f>> \in {t \in Task : Exists(t)}} = Made(r)
          /\ {f \in File : <<r, f>> \in {t \in Task : IsTerminal(t)}} = Done(r)
      BY DEF Made, Done, Task
    <2> QED
      BY <2>1, <2>2 DEF Counted, CountOf
  <1> QED
    BY <1>1, AccountsRight, PTL

-----------------------------------------------------------------------------
(* The refinement.                                                         *)

\* A batch is open exactly while one of its jobs has not ended.
LEMMA OpenAsWork ==
    TypeOK /\ Accounted =>
        \A r \in Request :
            batch[r].status \in {"pending", "processing"} <=>
                \E t \in Promise!JobsOf(r) : JobStateOf(t) \in Promise!Unended
  <1> SUFFICES ASSUME TypeOK, Accounted, NEW r \in Request
               PROVE  batch[r].status \in {"pending", "processing"} <=>
                         \E t \in Promise!JobsOf(r) : JobStateOf(t) \in Promise!Unended
    OBVIOUS
  <1>1. Promise!JobsOf(r) = {<<r, f>> : f \in File}
    BY TaskParts DEF Promise!JobsOf, Task
  <1>2. \A t \in Task : row[t].status \in {"absent", "pending", "running"} \cup Terminal
    BY DEF TypeOK, Row, Active
  <1>3. \A f \in File : <<r, f>> \in Task
    BY DEF Task
  <1>4. \A f \in File :
           JobStateOf(<<r, f>>) \in Promise!Unended <=>
              row[<<r, f>>].mode # "INLINE" /\ f \in Made(r) \ Done(r)
    BY <1>2, <1>3, Statuses
    DEF JobStateOf, Promise!Unended, Made, Done, Exists, IsTerminal, Terminal, Outcome
  <1>5. CASE batch[r].status = "none"
    BY <1>1, <1>4, <1>5 DEF Accounted, Account, Unbatched
  <1>6. CASE batch[r].status # "none"
    <2>1. Counted(r)
      BY <1>6 DEF Accounted, Account
    <2>2. batch[r].status \in {"pending", "processing"} <=> batch[r].status # "completed"
      BY <1>6 DEF TypeOK, Batch
    <2>3. batch[r].status = "completed" <=> Done(r) = Made(r)
      BY <2>1, Countable DEF Counted
    <2>4. (\E t \in Promise!JobsOf(r) : JobStateOf(t) \in Promise!Unended) <=>
             \E f \in File : f \in Made(r) \ Done(r)
      BY <1>1, <1>4, <2>1 DEF Counted
    <2>5. Done(r) \subseteq Made(r) /\ Made(r) \subseteq File
      BY Countable DEF Made
    <2> QED
      BY <2>2, <2>3, <2>4, <2>5
  <1> QED
    BY <1>5, <1>6

\* The state of a job is one of the four.
LEMMA JobStateType == TypeOK => \A t \in Task : JobStateOf(t) \in Promise!JobState
  BY DEF TypeOK, Row, JobStateOf, IsTerminal, Terminal, Outcome, Active, Promise!JobState,
         Promise!Unended

\* Where a step ends tasks, it ends jobs that had not ended, and only those.
LEMMA EndsJobs ==
    ASSUME TypeOK, NEW t \in Task, NEW S, EndsIn(t[1], S)
    PROVE  \/ JobStateOf(t)' = JobStateOf(t)
           \/ JobStateOf(t) \in Promise!Unended /\ JobStateOf(t)' = "ended"
  <1>1. /\ row'[t].mode = row[t].mode
        /\ \/ row'[t].status = row[t].status
           \/ IsActive(t) /\ row'[t].status \in Terminal
    BY TaskParts DEF EndsIn
  <1> QED
    BY <1>1, Statuses DEF JobStateOf, IsTerminal, IsActive, Active, Promise!Unended

\* Every step of the protocol is a step of Jobs.
LEMMA PromiseStep ==
    ASSUME TypeOK, TypeOK', Numbered, Fenced, Accounted, Accounted', [Next]_vars
    PROVE  Promise!Next
  <1> DEFINE state == [t \in Task |-> JobStateOf(t)]
             open  == {r \in Request : batch[r].status \in {"pending", "processing"}}
  <1>1. state' \in [Task -> Promise!JobState]
    <2>1. (\A t \in Task : JobStateOf(t) \in Promise!JobState)'
      BY JobStateType, PTL
    <2> QED
      BY <2>1
  <1>2. Promise!OpenFollows
    <2>1. (\A r \in Request :
              batch[r].status \in {"pending", "processing"} <=>
                  \E t \in Promise!JobsOf(r) : JobStateOf(t) \in Promise!Unended)'
      BY OpenAsWork, PTL
    <2>2. \A r \in Request : Promise!JobsOf(r) \subseteq Task
      BY DEF Promise!JobsOf
    <2> QED
      BY <2>1, <2>2 DEF Promise!OpenFollows
  <1>3. ASSUME NEW t \in Task, NEW S, EndsIn(t[1], S)
        PROVE  Promise!EndsOrStays(t)
    BY <1>3, EndsJobs DEF Promise!EndsOrStays, Promise!Stays
  <1>4. \A r \in Request : \A t \in Task :
           /\ t \in Promise!JobsOf(r) <=> t[1] = r
           /\ t[1] \in Request
    BY TaskParts DEF Promise!JobsOf
  <1>5. ASSUME NEW F \in SUBSET File, NEW early \in SUBSET File, NEW p \in Profile,
               NEW force \in BOOLEAN, Accept(F, p, force, early)
        PROVE  Promise!Submit(last + 1)
    <2>1. last + 1 \in Request
      BY <1>5, AcceptStep
    <2>2. PICK S : \A r \in Request \ {last + 1} : EndsIn(r, S)
      BY <1>5, AcceptStep
    <2>3. \A f \in File : /\ row[<<last + 1, f>>].status = "absent"
                          /\ row'[<<last + 1, f>>].status \in {"absent", "pending"}
      BY <1>5, AcceptJobs
    <2>4. ASSUME NEW t \in Promise!JobsOf(last + 1)
          PROVE  JobStateOf(t) = "absent" /\ JobStateOf(t)' \in {"absent", "pending"}
      <3>1. t \in Task /\ t[2] \in File /\ t = <<last + 1, t[2]>>
        BY <2>4, TaskParts DEF Promise!JobsOf
      <3>2. /\ row[t].status = "absent"
            /\ row'[t].status \in {"absent", "pending"}
        BY <2>3, <3>1
      <3> QED
        BY <3>2 DEF JobStateOf, IsTerminal, Terminal, Outcome
    <2>5. ASSUME NEW t \in Task \ Promise!JobsOf(last + 1)
          PROVE  Promise!EndsOrStays(t)
      <3>1. t[1] \in Request \ {last + 1}
        BY <1>4, <2>1
      <3> QED
        BY <1>3, <2>2, <3>1
    <2>6. Promise!JobsOf(last + 1) \subseteq Task
      BY DEF Promise!JobsOf
    <2> QED
      BY <2>4, <2>5, <2>6 DEF Promise!Submit
  <1>6. ASSUME NEW e \in Caller, NEW f \in File, NEW early \in BOOLEAN,
               InlineStart(e, f, early)
        PROVE  Promise!End
    <2> SUFFICES ASSUME NEW t \in Task
                 PROVE  Promise!EndsOrStays(t)
      BY DEF Promise!End
    <2>1. CASE t[1] = last + 1
      <3>1. t[2] \in File /\ t = <<last + 1, t[2]>>
        BY <2>1, TaskParts
      <3>2. /\ row[t].status = "absent"
            /\ row'[t].status = "absent" \/ row'[t].mode = "INLINE"
        BY <1>6, <3>1, InlineStep
      <3>3. JobStateOf(t) = "absent" /\ JobStateOf(t)' = "absent"
        BY <3>2 DEF JobStateOf, IsTerminal, Terminal, Outcome
      <3> QED
        BY <3>3 DEF Promise!EndsOrStays, Promise!Stays
    <2>2. CASE t[1] # last + 1
      <3>1. t[1] \in Request \ {last + 1}
        BY <2>2, TaskParts
      <3> QED
        BY <1>3, <1>6, <3>1, InlineStep
    <2> QED
      BY <2>1, <2>2
  <1>7. ASSUME NEW e \in Slot, NEW t \in Task, Claim(e, t)
        PROVE  Promise!Start(t)
    <2>1. /\ \A u \in Task : /\ row'[u].mode = row[u].mode
                             /\ row'[u].status = IF u = t THEN "running" ELSE row[u].status
          /\ row[t].status = "pending" /\ row[t].mode = "BACKGROUND"
      BY <1>7, ClaimStep
    <2>2. JobStateOf(t) = "pending" /\ JobStateOf(t)' = "running"
      BY <2>1 DEF JobStateOf, IsTerminal, Terminal, Outcome
    <2>3. \A u \in Task \ {t} : JobStateOf(u)' = JobStateOf(u)
      BY <2>1 DEF JobStateOf, IsTerminal
    <2> QED
      BY <2>2, <2>3 DEF Promise!Start, Promise!Stays
  <1>8. ASSUME NEW S, \A r \in Request : EndsIn(r, S)
        PROVE  Promise!End
    BY <1>3, <1>8, TaskParts DEF Promise!End
  <1>9. \/ \E b \in Request : Promise!Submit(b)
        \/ \E t \in Task : Promise!Start(t)
        \/ Promise!End
    <2>1. ASSUME NEW F \in SUBSET File, NEW early \in SUBSET File, NEW p \in Profile,
                 NEW force \in BOOLEAN, Accept(F, p, force, early)
          PROVE  \E b \in Request : Promise!Submit(b)
      BY <1>5, <2>1, AcceptStep
    <2> QED
      BY <1>6, <1>7, <1>8, <2>1, StepKind
  <1> QED
    BY <1>1, <1>2, <1>9 DEF Promise!Next

\* The build protocol implements Jobs: tasks start once and end once, and a batch is open
\* exactly while it has work, whoever ends its tasks.
THEOREM Refinement == Spec => KeepsPromise
  <1>1. Init => Promise!Init
    <2> SUFFICES ASSUME Init
                 PROVE  Promise!Init
      OBVIOUS
    <2>1. \A t \in Task : JobStateOf(t) = "absent"
      BY DEF Init, JobStateOf, AbsentRow, IsTerminal, Terminal, Outcome
    <2>2. \A r \in Request : batch[r].status \notin {"pending", "processing"}
      BY DEF Init, NoBatch
    <2> QED
      BY <2>1, <2>2 DEF Promise!Init
  <1>2. /\ IInv /\ Accounted /\ (IInv /\ Accounted)' /\ [Next]_vars
        => Promise!Next
    BY PromiseStep DEF IInv
  <1> QED
    BY <1>1, <1>2, AccountsRight, PTL DEF Spec, KeepsPromise, Promise!Spec

=============================================================================
