------------------------- MODULE SemanticTaskProofs -------------------------
(***************************************************************************)
(* Theorems about SemanticTask, for every set of documents, workers and    *)
(* requesters and every bound on requests and edits.                       *)
(***************************************************************************)
EXTENDS SemanticTask, FiniteSetTheorems, WellFoundedInduction, TLAPS

USE SemanticAssumption

-----------------------------------------------------------------------------
(* The inductive invariant.                                                *)

Exists(t) == row[t].status # "absent"

\* Tasks are numbered by requests that were made, and executed once claimed.
Numbered ==
    /\ \A t \in Task : Exists(t) => t[1] <= last
    /\ \A w \in Worker :
          exec[w].at # "idle" => row[exec[w].task].status \notin {"absent", "pending"}

\* The tasks that the deletion has fenced stay active until it ends.
Fenced == \A t \in deletion.fenced : IsActive(t)

\* An acceptance has locked the files it accepts, and found no active task on them.
Locking ==
    /\ \A q \in Requester : \A f \in request[q].accepted :
          f \in request[q].locked /\ \A t \in TasksOf(f) : ~IsActive(t)
    /\ \A p, q \in Requester : p # q => request[p].locked \cap request[q].locked = {}

\* The content a task was accepted for is no newer than what its worker read, and that
\* no newer than what the file holds.
Versions ==
    /\ \A f \in File : file[f].status = "absent" => file[f].version = 0
    /\ \A q \in Requester :
          \A f \in File : request[q].listed[f] <= file[f].version
    /\ \A t \in Task : Exists(t) => row[t].input <= file[t[2]].version
    /\ \A w \in Worker :
          exec[w].at = "read" =>
              /\ row[exec[w].task].input <= exec[w].base
              /\ exec[w].base <= file[exec[w].task[2]].version

\* The tasks of a request, and those that have ended.
Made(r) == {t \in Task : t[1] = r /\ Exists(t)}
Done(r) == {t \in Task : t[1] = r /\ IsEnded(t)}

\* A batch counts the tasks it was made with; a number without a batch has no task.
Account(r) ==
    IF batch[r].status = "none" THEN Made(r) = {}
    ELSE /\ r <= last
         /\ batch[r].total     = Cardinality(Made(r))
         /\ batch[r].completed = Cardinality(Done(r))
         /\ (batch[r].status = "completed") <=> (batch[r].completed = batch[r].total)

Accounted == \A r \in Request : Account(r)

IInv == TypeOK /\ Numbered /\ Fenced /\ Locking /\ Versions /\ OneActivePerFile /\ Accounted

-----------------------------------------------------------------------------
(* What the helpers return.                                                *)

\* A set of numbers below a bound has a greatest one.
LEMMA MaxNat ==
    ASSUME NEW S \in SUBSET Nat, S # {}, NEW b \in Nat, \A s \in S : s <= b
    PROVE  Max(S) \in S
  <1> DEFINE T == {b - s : s \in S}
  <1>0. \A s \in S : b - s \in Nat /\ b - s \in T
    OBVIOUS
  <1>1. T \subseteq Nat /\ T # {}
    BY <1>0
  <1>2. \E x \in T : \A y \in T : ~ (<<y, x>> \in OpToRel(<, Nat))
    BY <1>1, NatLessThanWellFounded, WFMin
  <1>3. PICK x \in T : \A y \in T : ~ (y < x)
    BY <1>1, <1>2 DEF OpToRel
  <1>4. PICK s \in S : x = b - s
    OBVIOUS
  <1>5. ASSUME NEW u \in S
        PROVE  s >= u
    <2>1. ~ (b - u < b - s)
      BY <1>0, <1>3, <1>4
    <2> QED
      BY <2>1
  <1> QED
    BY <1>5 DEF Max

\* A task is a pair of a request and a file.
LEMMA TaskParts ==
    ASSUME NEW t \in Task
    PROVE  t[1] \in Request /\ t[2] \in File /\ t = <<t[1], t[2]>>
  BY DEF Task

\* There are finitely many tasks.
LEMMA TaskFinite == IsFiniteSet(Task)
  <1>1. IsFiniteSet(Request)
    BY FS_Interval DEF Request
  <1> QED
    BY <1>1, FS_Product DEF Task

\* The number of a request's tasks in a set is a natural number.
LEMMA CountNat ==
    ASSUME NEW r, NEW S \in SUBSET Task
    PROVE  /\ CountOf(r, S) \in Nat
           /\ IsFiniteSet({t \in S : t[1] = r})
           /\ CountOf(r, S) = 0 <=> \A t \in S : t[1] # r
  <1>1. {t \in S : t[1] = r} \in SUBSET Task
    OBVIOUS
  <1>2. IsFiniteSet({t \in S : t[1] = r})
    BY <1>1, TaskFinite, FS_Subset
  <1>3. CountOf(r, S) = 0 <=> {t \in S : t[1] = r} = {}
    BY <1>2, FS_EmptySet DEF CountOf
  <1> QED
    BY <1>2, <1>3, FS_CardinalityType DEF CountOf

\* Ending tasks keeps rows rows, and changes the status of those tasks only.
LEMMA EndAllRow ==
    ASSUME TypeOK, NEW S, NEW status \in Terminal
    PROVE  /\ EndAll(S, status) \in [Task -> Row]
           /\ \A t \in Task :
                 /\ EndAll(S, status)[t].status = IF t \in S THEN status ELSE row[t].status
                 /\ EndAll(S, status)[t].input = row[t].input
  <1> SUFFICES ASSUME NEW t \in Task
               PROVE  /\ EndAll(S, status)[t] \in Row
                      /\ EndAll(S, status)[t].status = IF t \in S THEN status ELSE row[t].status
                      /\ EndAll(S, status)[t].input = row[t].input
    BY DEF EndAll
  <1>1. row[t] \in Row /\ clock \in Nat
    BY DEF TypeOK
  <1> QED
    BY <1>1 DEF EndAll, Row

\* Advancing batches keeps batches batches.
LEMMA AdvanceAllType ==
    ASSUME TypeOK, NEW S \in SUBSET Task
    PROVE  AdvanceAll(S) \in [Request -> Batch]
  <1> SUFFICES ASSUME NEW r \in Request
               PROVE  AdvanceAll(S)[r] \in Batch
    BY DEF AdvanceAll
  <1>1. batch[r] \in Batch
    BY DEF TypeOK
  <1>2. batch[r].completed + CountOf(r, S) \in Nat
    <2>1. CountOf(r, S) \in Nat
      BY CountNat
    <2> QED
      BY <1>1, <2>1 DEF Batch
  <1>3. AdvanceAll(S)[r] =
          IF CountOf(r, S) = 0 THEN batch[r]
          ELSE [batch[r] EXCEPT !.completed = batch[r].completed + CountOf(r, S),
                  !.status = IF batch[r].completed + CountOf(r, S) = batch[r].total
                               THEN "completed" ELSE batch[r].status]
    BY <1>1 DEF AdvanceAll, Batch
  <1> QED
    BY <1>1, <1>2, <1>3 DEF Batch

\* The assertions on an Entity document were created at some time until now.
LEMMA AssertionTimes ==
    ASSUME TypeOK, NEW e \in Entity
    PROVE  Assertions(e) \subseteq 1 .. clock
  <1>1. \A s \in File : relation[<<s, e>>] \in 0 .. clock
    BY DEF TypeOK
  <1>2. clock \in Nat
    BY DEF TypeOK
  <1>3. ASSUME NEW a \in Assertions(e)
        PROVE  a \in 0 .. clock /\ a # 0
    BY <1>1, <1>3 DEF Assertions
  <1> QED
    BY <1>2, <1>3

\* What a task is accepted for is a number.
LEMMA FingerprintNat ==
    ASSUME TypeOK, NEW q \in Requester, NEW f \in File
    PROVE  Fingerprint(q, f) \in Nat
  <1>1. CASE f \in Doc
    BY <1>1 DEF Fingerprint, TypeOK, Acceptance
  <1>2. CASE f \notin Doc
    <2> DEFINE S == Assertions(f) \cup {0}
    <2>1. f \in Entity /\ clock \in Nat
      BY <1>2 DEF File, TypeOK
    <2>2. S \in SUBSET Nat /\ S # {} /\ \A s \in S : s <= clock
      BY <2>1, AssertionTimes
    <2>3. Max(S) \in S
      <3> HIDE DEF S
      <3> QED
        BY <2>1, <2>2, MaxNat
    <2> QED
      BY <1>2, <2>2, <2>3 DEF Fingerprint
  <1> QED
    BY <1>1, <1>2

\* An execution that is not idle has a task; it can move, and it can stop.
LEMMA ExecType ==
    ASSUME TypeOK, NEW w \in Worker
    PROVE  /\ exec[w].at # "idle" =>
                 exec[w] \in [at : Working \cup {"failing"}, task : Task, base : Nat,
                              seen : SUBSET Nat, partial : BOOLEAN, found : SUBSET Entity]
           /\ \A at \in Working \cup {"failing"} :
                 exec[w].at # "idle" /\ Moves(w, at) => exec' \in [Worker -> Execution]
           /\ Stops(w) => exec' \in [Worker -> Execution]
  <1>1. exec \in [Worker -> Execution] /\ exec[w] \in Execution
    BY DEF TypeOK
  <1>2. Idle \in Execution
    BY DEF Execution
  <1>3. ASSUME exec[w].at # "idle"
        PROVE  exec[w] \in [at : Working \cup {"failing"}, task : Task, base : Nat,
                            seen : SUBSET Nat, partial : BOOLEAN, found : SUBSET Entity]
    BY <1>1, <1>3 DEF Execution, Idle
  <1>4. ASSUME NEW at \in Working \cup {"failing"}, exec[w].at # "idle"
        PROVE  [Idle EXCEPT !.at = at, !.task = exec[w].task] \in Execution
    BY <1>3, <1>4 DEF Execution, Idle
  <1> QED
    BY <1>1, <1>2, <1>3, <1>4 DEF Moves, Stops

\* Statuses are what they look like.
LEMMA Statuses ==
    /\ Active \cap Terminal = {}
    /\ "absent" \notin Active \cup Terminal
    /\ "running" \in Active /\ "pending" \in Active
    /\ "succeeded" \in Terminal /\ "failed" \in Terminal /\ "skipped" \in Terminal
  BY DEF Active, Terminal

-----------------------------------------------------------------------------
(* Type correctness.                                                       *)

\* Every initial state is well typed.
LEMMA TypeInit == Init => TypeOK
  <1> SUFFICES ASSUME Init PROVE TypeOK
    OBVIOUS
  <1>1. AbsentRow \in Row
    BY DEF AbsentRow, Row
  <1>2. NoBatch \in Batch
    BY DEF NoBatch, Batch
  <1>3. Idle \in Execution
    BY DEF Idle, Execution
  <1>4. NoAccept \in Acceptance
    BY DEF NoAccept, Acceptance, Unset
  <1>5. /\ file \in [File -> Entry]
        /\ relation \in [File \X Entity -> 0 .. 1]
    BY DEF Init, Entry
  <1> QED
    BY <1>1, <1>2, <1>3, <1>4, <1>5 DEF Init, TypeOK

\* What a decision on a file does to the acceptance.
LEMMA DecideFields ==
    ASSUME TypeOK, NEW q \in Requester, NEW f \in File, Decide(q, f)
    PROVE  /\ request' \in [Requester -> Acceptance]
           /\ \A p \in Requester \ {q} : request'[p] = request[p]
           /\ request'[q].listed = request[q].listed
           /\ request'[q].accepted =
                 IF Accepts(q, f) THEN request[q].accepted \cup {f} ELSE request[q].accepted
           /\ request'[q].locked =
                 IF Eligible(f) THEN request[q].locked \cup {f} ELSE request[q].locked
  <1> DEFINE accepted == IF Accepts(q, f) THEN request[q].accepted \cup {f}
                         ELSE request[q].accepted
             judged   == IF Accepts(q, f)
                           THEN [request[q].judged EXCEPT ![f] = Fingerprint(q, f)]
                           ELSE request[q].judged
             locked   == IF Eligible(f) THEN request[q].locked \cup {f}
                         ELSE request[q].locked
  <1>1. request[q] \in Acceptance /\ request \in [Requester -> Acceptance]
    BY DEF TypeOK
  <1>2. request' = [request EXCEPT ![q] =
                      [request[q] EXCEPT !.todo = request[q].todo \ {f},
                         !.accepted = accepted, !.judged = judged, !.locked = locked]]
    BY <1>1 DEF Decide, Acceptance
  <1>3. [request[q].judged EXCEPT ![f] = Fingerprint(q, f)] \in [File -> Nat]
    BY <1>1, FingerprintNat DEF Acceptance
  <1>4. /\ request[q].todo \ {f} \in SUBSET File /\ accepted \in SUBSET File
        /\ judged \in [File -> Nat] /\ locked \in SUBSET File
    BY <1>1, <1>3 DEF Acceptance
  <1> HIDE DEF accepted, judged, locked
  <1>5. /\ request' \in [Requester -> Acceptance]
        /\ \A p \in Requester \ {q} : request'[p] = request[p]
        /\ request'[q].listed = request[q].listed
        /\ request'[q].accepted = accepted
        /\ request'[q].locked = locked
    BY <1>1, <1>2, <1>4 DEF Acceptance
  <1> QED
    BY <1>5 DEF accepted, locked

\* Every step of an acceptance keeps the state well typed.
LEMMA TypeAccept ==
    ASSUME TypeOK, NEW q \in Requester,
           \/ \E F \in SUBSET File, force \in BOOLEAN : BeginAccept(q, F, force)
           \/ \E f \in File : Decide(q, f)
           \/ CommitAccept(q)
           \/ AbortAccept(q)
    PROVE  TypeOK'
  <1>1. request[q] \in Acceptance /\ NoAccept \in Acceptance
    BY DEF TypeOK, NoAccept, Acceptance, Unset
  <1>2. ASSUME NEW F \in SUBSET File, NEW force \in BOOLEAN, BeginAccept(q, F, force)
        PROVE  TypeOK'
    <2> DEFINE new == [NoAccept EXCEPT !.at = "deciding", !.todo = F, !.force = force,
                         !.listed = [f \in File |-> IF f \in F THEN file[f].version ELSE 0]]
    <2>1. \A f \in File : file[f].version \in Nat
      BY DEF TypeOK, Entry
    <2>2. new \in Acceptance
      BY <1>1, <2>1 DEF Acceptance
    <2>3. request' = [request EXCEPT ![q] = new]
      BY <1>2 DEF BeginAccept
    <2>4. request' \in [Requester -> Acceptance]
      BY <2>2, <2>3 DEF TypeOK
    <2> QED
      BY <1>2, <2>4 DEF BeginAccept, TypeOK, Files, Tasks
  <1>3. ASSUME NEW f \in File, Decide(q, f)
        PROVE  TypeOK'
    <2>1. request' \in [Requester -> Acceptance]
      BY <1>3, DecideFields
    <2> QED
      BY <1>3, <2>1 DEF Decide, TypeOK, Files, Tasks
  <1>4. ASSUME CommitAccept(q)
        PROVE  TypeOK'
    <2>1. \A f \in File : request[q].judged[f] \in Nat /\ request[q].listed[f] \in Nat
      BY <1>1 DEF Acceptance
    <2>2. \A n, i \in Nat : NewRow(n, i) \in Row
      BY DEF NewRow, AbsentRow, Row, Active
    <2>3. row' \in [Task -> Row]
      BY <1>4, <2>1, <2>2, TaskParts DEF CommitAccept, TypeOK
    <2>4. Cardinality(request[q].accepted) \in Nat
      BY <1>1, FS_Subset, FS_CardinalityType DEF Acceptance
    <2>5. batch' \in [Request -> Batch]
      BY <1>4, <2>4 DEF CommitAccept, TypeOK, Batch
    <2>6. last' \in Nat
      BY <1>4 DEF CommitAccept, TypeOK
    <2>7. request' \in [Requester -> Acceptance]
      BY <1>1, <1>4 DEF CommitAccept, TypeOK
    <2> QED
      BY <1>4, <2>3, <2>5, <2>6, <2>7 DEF CommitAccept, TypeOK, Files
  <1>5. ASSUME AbortAccept(q)
        PROVE  TypeOK'
    BY <1>1, <1>5 DEF AbortAccept, TypeOK, Files, Tasks
  <1> QED
    BY <1>2, <1>3, <1>4, <1>5

\* Replacing the assertions of a document keeps their times below the clock.
LEMMA AssertsType ==
    ASSUME TypeOK, NEW f, NEW E, Asserts(f, E)
    PROVE  clock' \in Nat /\ relation' \in [File \X Entity -> 0 .. clock']
  <1>1. clock \in Nat /\ clock' = clock + 1 /\ \A p \in File \X Entity : relation[p] \in 0 .. clock
    BY DEF TypeOK, Asserts
  <1>2. \A p \in File \X Entity : relation[p] \in 0 .. clock + 1
    BY <1>1
  <1> QED
    BY <1>1, <1>2 DEF Asserts

\* Every step of a worker keeps the state well typed.
LEMMA TypeWork ==
    ASSUME TypeOK, NEW w \in Worker,
           \/ \E t \in Task : Claim(w, t)
           \/ \E E \in SUBSET Entity : Anchor(w, E) \/ Update(w, E \ {FileOf(w)})
           \/ Read(w) \/ Persist(w) \/ SkipUpdate(w) \/ Build(w) \/ Succeed(w)
           \/ Fail(w) \/ RecordFailure(w) \/ Abandon(w) \/ Revive(w)
    PROVE  TypeOK'
  <1> DEFINE t == exec[w].task
  <1>1. ASSUME exec[w].at # "idle"
        PROVE  /\ t \in Task /\ t[2] \in File /\ row[t] \in Row
               /\ exec[w].base \in Nat /\ exec[w].seen \in SUBSET Nat
               /\ exec[w].found \in SUBSET Entity
    <2>1. t \in Task
      BY <1>1, ExecType
    <2>2. t[2] \in File
      BY <2>1, TaskParts
    <2> QED
      BY <1>1, <2>1, <2>2, ExecType DEF TypeOK
  <1>2. "idle" \notin Working
    BY DEF Working
  <1>3. ASSUME NEW u \in Task, Claim(w, u)
        PROVE  TypeOK'
    <2>1. [row[u] EXCEPT !.status = "running", !.worker = w] \in Row
      <3>1. row[u] \in Row
        BY DEF TypeOK
      <3> QED
        BY <3>1 DEF Row, Active
    <2>2. row' \in [Task -> Row]
      BY <1>3, <2>1 DEF Claim, TypeOK
    <2>3. [Idle EXCEPT !.at = "claimed", !.task = u] \in Execution
      BY DEF Idle, Execution, Working
    <2>4. exec' \in [Worker -> Execution]
      BY <1>3, <2>3 DEF Claim, TypeOK
    <2> QED
      BY <1>3, <2>2, <2>4 DEF Claim, TypeOK, Files
  <1>4. ASSUME NEW E \in SUBSET Entity, Anchor(w, E)
        PROVE  TypeOK'
    <2>1. exec[w].at = "read"
      BY <1>4 DEF Anchor
    <2>2. [exec[w] EXCEPT !.at = "anchored", !.found = E] \in Execution
      BY <2>1, ExecType DEF Execution, Working
    <2>3. exec' \in [Worker -> Execution]
      BY <1>4, <2>1, <2>2, ExecType DEF Anchor, TypeOK
    <2>4. file' \in [File -> Entry]
      <3>1. [status |-> "live", version |-> 0, enriched |-> FALSE] \in Entry
        BY DEF Entry
      <3>2. Born(E) \in [File -> Entry]
        BY <3>1 DEF Born, TypeOK
      <3> QED
        BY <1>4, <3>2 DEF Anchor, TypeOK
    <2> QED
      BY <1>4, <2>3, <2>4 DEF Anchor, TypeOK, Tasks
  <1>5. ASSUME NEW E \in SUBSET Entity, Update(w, E)
        PROVE  TypeOK'
    <2>1. exec[w].at = "read"
      BY <1>5 DEF Update
    <2>2. exec' \in [Worker -> Execution]
      BY <1>5, <2>1, ExecType DEF Update, Working
    <2>3. CASE UNCHANGED <<file, relation, clock, row>>
      BY <1>5, <2>2, <2>3 DEF Update, TypeOK
    <2>4. CASE /\ file' = [file EXCEPT ![t[2]].version = @ + 1, ![t[2]].enriched = TRUE]
               /\ Asserts(t[2], E)
               /\ row' = [row EXCEPT ![t].used = exec[w].seen]
      <3>1. [row[t] EXCEPT !.used = exec[w].seen] \in Row
        BY <1>1, <2>1 DEF Row
      <3>2. row' \in [Task -> Row]
        BY <2>4, <3>1 DEF TypeOK
      <3>3. file' \in [File -> Entry]
        BY <1>1, <2>1, <2>4 DEF TypeOK, Entry
      <3>4. clock' \in Nat /\ relation' \in [File \X Entity -> 0 .. clock']
        BY <2>4, AssertsType
      <3> QED
        BY <1>5, <2>2, <3>2, <3>3, <3>4 DEF Update, TypeOK
    <2> QED
      BY <1>5, <2>3, <2>4 DEF Update
  <1>6. ASSUME Read(w)
        PROVE  TypeOK'
    <2>1. exec[w].at = "claimed" /\ exec[w].at # "idle"
      BY <1>6 DEF Read
    <2>2. ASSUME Moves(w, "failing")
          PROVE  exec' \in [Worker -> Execution]
      BY <2>1, <2>2, ExecType
    <2>3. ASSUME NEW seen \in SUBSET Nat, NEW partial \in BOOLEAN,
                 exec' = [exec EXCEPT ![w].at = "read", ![w].base = file[t[2]].version,
                                      ![w].seen = seen, ![w].partial = partial]
          PROVE  exec' \in [Worker -> Execution]
      <3>1. file[t[2]].version \in Nat
        BY <1>1, <2>1 DEF TypeOK, Entry
      <3>2. exec[w] \in [at : Working \cup {"failing"}, task : Task, base : Nat,
                         seen : SUBSET Nat, partial : BOOLEAN, found : SUBSET Entity]
        BY <2>1, ExecType
      <3>3. [exec[w] EXCEPT !.at = "read", !.base = file[t[2]].version, !.seen = seen,
                            !.partial = partial] \in Execution
        BY <3>1, <3>2 DEF Execution, Working
      <3> QED
        BY <2>3, <3>3 DEF TypeOK
    <2>4. t[2] \in Entity => Evidence(t) \in SUBSET Nat
      BY AssertionTimes DEF Evidence
    <2>5. exec' \in [Worker -> Execution]
      BY <1>6, <2>2, <2>3, <2>4 DEF Read, Incremental
    <2> QED
      BY <1>6, <2>5 DEF Read, TypeOK, Files, Tasks
  <1>7. ASSUME Persist(w)
        PROVE  TypeOK'
    <2>1. clock' \in Nat /\ relation' \in [File \X Entity -> 0 .. clock']
      BY <1>7, AssertsType DEF Persist
    <2>2. exec' \in [Worker -> Execution]
      BY <1>7, ExecType DEF Persist, Working
    <2> QED
      BY <1>7, <2>1, <2>2 DEF Persist, TypeOK, Tasks
  <1>8. ASSUME SkipUpdate(w) \/ Build(w)
        PROVE  TypeOK'
    <2>1. exec' \in [Worker -> Execution]
      BY <1>8, ExecType DEF SkipUpdate, Build, Working
    <2> QED
      BY <1>8, <2>1 DEF SkipUpdate, Build, TypeOK, Files, Tasks
  <1>9. ASSUME Succeed(w) \/ RecordFailure(w)
        PROVE  TypeOK'
    <2>1. exec[w].at # "idle"
      BY <1>9 DEF Succeed, RecordFailure
    <2>2. exec' \in [Worker -> Execution]
      BY <1>9, <2>1, ExecType DEF Succeed, RecordFailure, Working
    <2>3. t \in Task
      BY <1>1, <2>1
    <2>4. \/ UNCHANGED <<row, batch>>
          \/ \E status \in Terminal : row' = EndAll({t}, status) /\ batch' = AdvanceAll({t})
      BY <1>9, Statuses DEF Succeed, RecordFailure
    <2>5. row' \in [Task -> Row] /\ batch' \in [Request -> Batch]
      BY <2>3, <2>4, EndAllRow, AdvanceAllType DEF TypeOK
    <2> QED
      BY <1>9, <2>2, <2>5 DEF Succeed, RecordFailure, TypeOK, Files
  <1>10. ASSUME Fail(w) \/ Abandon(w)
         PROVE  TypeOK'
    <2>1. exec' \in [Worker -> Execution]
      BY <1>2, <1>10, ExecType DEF Fail, Abandon
    <2> QED
      BY <1>10, <2>1 DEF Fail, Abandon, TypeOK, Files, Tasks
  <1>11. ASSUME Revive(w)
         PROVE  TypeOK'
    <2>1. [row[t] EXCEPT !.expired = FALSE] \in Row
      BY <1>1, <1>11 DEF Revive, Row
    <2>2. row' \in [Task -> Row]
      BY <1>11, <2>1 DEF Revive, TypeOK
    <2> QED
      BY <1>11, <2>2 DEF Revive, TypeOK, Files
  <1>12. \A E \in SUBSET Entity : E \ {FileOf(w)} \in SUBSET Entity
    OBVIOUS
  <1> QED
    BY <1>3, <1>4, <1>5, <1>6, <1>7, <1>8, <1>9, <1>10, <1>11, <1>12

\* Every step keeps the state well typed.
LEMMA TypeStep == TypeOK /\ [Next]_vars => TypeOK'
  <1> SUFFICES ASSUME TypeOK, [Next]_vars
               PROVE  TypeOK'
    OBVIOUS
  <1>1. ASSUME NEW t \in Task, Expire(t)
        PROVE  TypeOK'
    <2>1. [row[t] EXCEPT !.expired = TRUE] \in Row
      <3>1. row[t] \in Row
        BY DEF TypeOK
      <3> QED
        BY <3>1 DEF Row
    <2>2. row' \in [Task -> Row]
      BY <1>1, <2>1 DEF Expire, TypeOK
    <2> QED
      BY <1>1, <2>2 DEF Expire, TypeOK, Files
  <1>2. ASSUME NEW t \in Task, Reap(t)
        PROVE  TypeOK'
    <2>1. row' \in [Task -> Row] /\ batch' \in [Request -> Batch]
      BY <1>2, EndAllRow, AdvanceAllType, Statuses DEF Reap
    <2> QED
      BY <1>2, <2>1 DEF Reap, TypeOK, Files
  <1>3. ASSUME NEW f \in File, Edit(f)
        PROVE  TypeOK'
    <2>1. file' \in [File -> Entry]
      <3>1. file[f] \in Entry
        BY DEF TypeOK
      <3>2. PICK enriched \in {file[f].enriched, FALSE} :
                file' = [file EXCEPT ![f].version = @ + 1, ![f].enriched = enriched]
        BY <1>3 DEF Edit
      <3>3. [file[f] EXCEPT !.version = @ + 1, !.enriched = enriched] \in Entry
        <4>1. file[f].version + 1 \in Nat
          BY <3>1 DEF Entry
        <4>2. file[f].enriched \in BOOLEAN
          BY <3>1 DEF Entry
        <4>3. enriched \in BOOLEAN
          BY <4>2, Zenon
        <4> QED
          BY <3>1, <4>1, <4>3 DEF Entry
      <3> QED
        BY <3>2, <3>3 DEF TypeOK
    <2>2. relation' \in [File \X Entity -> 0 .. clock]
      BY <1>3 DEF Edit, TypeOK
    <2>3. edits' \in 0 .. MaxEdits
      BY <1>3 DEF Edit, TypeOK
    <2> QED
      BY <1>3, <2>1, <2>2, <2>3 DEF Edit, TypeOK, Tasks
  <1>4. ASSUME BeginDelete \/ AbortDelete
        PROVE  TypeOK'
    BY <1>4 DEF BeginDelete, AbortDelete, TypeOK, Files, Tasks
  <1>5. ASSUME CommitDelete
        PROVE  TypeOK'
    <2>1. deletion.fenced \in SUBSET Task
      BY DEF TypeOK
    <2>2. row' \in [Task -> Row] /\ batch' \in [Request -> Batch]
      BY <1>5, <2>1, EndAllRow, AdvanceAllType, Statuses DEF CommitDelete
    <2>3. file' \in [File -> Entry]
      BY <1>5 DEF CommitDelete, TypeOK, Entry
    <2>4. deletion' \in [at : {"none", "open", "done"}, fenced : SUBSET Task]
      BY <1>5 DEF CommitDelete
    <2> QED
      BY <1>5, <2>2, <2>3, <2>4 DEF CommitDelete, TypeOK
  <1>6. ASSUME UNCHANGED vars
        PROVE  TypeOK'
    BY <1>6 DEF vars, TypeOK
  <1> QED
    BY <1>1, <1>2, <1>3, <1>4, <1>5, <1>6, TypeAccept, TypeWork DEF Next

\* Type correctness of every reachable state.
THEOREM TypeCorrect == Spec => []TypeOK
  BY TypeInit, TypeStep, PTL DEF Spec

-----------------------------------------------------------------------------
(* The life of a task: what a step may do to its row.                      *)

Keeps(t)  == row'[t].status = row[t].status /\ row'[t].input = row[t].input

Starts(t) ==
    row[t].status = "pending" /\ row'[t].status = "running" /\ row'[t].input = row[t].input

\* The step holds the row lock of t, by itself or as the deletion that commits.
Ends(t) ==
    /\ IsActive(t) /\ row'[t].status \in Terminal /\ row'[t].input = row[t].input
    /\ \/ TaskFree(t) /\ UNCHANGED deletion
       \/ CommitDelete

Creates(t) ==
    \E q \in Requester :
        /\ CommitAccept(q) /\ t[1] = last + 1 /\ t[2] \in request[q].accepted
        /\ row'[t].status = "pending" /\ row'[t].input = request[q].listed[t[2]]

\* A step keeps, starts, ends or creates a task.
LEMMA Life ==
    ASSUME TypeOK, Fenced, [Next]_vars, NEW t \in Task
    PROVE  Keeps(t) \/ Starts(t) \/ Ends(t) \/ Creates(t)
  <1>1. row[t] \in Row /\ row \in [Task -> Row]
    BY DEF TypeOK
  <1>2. ASSUME NEW q \in Requester, CommitAccept(q)
        PROVE  Keeps(t) \/ Creates(t)
    BY <1>1, <1>2 DEF CommitAccept, Keeps, Creates, NewRow, AbsentRow
  <1>3. ASSUME NEW w \in Worker, NEW u \in Task, Claim(w, u)
        PROVE  Keeps(t) \/ Starts(t)
    BY <1>1, <1>3 DEF Claim, Keeps, Starts, Row
  <1>4. ASSUME NEW u \in Task, NEW status \in Terminal, row[u].status = "running",
               TaskFree(u), UNCHANGED deletion, row' = EndAll({u}, status)
        PROVE  Keeps(t) \/ Ends(t)
    <2>1. row'[t].input = row[t].input
      BY <1>4, EndAllRow
    <2>2. row'[t].status = IF t = u THEN status ELSE row[t].status
      BY <1>4, EndAllRow
    <2> QED
      BY <1>4, <2>1, <2>2, Statuses DEF Keeps, Ends, IsActive
  <1>5. ASSUME NEW w \in Worker, Succeed(w) \/ RecordFailure(w)
        PROVE  Keeps(t) \/ Ends(t)
    <2>1. exec[w].at # "idle"
      BY <1>5 DEF Succeed, RecordFailure
    <2>2. exec[w].task \in Task
      BY <2>1, ExecType
    <2>3. TaskFree(exec[w].task) /\ UNCHANGED deletion
      BY <1>5 DEF Succeed, RecordFailure
    <2>4. \/ UNCHANGED row
          \/ Held(w) /\ row' = EndAll({exec[w].task}, "succeeded")
          \/ Held(w) /\ row' = EndAll({exec[w].task}, "failed")
      BY <1>5 DEF Succeed, RecordFailure
    <2> QED
      BY <1>4, <2>2, <2>3, <2>4, Statuses DEF Held, Keeps
  <1>6. ASSUME NEW w \in Worker, NEW E, Update(w, E)
        PROVE  Keeps(t)
    <2>1. UNCHANGED row \/ row' = [row EXCEPT ![exec[w].task].used = exec[w].seen]
      BY <1>6 DEF Update
    <2> QED
      BY <1>1, <2>1 DEF Keeps, Row
  <1>7. ASSUME NEW w \in Worker, Revive(w)
        PROVE  Keeps(t)
    BY <1>1, <1>7 DEF Revive, Keeps, Row
  <1>8. ASSUME NEW u \in Task, Expire(u)
        PROVE  Keeps(t)
    BY <1>1, <1>8 DEF Expire, Keeps, Row
  <1>9. ASSUME NEW u \in Task, Reap(u)
        PROVE  Keeps(t) \/ Ends(t)
    BY <1>4, <1>9, Statuses DEF Reap
  <1>10. ASSUME CommitDelete
         PROVE  Keeps(t) \/ Ends(t)
    <2>1. row'[t].input = row[t].input
      BY <1>10, EndAllRow, Statuses DEF CommitDelete
    <2>2. row'[t].status = IF t \in deletion.fenced THEN "skipped" ELSE row[t].status
      BY <1>10, EndAllRow, Statuses DEF CommitDelete
    <2> QED
      BY <1>10, <2>1, <2>2, Statuses DEF Keeps, Ends, Fenced
  <1>11. UNCHANGED row => Keeps(t)
    BY DEF Keeps
  <1> QED
    BY <1>2, <1>3, <1>5, <1>6, <1>7, <1>8, <1>9, <1>10, <1>11
    DEF Next, vars, Tasks, BeginAccept, Decide, AbortAccept, Read, Anchor, Persist, SkipUpdate,
        Build, Fail, Abandon, Edit, BeginDelete, AbortDelete

\* Requests are counted upwards.
LEMMA LastGrows ==
    ASSUME TypeOK, [Next]_vars
    PROVE  /\ last \in Nat /\ last' \in Nat /\ last <= last'
           /\ \A t \in Task : Creates(t) => last' = last + 1 /\ t[1] = last + 1
  <1>1. last \in Nat
    BY DEF TypeOK
  <1>2. last' = last \/ last' = last + 1
    BY DEF Next, vars, Tasks, BeginAccept, Decide, CommitAccept, AbortAccept, Claim, Read, Anchor,
           Persist, SkipUpdate, Update, Build, Succeed, Fail, RecordFailure, Abandon, Revive,
           Expire, Reap, Edit, BeginDelete, CommitDelete, AbortDelete
  <1>3. \A t \in Task : Creates(t) => last' = last + 1 /\ t[1] = last + 1
    BY DEF Creates, CommitAccept
  <1> QED
    BY <1>1, <1>2, <1>3

\* What a step does to an execution.
LEMMA ExecStep ==
    ASSUME TypeOK, [Next]_vars, NEW w \in Worker
    PROVE  \/ exec'[w] = exec[w]
           \/ exec'[w].at = "idle"
           \/ /\ exec'[w].at # "read" /\ exec'[w].task \in Task
              /\ row'[exec'[w].task].status = "running"
           \/ /\ exec'[w].at # "read" /\ exec[w].at # "idle" /\ exec'[w].task = exec[w].task
           \/ /\ Read(w) /\ exec[w].at # "idle" /\ exec'[w].task = exec[w].task
              /\ exec'[w].base = file[exec[w].task[2]].version
  <1>1. exec \in [Worker -> Execution] /\ exec[w] \in Execution
    BY DEF TypeOK
  <1>2. ASSUME NEW v \in Worker, NEW at, at # "read", exec[v].at # "idle", Moves(v, at)
        PROVE  \/ exec'[w] = exec[w]
               \/ exec'[w].at # "read" /\ exec[w].at # "idle" /\ exec'[w].task = exec[w].task
    BY <1>1, <1>2 DEF Moves, Idle
  <1>3. ASSUME NEW v \in Worker, Stops(v)
        PROVE  exec'[w] = exec[w] \/ exec'[w].at = "idle"
    BY <1>1, <1>3 DEF Stops, Idle
  <1>4. ASSUME NEW v \in Worker, NEW t \in Task, Claim(v, t)
        PROVE  \/ exec'[w] = exec[w]
               \/ /\ exec'[w].at # "read" /\ exec'[w].task \in Task
                  /\ row'[exec'[w].task].status = "running"
    <2>1. row'[t].status = "running"
      BY <1>4 DEF Claim, TypeOK, Row
    <2> QED
      BY <1>1, <1>4, <2>1 DEF Claim, Idle
  <1>5. ASSUME NEW v \in Worker, Read(v)
        PROVE  \/ exec'[w] = exec[w]
               \/ exec'[w].at # "read" /\ exec[w].at # "idle" /\ exec'[w].task = exec[w].task
               \/ /\ v = w /\ exec[w].at # "idle" /\ exec'[w].task = exec[w].task
                  /\ exec'[w].base = file[exec[w].task[2]].version
    <2>1. exec[v].at # "idle"
      BY <1>5 DEF Read
    <2>2. CASE Moves(v, "failing")
      BY <1>2, <2>1, <2>2
    <2>3. CASE ~Moves(v, "failing")
      <3>1. exec[v] \in [at : Working \cup {"failing"}, task : Task, base : Nat,
                         seen : SUBSET Nat, partial : BOOLEAN, found : SUBSET Entity]
        BY <2>1, ExecType
      <3> QED
        BY <1>1, <1>5, <2>1, <2>3, <3>1 DEF Read
    <2> QED
      BY <2>2, <2>3
  <1>6. ASSUME NEW v \in Worker, NEW E, Anchor(v, E)
        PROVE  \/ exec'[w] = exec[w]
               \/ exec'[w].at # "read" /\ exec[w].at # "idle" /\ exec'[w].task = exec[w].task
    <2>1. exec[v].at # "idle"
      BY <1>6 DEF Anchor
    <2>2. exec[v] \in [at : Working \cup {"failing"}, task : Task, base : Nat,
                       seen : SUBSET Nat, partial : BOOLEAN, found : SUBSET Entity]
      BY <2>1, ExecType
    <2>3. CASE exec' = [exec EXCEPT ![v].at = "anchored", ![v].found = E]
      BY <1>1, <2>1, <2>2, <2>3
    <2> QED
      BY <1>2, <1>6, <2>1, <2>3 DEF Anchor
  <1>7. ASSUME NEW v \in Worker, NEW E,
               \/ Update(v, E) \/ Persist(v) \/ SkipUpdate(v) \/ Build(v) \/ Succeed(v)
               \/ Fail(v) \/ RecordFailure(v) \/ Abandon(v)
        PROVE  \/ exec'[w] = exec[w]
               \/ exec'[w].at = "idle"
               \/ exec'[w].at # "read" /\ exec[w].at # "idle" /\ exec'[w].task = exec[w].task
    <2>1. exec[v].at # "idle"
      BY <1>7 DEF Update, Persist, SkipUpdate, Build, Succeed, Fail, RecordFailure, Abandon, Working
    <2>2. Stops(v) \/ Moves(v, "failing") \/ Moves(v, "written") \/ Moves(v, "done")
      BY <1>7 DEF Update, Persist, SkipUpdate, Build, Succeed, Fail, RecordFailure, Abandon
    <2> QED
      BY <1>2, <1>3, <2>1, <2>2
  <1>8. UNCHANGED exec => exec'[w] = exec[w]
    OBVIOUS
  <1> QED
    BY <1>4, <1>5, <1>6, <1>7, <1>8
    DEF Next, vars, BeginAccept, Decide, CommitAccept, AbortAccept, Revive, Expire, Reap, Edit,
        BeginDelete, CommitDelete, AbortDelete

\* The acceptance q decides on the file f, which no other has locked when it locks it.
Decides(q, f) ==
    /\ UNCHANGED row
    /\ \A p \in Requester \ {q} : request'[p] = request[p]
    /\ request'[q].listed = request[q].listed
    /\ request'[q].accepted =
          IF Accepts(q, f) THEN request[q].accepted \cup {f} ELSE request[q].accepted
    /\ request'[q].locked =
          IF Eligible(f) THEN request[q].locked \cup {f} ELSE request[q].locked
    /\ Eligible(f) => \A p \in Requester \ {q} : f \notin request[p].locked

\* It is over or has just begun.
Fresh(q) ==
    /\ request'[q].accepted = {} /\ request'[q].locked = {}
    /\ \A f \in File : request'[q].listed[f] \in {0, file[f].version}

\* What a step does to an acceptance: it stays, is over or begins, or decides on a file.
LEMMA RequestStep ==
    ASSUME TypeOK, [Next]_vars, NEW q \in Requester
    PROVE  request'[q] = request[q] \/ Fresh(q) \/ \E f \in File : Decides(q, f)
  <1>1. request \in [Requester -> Acceptance] /\ request[q] \in Acceptance
    BY DEF TypeOK
  <1>2. ASSUME NEW p \in Requester, NEW F \in SUBSET File, NEW force \in BOOLEAN,
               BeginAccept(p, F, force)
        PROVE  request'[q] = request[q] \/ Fresh(q)
    BY <1>1, <1>2 DEF BeginAccept, NoAccept, Fresh
  <1>3. ASSUME NEW p \in Requester, CommitAccept(p) \/ AbortAccept(p)
        PROVE  request'[q] = request[q] \/ Fresh(q)
    BY <1>1, <1>3 DEF CommitAccept, AbortAccept, NoAccept, Unset, Fresh
  <1>4. ASSUME NEW p \in Requester, NEW f \in File, Decide(p, f)
        PROVE  request'[q] = request[q] \/ Decides(q, f)
    <2>1. CASE p # q
      BY <1>4, <2>1, DecideFields
    <2>2. CASE p = q
      <3>1. UNCHANGED row
        BY <1>4 DEF Decide, Tasks
      <3>2. Eligible(f) => \A o \in Requester \ {q} : f \notin request[o].locked
        BY <1>4, <2>2 DEF Decide
      <3> QED
        BY <1>4, <2>2, <3>1, <3>2, DecideFields DEF Decides
    <2> QED
      BY <2>1, <2>2
  <1>5. UNCHANGED request => request'[q] = request[q]
    OBVIOUS
  <1> QED
    BY <1>2, <1>3, <1>4, <1>5
    DEF Next, vars, Claim, Read, Anchor, Persist, SkipUpdate, Update, Build, Succeed, Fail,
        RecordFailure, Abandon, Revive, Expire, Reap, Edit, BeginDelete, CommitDelete, AbortDelete

\* An acceptance that commits is over.
LEMMA CommitEnds ==
    ASSUME TypeOK, NEW q \in Requester, CommitAccept(q)
    PROVE  request'[q].accepted = {} /\ request'[q] # request[q] /\ last' = last + 1
  <1>1. request'[q] = NoAccept /\ request[q].at = "deciding"
    BY DEF CommitAccept, TypeOK
  <1> QED
    BY <1>1 DEF NoAccept, CommitAccept

\* A step adds to the versions of the files, and no file becomes absent.
LEMMA FileStep ==
    ASSUME TypeOK, Versions, [Next]_vars, NEW f \in File
    PROVE  /\ file[f].version \in Nat /\ file'[f].version \in Nat
           /\ file[f].version <= file'[f].version
           /\ file'[f].status = "absent" => file'[f].version = 0
  <1>1. file \in [File -> Entry] /\ file[f] \in Entry /\ file[f].version \in Nat
    BY DEF TypeOK, Entry
  <1>2. file[f].status = "absent" => file[f].version = 0
    BY DEF Versions
  <1>3. ASSUME NEW w \in Worker, NEW E \in SUBSET Entity, Anchor(w, E)
        PROVE  UNCHANGED file \/ (file'[f].version = file[f].version /\ file'[f].status # "absent")
               \/ file'[f] = file[f]
    <2>1. CASE \E e \in E : file[e].status = "deleted"
      BY <1>3, <2>1 DEF Anchor
    <2>2. CASE ~ \E e \in E : file[e].status = "deleted"
      <3>1. file' = Born(E)
        BY <1>3, <2>2 DEF Anchor
      <3>2. CASE f \in E /\ ~Live(f)
        <4>1. file[f].status = "absent"
          BY <1>1, <2>2, <3>2 DEF Live, Entry
        <4> QED
          BY <1>2, <3>1, <3>2, <4>1 DEF Born
      <3>3. CASE ~(f \in E /\ ~Live(f))
        BY <3>1, <3>3 DEF Born
      <3> QED
        BY <3>2, <3>3
    <2> QED
      BY <2>1, <2>2
  <1>4. ASSUME NEW w \in Worker, NEW E, Update(w, E)
        PROVE  \/ file'[f] = file[f]
               \/ file'[f].version = file[f].version + 1 /\ file'[f].status = "live"
    <2>1. \/ UNCHANGED file
          \/ /\ Live(exec[w].task[2])
             /\ file' = [file EXCEPT ![exec[w].task[2]].version = @ + 1,
                                     ![exec[w].task[2]].enriched = TRUE]
      BY <1>4 DEF Update
    <2> QED
      BY <1>1, <2>1 DEF Live, Entry
  <1>5. ASSUME NEW g \in File, Edit(g)
        PROVE  \/ file'[f] = file[f]
               \/ file'[f].version = file[f].version + 1 /\ file'[f].status = "live"
    BY <1>1, <1>5 DEF Edit, Live, Entry
  <1>6. ASSUME CommitDelete
        PROVE  file'[f].version = file[f].version /\ file'[f].status = "deleted"
    BY <1>1, <1>6 DEF CommitDelete, Entry
  <1>7. \/ file'[f] = file[f]
        \/ file'[f].version = file[f].version /\ file'[f].status # "absent"
        \/ file'[f].version = file[f].version + 1 /\ file'[f].status = "live"
    BY <1>3, <1>4, <1>5, <1>6
    DEF Next, vars, Files, BeginAccept, Decide, CommitAccept, AbortAccept, Claim, Read, Persist,
        SkipUpdate, Build, Succeed, Fail, RecordFailure, Abandon, Revive, Expire, Reap,
        BeginDelete, AbortDelete
  <1> QED
    BY <1>1, <1>2, <1>7

-----------------------------------------------------------------------------
(* The steps keep the invariant.                                           *)

\* Tasks stay numbered by requests, and executed once claimed.
LEMMA NumberedStep ==
    ASSUME TypeOK, Numbered, Fenced, [Next]_vars
    PROVE  Numbered'
  <1>1. ASSUME NEW t \in Task, Exists(t)'
        PROVE  t[1] <= last'
    <2>1. t[1] \in Int
      BY TaskParts DEF Request
    <2>2. CASE Creates(t)
      BY <2>1, <2>2, LastGrows
    <2>3. CASE ~Creates(t)
      <3>1. Exists(t)
        BY <1>1, <2>3, Life, Statuses DEF Keeps, Starts, Ends, Exists, IsActive
      <3> QED
        BY <2>1, <3>1, LastGrows DEF Numbered
    <2> QED
      BY <2>2, <2>3
  <1>2. ASSUME NEW w \in Worker, exec'[w].at # "idle"
        PROVE  row'[exec'[w].task].status \notin {"absent", "pending"}
    <2>1. CASE exec[w].at # "idle" /\ exec'[w].task = exec[w].task
      <3> DEFINE t == exec[w].task
      <3>1. t \in Task /\ row[t].status \notin {"absent", "pending"}
        BY <2>1, ExecType DEF Numbered
      <3>2. t[1] <= last /\ t[1] \in Int
        BY <3>1, TaskParts DEF Numbered, Exists, Request
      <3>3. ~Creates(t)
        BY <3>1, <3>2, LastGrows
      <3>4. row'[t].status \notin {"absent", "pending"}
        BY <3>1, <3>3, Life, Statuses DEF Keeps, Starts, Ends, Terminal
      <3> QED
        BY <2>1, <3>4
    <2>2. CASE row'[exec'[w].task].status = "running"
      BY <2>2
    <2> QED
      BY <1>2, <2>1, <2>2, ExecStep
  <1> QED
    BY <1>1, <1>2 DEF Numbered

\* What the deletion has fenced stays active.
LEMMA FencedStep ==
    ASSUME TypeOK, Numbered, Fenced, [Next]_vars
    PROVE  Fenced'
  <1> SUFFICES ASSUME NEW t \in deletion'.fenced
               PROVE  IsActive(t)'
    BY DEF Fenced
  <1>1. CASE UNCHANGED deletion
    <2>1. t \in Task /\ IsActive(t) /\ ~TaskFree(t)
      BY <1>1 DEF Fenced, TypeOK, TaskFree
    <2>2. ~CommitDelete
      BY <1>1, <2>1 DEF CommitDelete, TaskFree
    <2>3. ~Ends(t)
      BY <2>1, <2>2 DEF Ends
    <2> QED
      BY <2>1, <2>3, Life, Statuses DEF Keeps, Starts, Creates, IsActive
  <1>2. CASE BeginDelete
    BY <1>2 DEF BeginDelete, Tasks, IsActive
  <1>3. CASE CommitDelete \/ AbortDelete
    BY <1>3 DEF CommitDelete, AbortDelete
  <1> QED
    BY <1>1, <1>2, <1>3
    DEF Next, vars, BeginAccept, Decide, CommitAccept, AbortAccept, Claim, Read, Anchor, Persist,
        SkipUpdate, Update, Build, Succeed, Fail, RecordFailure, Abandon, Revive, Expire, Reap, Edit

\* A task that is active was active, or has been created for a file without active tasks.
LEMMA ActiveBefore ==
    ASSUME TypeOK, Fenced, Locking, [Next]_vars, NEW t \in Task, IsActive(t)'
    PROVE  \/ IsActive(t)
           \/ \E q \in Requester :
                 /\ CommitAccept(q) /\ t[1] = last + 1 /\ t[2] \in request[q].accepted
                 /\ \A u \in TasksOf(t[2]) : ~IsActive(u)
  BY Life, Statuses DEF Keeps, Starts, Ends, Creates, IsActive, Locking

\* Acceptances stay in possession of the files they accept.
LEMMA LockingStep ==
    ASSUME TypeOK, Fenced, Locking, [Next]_vars
    PROVE  Locking'
  <1>1. ASSUME NEW q \in Requester, NEW f \in request'[q].accepted
        PROVE  f \in request'[q].locked /\ \A t \in TasksOf(f) : ~IsActive(t)'
    <2>1. CASE request'[q] = request[q]
      <3>1. f \in request[q].locked /\ \A t \in TasksOf(f) : ~IsActive(t)
        BY <1>1, <2>1 DEF Locking
      <3>2. ASSUME NEW t \in TasksOf(f), IsActive(t)'
            PROVE  FALSE
        <4>1. t \in Task /\ t[2] = f
          BY DEF TasksOf
        <4>2. PICK p \in Requester : CommitAccept(p) /\ f \in request[p].accepted
          BY <3>1, <3>2, <4>1, ActiveBefore
        <4>3. p # q
          BY <2>1, <4>2, CommitEnds
        <4>4. f \in request[p].locked
          BY <4>2 DEF Locking
        <4> QED
          BY <3>1, <4>3, <4>4 DEF Locking
      <3> QED
        BY <2>1, <3>1, <3>2
    <2>2. CASE Fresh(q)
      BY <1>1, <2>2 DEF Fresh
    <2>3. ASSUME NEW g \in File, Decides(q, g)
          PROVE  f \in request'[q].locked /\ \A t \in TasksOf(f) : ~IsActive(t)'
      <3>1. CASE f \in request[q].accepted
        BY <2>3, <3>1 DEF Decides, Locking, IsActive
      <3>2. CASE f = g /\ Accepts(q, g)
        BY <2>3, <3>2 DEF Decides, Accepts, Reused, IsActive
      <3> QED
        BY <1>1, <2>3, <3>1, <3>2 DEF Decides
    <2> QED
      BY <2>1, <2>2, <2>3, RequestStep
  <1>2. ASSUME NEW q \in Requester, NEW p \in Requester, p # q
        PROVE  request'[p].locked \cap request'[q].locked = {}
    <2>1. ASSUME NEW o \in Requester
          PROVE  \/ request'[o].locked \subseteq request[o].locked
                 \/ \E f \in File : Decides(o, f)
      BY RequestStep DEF Fresh
    <2>2. ASSUME NEW o \in Requester, NEW f \in File, Decides(o, f), o = p \/ o = q
          PROVE  request'[p].locked \cap request'[q].locked = {}
      BY <1>2, <2>2 DEF Decides, Locking
    <2> QED
      BY <1>2, <2>1, <2>2 DEF Locking
  <1> QED
    BY <1>1, <1>2 DEF Locking, TasksOf

\* A file gets no second active task.
LEMMA OneActiveStep ==
    ASSUME TypeOK, Fenced, Locking, OneActivePerFile, [Next]_vars
    PROVE  OneActivePerFile'
  <1> SUFFICES ASSUME NEW t \in Task, NEW u \in Task, t[2] = u[2], IsActive(t)', IsActive(u)'
               PROVE  t = u
    BY DEF OneActivePerFile
  <1>1. t \in TasksOf(u[2]) /\ u \in TasksOf(t[2])
    BY DEF TasksOf
  <1>2. CASE IsActive(t) /\ IsActive(u)
    BY <1>2 DEF OneActivePerFile
  <1>3. CASE t[1] = last + 1 /\ u[1] = last + 1
    BY <1>3, TaskParts
  <1> QED
    BY <1>1, <1>2, <1>3, ActiveBefore

\* Versions stay in the order in which they were captured.
LEMMA VersionsStep ==
    ASSUME TypeOK, Numbered, Fenced, Versions, [Next]_vars
    PROVE  Versions'
  <1>1. \A f \in File : file'[f].status = "absent" => file'[f].version = 0
    BY FileStep
  <1>2. ASSUME NEW q \in Requester, NEW f \in File
        PROVE  request'[q].listed[f] <= file'[f].version
    <2>1. request[q].listed[f] \in Nat /\ request[q].listed[f] <= file[f].version
      BY DEF TypeOK, Acceptance, Versions
    <2>2. request'[q].listed[f] \in {request[q].listed[f], 0, file[f].version}
      BY RequestStep DEF Fresh, Decides
    <2> QED
      BY <2>1, <2>2, FileStep
  <1>3. ASSUME NEW t \in Task, Exists(t)'
        PROVE  row'[t].input <= file'[t[2]].version
    <2>1. t[2] \in File /\ row[t].input \in Nat
      BY TaskParts DEF TypeOK, Row
    <2>2. CASE Creates(t)
      <3>1. PICK q \in Requester : row'[t].input = request[q].listed[t[2]]
        BY <2>2 DEF Creates
      <3>2. /\ request[q].listed[t[2]] \in Nat
            /\ request[q].listed[t[2]] <= file[t[2]].version
        BY <2>1 DEF TypeOK, Acceptance, Versions
      <3> QED
        BY <2>1, <3>1, <3>2, FileStep
    <2>3. CASE ~Creates(t)
      <3>1. Exists(t) /\ row'[t].input = row[t].input
        BY <1>3, <2>3, Life, Statuses DEF Keeps, Starts, Ends, Exists, IsActive
      <3>2. row[t].input <= file[t[2]].version
        BY <3>1 DEF Versions
      <3> QED
        BY <2>1, <3>1, <3>2, FileStep
    <2> QED
      BY <2>2, <2>3
  <1>4. ASSUME NEW w \in Worker, exec'[w].at = "read"
        PROVE  /\ row'[exec'[w].task].input <= exec'[w].base
               /\ exec'[w].base <= file'[exec'[w].task[2]].version
    <2> DEFINE t == exec[w].task
    <2>1. exec[w].at # "idle" /\ exec'[w].task = t
      BY <1>4, ExecStep
    <2>2. t \in Task /\ exec[w].base \in Nat
      BY <2>1, ExecType
    <2>3. t[2] \in File /\ row[t].input \in Nat
      BY <2>2, TaskParts DEF TypeOK, Row
    <2>4. row'[t].input = row[t].input
      <3>1. Exists(t) /\ t[1] <= last /\ t[1] \in Int
        BY <2>1, <2>2, TaskParts DEF Numbered, Exists, Request
      <3>2. ~Creates(t)
        BY <2>2, <3>1, LastGrows
      <3> QED
        BY <2>2, <3>2, Life DEF Keeps, Starts, Ends
    <2>5. CASE exec'[w] = exec[w]
      <3>1. row[t].input <= exec[w].base /\ exec[w].base <= file[t[2]].version
        BY <1>4, <2>5 DEF Versions
      <3> QED
        BY <2>1, <2>2, <2>3, <2>4, <2>5, <3>1, FileStep
    <2>6. CASE exec'[w].base = file[t[2]].version
      <3>1. row[t].input <= file[t[2]].version
        BY <2>1, <2>2 DEF Numbered, Versions, Exists
      <3> QED
        BY <2>1, <2>3, <2>4, <2>6, <3>1, FileStep
    <2> QED
      BY <1>4, <2>5, <2>6, ExecStep
  <1> QED
    BY <1>1, <1>2, <1>3, <1>4 DEF Versions

-----------------------------------------------------------------------------
(* The accounts of the batches.                                            *)

\* The step ends the tasks in S, or none, and advances the batches by them.
EndsAll(S) ==
    /\ S \subseteq Task
    /\ \A t \in Task :
          IF t \in S THEN IsActive(t) /\ row'[t].status \in Terminal
          ELSE row'[t].status = row[t].status
    /\ batch' = AdvanceAll(S) /\ last' = last

\* What is counted is finite.
LEMMA Countable ==
    ASSUME NEW r
    PROVE  /\ IsFiniteSet(Made(r)) /\ Cardinality(Made(r)) \in Nat
           /\ IsFiniteSet(Done(r)) /\ Cardinality(Done(r)) \in Nat
           /\ Done(r) \subseteq Made(r)
           /\ Cardinality(Done(r)) = Cardinality(Made(r)) => Done(r) = Made(r)
  <1>1. Made(r) \in SUBSET Task /\ Done(r) \in SUBSET Task
    BY DEF Made, Done
  <1>2. Done(r) \in SUBSET Made(r)
    BY Statuses DEF Made, Done, Exists, IsEnded
  <1>3. IsFiniteSet(Made(r)) /\ IsFiniteSet(Done(r))
    BY <1>1, TaskFinite, FS_Subset
  <1> QED
    BY <1>2, <1>3, FS_Subset, FS_CardinalityType

\* A step that ends no task and changes no batch.
LEMMA Quiet ==
    ASSUME TypeOK, UNCHANGED <<batch, last>>, \A t \in Task : Keeps(t)
    PROVE  EndsAll({})
  <1>1. \A r \in Request : CountOf(r, {}) = 0
    BY CountNat
  <1>2. AdvanceAll({}) = batch
    BY <1>1 DEF AdvanceAll, TypeOK
  <1> QED
    BY <1>2 DEF EndsAll, Keeps

\* A step that ends running tasks, or those that the deletion has fenced.
LEMMA Ending ==
    ASSUME TypeOK, NEW S \in SUBSET Task, NEW status \in Terminal, \A t \in S : IsActive(t),
           row' = EndAll(S, status), batch' = AdvanceAll(S), last' = last
    PROVE  EndsAll(S)
  BY EndAllRow DEF EndsAll

\* A step commits an acceptance, claims a task, or ends some active tasks, or none.
LEMMA StepKind ==
    ASSUME TypeOK, Fenced, [Next]_vars
    PROVE  \/ \E q \in Requester : CommitAccept(q)
           \/ \E w \in Worker, t \in Task : Claim(w, t)
           \/ \E S : EndsAll(S)
  <1>1. ASSUME UNCHANGED <<row, batch, last>>
        PROVE  EndsAll({})
    BY <1>1, Quiet DEF Keeps
  <1>2. ASSUME NEW t \in Task, NEW status \in Terminal, row[t].status = "running",
               row' = EndAll({t}, status), batch' = AdvanceAll({t}), last' = last
        PROVE  EndsAll({t})
    BY <1>2, Ending, Statuses DEF IsActive
  <1>3. ASSUME NEW w \in Worker, Succeed(w) \/ RecordFailure(w)
        PROVE  \E S : EndsAll(S)
    <2>1. exec[w].at # "idle"
      BY <1>3 DEF Succeed, RecordFailure
    <2>2. exec[w].task \in Task
      BY <2>1, ExecType
    <2>3. last' = last
      BY <1>3 DEF Succeed, RecordFailure
    <2>4. \/ UNCHANGED <<row, batch>>
          \/ /\ Held(w) /\ batch' = AdvanceAll({exec[w].task})
             /\ \/ row' = EndAll({exec[w].task}, "succeeded")
                \/ row' = EndAll({exec[w].task}, "failed")
      BY <1>3 DEF Succeed, RecordFailure
    <2> QED
      BY <1>1, <1>2, <2>2, <2>3, <2>4, Statuses DEF Held
  <1>4. ASSUME NEW w \in Worker, NEW E, Update(w, E)
        PROVE  EndsAll({})
    <2>1. UNCHANGED row \/ row' = [row EXCEPT ![exec[w].task].used = exec[w].seen]
      BY <1>4 DEF Update
    <2>2. \A u \in Task : row[u] \in Row
      BY DEF TypeOK
    <2>3. \A u \in Task : Keeps(u)
      BY <2>1, <2>2 DEF TypeOK, Row, Keeps
    <2> QED
      BY <1>4, <2>3, Quiet DEF Update
  <1>5. ASSUME NEW w \in Worker, Revive(w)
        PROVE  EndsAll({})
    <2>1. \A u \in Task : row[u] \in Row
      BY DEF TypeOK
    <2>2. \A u \in Task : Keeps(u)
      BY <1>5, <2>1 DEF Revive, TypeOK, Row, Keeps
    <2> QED
      BY <1>5, <2>2, Quiet DEF Revive
  <1>6. ASSUME NEW t \in Task, Expire(t)
        PROVE  EndsAll({})
    <2>1. \A u \in Task : row[u] \in Row
      BY DEF TypeOK
    <2>2. \A u \in Task : Keeps(u)
      BY <1>6, <2>1 DEF Expire, TypeOK, Row, Keeps
    <2> QED
      BY <1>6, <2>2, Quiet DEF Expire
  <1>7. ASSUME NEW t \in Task, Reap(t)
        PROVE  \E S : EndsAll(S)
    BY <1>2, <1>7, Statuses DEF Reap
  <1>8. ASSUME CommitDelete
        PROVE  \E S : EndsAll(S)
    <2>1. deletion.fenced \in SUBSET Task /\ \A t \in deletion.fenced : IsActive(t)
      BY DEF TypeOK, Fenced
    <2> QED
      BY <1>8, <2>1, Ending, Statuses DEF CommitDelete
  <1> QED
    BY <1>1, <1>3, <1>4, <1>5, <1>6, <1>7, <1>8
    DEF Next, vars, Tasks, BeginAccept, Decide, AbortAccept, Read, Anchor, Persist, SkipUpdate,
        Build, Fail, Abandon, Edit, BeginDelete, AbortDelete

\* Where tasks end, the account of each request stays right.
LEMMA EndsAccount ==
    ASSUME TypeOK, NEW S, EndsAll(S), NEW r \in Request, Account(r)
    PROVE  Account(r)'
  <1> DEFINE ending == {t \in S : t[1] = r}
  <1>1. batch[r] \in Batch /\ S \in SUBSET Task
    BY DEF TypeOK, EndsAll
  <1>2. CountOf(r, S) \in Nat /\ IsFiniteSet(ending) /\ CountOf(r, S) = Cardinality(ending)
    BY <1>1, CountNat DEF CountOf
  <1>3. Made(r)' = Made(r)
    BY Statuses DEF Made, Exists, EndsAll, IsActive
  <1>4. Done(r)' = Done(r) \cup ending
    BY Statuses DEF Done, IsEnded, EndsAll, IsActive, Terminal
  <1>5. Done(r) \cap ending = {}
    BY Statuses DEF Done, IsEnded, EndsAll, IsActive
  <1>6. Cardinality(Done(r)') = Cardinality(Done(r)) + CountOf(r, S)
    <2> HIDE DEF ending
    <2>1. Cardinality(Done(r) \cup ending) =
              Cardinality(Done(r)) + Cardinality(ending) - Cardinality(Done(r) \cap ending)
      BY <1>2, Countable, FS_Union
    <2>2. Cardinality(Done(r) \cap ending) = 0
      BY <1>5, FS_EmptySet
    <2>3. Cardinality(Done(r)) \in Nat
      BY Countable
    <2>4. Cardinality(Done(r)') = Cardinality(Done(r) \cup ending)
      BY <1>4
    <2> QED
      BY <1>2, <2>1, <2>2, <2>3, <2>4
  <1>7. CASE CountOf(r, S) = 0
    <2>1. batch'[r] = batch[r] /\ last' = last
      BY <1>7 DEF EndsAll, AdvanceAll
    <2>2. Cardinality(Done(r)') = Cardinality(Done(r))
      BY <1>6, <1>7, Countable
    <2> QED
      BY <1>3, <2>1, <2>2 DEF Account
  <1>8. CASE CountOf(r, S) # 0
    <2>1. Made(r) # {}
      <3>1. PICK t \in S : t[1] = r
        BY <1>1, <1>8, CountNat
      <3>2. t \in Made(r)
        BY <1>1, <3>1, Statuses DEF Made, Exists, EndsAll, IsActive
      <3> QED
        BY <3>2
    <2>2. batch[r].status # "none"
      BY <2>1 DEF Account
    <2>3. batch'[r] = [batch[r] EXCEPT !.completed = batch[r].completed + CountOf(r, S),
                         !.status = IF batch[r].completed + CountOf(r, S) = batch[r].total
                                      THEN "completed" ELSE batch[r].status]
      BY <1>1, <1>8 DEF EndsAll, AdvanceAll, Batch
    <2>4. /\ batch'[r].total = batch[r].total
          /\ batch'[r].completed = batch[r].completed + CountOf(r, S)
          /\ batch'[r].status = IF batch[r].completed + CountOf(r, S) = batch[r].total
                                  THEN "completed" ELSE batch[r].status
      BY <1>1, <2>3 DEF Batch
    <2>5. /\ r <= last /\ last' = last
          /\ batch[r].total = Cardinality(Made(r)) /\ batch[r].completed = Cardinality(Done(r))
          /\ (batch[r].status = "completed") <=> (batch[r].completed = batch[r].total)
      BY <2>2 DEF Account, EndsAll
    <2>6. batch[r].status # "completed"
      <3>1. SUFFICES ASSUME Done(r) = Made(r)
                     PROVE  FALSE
        BY <2>5, Countable
      <3>2. PICK t \in S : t[1] = r
        BY <1>1, <1>8, CountNat
      <3>3. t \in Made(r) /\ t \notin Done(r)
        BY <1>1, <3>2, Statuses DEF Made, Done, Exists, IsEnded, EndsAll, IsActive
      <3> QED
        BY <3>1, <3>3
    <2> QED
      BY <1>3, <1>6, <2>2, <2>4, <2>5, <2>6 DEF Account
  <1> QED
    BY <1>7, <1>8

\* A request has as many pairs with files as there are files.
LEMMA PairsCount ==
    ASSUME NEW r, NEW F \in SUBSET File, NEW P,
           \A p : p \in P <=> \E f \in F : p = <<r, f>>
    PROVE  Cardinality(P) = Cardinality(F)
  <1> DEFINE pair == [f \in F |-> <<r, f>>]
  <1>1. IsFiniteSet(F)
    BY FS_Subset
  <1>2. pair \in [F -> P]
    OBVIOUS
  <1>3. \A f, g \in F : pair[f] = pair[g] => f = g
    OBVIOUS
  <1>4. \A p \in P : \E f \in F : pair[f] = p
    OBVIOUS
  <1> HIDE DEF pair
  <1>5. pair \in Bijection(F, P)
    BY <1>2, <1>3, <1>4 DEF Bijection, Injection, IsInjective, Surjection
  <1>6. ExistsBijection(F, P)
    BY <1>5 DEF ExistsBijection
  <1> QED
    BY <1>1, <1>6, FS_Bijection

\* What an acceptance commits: nothing of earlier requests changes.
LEMMA CommitStep ==
    ASSUME TypeOK, Numbered, NEW q \in Requester, CommitAccept(q)
    PROVE  /\ last' = last + 1
           /\ \A t \in Task :
                 IF t[1] = last + 1
                   THEN /\ row[t].status = "absent"
                        /\ row'[t].status =
                              IF t[2] \in request[q].accepted THEN "pending" ELSE "absent"
                   ELSE row'[t] = row[t]
           /\ \A r \in Request :
                 batch'[r] = IF r = last + 1
                               THEN [status    |-> IF request[q].accepted = {} THEN "completed"
                                                   ELSE "processing",
                                     total     |-> Cardinality(request[q].accepted),
                                     completed |-> 0]
                               ELSE batch[r]
  <1>1. last \in Nat /\ batch \in [Request -> Batch] /\ last' = last + 1
    BY DEF TypeOK, CommitAccept
  <1>2. ASSUME NEW t \in Task, t[1] = last + 1
        PROVE  row[t].status = "absent"
    BY <1>1, <1>2 DEF Numbered, Exists
  <1>3. ASSUME NEW t \in Task
        PROVE  row'[t] = IF t[1] = last + 1 /\ t[2] \in request[q].accepted
                           THEN NewRow(request[q].judged[t[2]], request[q].listed[t[2]])
                           ELSE row[t]
    BY DEF CommitAccept
  <1>4. \A n, i : NewRow(n, i).status = "pending"
    BY DEF NewRow, AbsentRow
  <1>5. ASSUME NEW r \in Request
        PROVE  batch'[r] = IF r = last + 1
                             THEN [status    |-> IF request[q].accepted = {} THEN "completed"
                                                 ELSE "processing",
                                   total     |-> Cardinality(request[q].accepted),
                                   completed |-> 0]
                             ELSE batch[r]
    BY <1>1 DEF CommitAccept
  <1> QED
    BY <1>1, <1>2, <1>3, <1>4, <1>5

\* The account of a new batch is right, and the others are unchanged.
LEMMA CommitAccount ==
    ASSUME TypeOK, Numbered, NEW q \in Requester, CommitAccept(q),
           NEW r \in Request, Account(r)
    PROVE  Account(r)'
  <1> DEFINE accepted == request[q].accepted
  <1>1. accepted \in SUBSET File /\ last \in Nat /\ last' = last + 1
    BY CommitStep DEF TypeOK, Acceptance
  <1>2. CASE r # last + 1
    <2>1. batch'[r] = batch[r]
      BY <1>2, CommitStep
    <2>2. \A t \in Task : t[1] = r => row'[t] = row[t]
      BY <1>2, CommitStep
    <2>3. Made(r)' = Made(r) /\ Done(r)' = Done(r)
      BY <2>2 DEF Made, Done, Exists, IsEnded
    <2> QED
      BY <1>1, <2>1, <2>3 DEF Account, Request
  <1>3. CASE r = last + 1
    <2>1. \A t \in Task :
             t[1] = r => row'[t].status = IF t[2] \in accepted THEN "pending" ELSE "absent"
      BY <1>3, CommitStep
    <2>2. Made(r)' = {<<r, f>> : f \in accepted}
      <3>1. \A f \in accepted : <<r, f>> \in Task
        BY <1>1 DEF Task
      <3> QED
        BY <2>1, <3>1, TaskParts DEF Made, Exists
    <2>3. Done(r)' = {}
      BY <2>1 DEF Done, IsEnded, Terminal
    <2>4. Cardinality(Made(r)') = Cardinality(accepted) /\ Cardinality(Done(r)') = 0
      <3>1. Cardinality(Made(r)') = Cardinality(accepted)
        <4> DEFINE made == Made(r)'
        <4>1. accepted \in SUBSET File /\ \A p : p \in made <=> \E f \in accepted : p = <<r, f>>
          BY <1>1, <2>2
        <4> HIDE DEF accepted, made
        <4>2. Cardinality(made) = Cardinality(accepted)
          BY <4>1, PairsCount, Z3
        <4> QED
          BY <4>2 DEF made
      <3>2. Cardinality({}) = 0
        BY FS_EmptySet
      <3> QED
        BY <2>3, <3>1, <3>2
    <2>5. (Cardinality(accepted) = 0) <=> (accepted = {})
      BY <1>1, FS_Subset, FS_EmptySet
    <2>6. batch'[r] = [status    |-> IF accepted = {} THEN "completed" ELSE "processing",
                       total     |-> Cardinality(accepted),
                       completed |-> 0]
      BY <1>3, CommitStep
    <2>7. /\ batch'[r].status = IF accepted = {} THEN "completed" ELSE "processing"
          /\ batch'[r].total = Cardinality(accepted) /\ batch'[r].completed = 0
      BY <2>6
    <2>8. r <= last'
      BY <1>1, <1>3
    <2> QED
      BY <2>4, <2>5, <2>7, <2>8 DEF Account
  <1> QED
    BY <1>2, <1>3

\* A claim changes the status of one task.
LEMMA ClaimStep ==
    ASSUME TypeOK, NEW w \in Worker, NEW t \in Task, Claim(w, t)
    PROVE  /\ row[t].status = "pending" /\ batch' = batch /\ last' = last
           /\ \A u \in Task :
                 row'[u].status = IF u = t THEN "running" ELSE row[u].status
  <1>1. \A u \in Task : row[u] \in Row
    BY DEF TypeOK
  <1> QED
    BY <1>1 DEF Claim, TypeOK, Row

\* Every step keeps the accounts right.
LEMMA AccountStep ==
    ASSUME TypeOK, Numbered, Fenced, Accounted, [Next]_vars
    PROVE  Accounted'
  <1> SUFFICES ASSUME NEW r \in Request
               PROVE  Account(r)'
    BY DEF Accounted
  <1>1. Account(r)
    BY DEF Accounted
  <1>2. ASSUME NEW w \in Worker, NEW t \in Task, Claim(w, t)
        PROVE  Account(r)'
    <2>1. Made(r)' = Made(r) /\ Done(r)' = Done(r)
      BY <1>2, ClaimStep DEF Made, Done, Exists, IsEnded, Terminal
    <2>2. batch' = batch /\ last' = last
      BY <1>2, ClaimStep
    <2> QED
      BY <1>1, <2>1, <2>2 DEF Account
  <1> QED
    BY <1>1, <1>2, CommitAccount, EndsAccount, StepKind

-----------------------------------------------------------------------------
(* The theorems.                                                           *)

\* The invariant holds at first.
LEMMA IInvInit == Init => IInv
  <1> SUFFICES ASSUME Init PROVE IInv
    OBVIOUS
  <1>1. TypeOK
    BY TypeInit
  <1>2. \A t \in Task : row[t].status = "absent"
    BY DEF Init, AbsentRow
  <1>3. Numbered /\ Fenced /\ OneActivePerFile
    BY <1>2, Statuses DEF Init, Numbered, Fenced, OneActivePerFile, Exists, IsActive, Idle
  <1>4. Locking
    BY DEF Init, Locking, NoAccept
  <1>5. Versions
    BY <1>2 DEF Init, Versions, Exists, Idle, NoAccept, Unset
  <1>6. Accounted
    BY <1>2 DEF Init, Accounted, Account, Made, Exists, NoBatch
  <1> QED
    BY <1>1, <1>3, <1>4, <1>5, <1>6 DEF IInv

\* Every step keeps it.
LEMMA IInvStep == IInv /\ [Next]_vars => IInv'
  BY TypeStep, NumberedStep, FencedStep, LockingStep, VersionsStep, OneActiveStep, AccountStep
  DEF IInv

\* It holds in every reachable state.
LEMMA Invariance == Spec => []IInv
  BY IInvInit, IInvStep, PTL DEF Spec

\* A file never has two active semantic tasks: acceptances lock its row from the look for
\* an active task to the commit.
THEOREM OneActive == Spec => []OneActivePerFile
  <1>1. IInv => OneActivePerFile
    BY DEF IInv
  <1> QED
    BY <1>1, Invariance, PTL

\* The status of a task that has ended is final: who ends a task looks at its status with
\* the row locked, and new tasks have numbers of their own.
THEOREM Final == Spec => TerminalFinal
  <1>1. ASSUME IInv, [Next]_vars, NEW t \in Task, IsEnded(t)
        PROVE  row'[t].status = row[t].status
    <2>1. ~Creates(t)
      <3>1. t[1] <= last /\ t[1] \in Int
        BY <1>1, Statuses, TaskParts DEF IInv, Numbered, Exists, IsEnded, Request
      <3> QED
        BY <1>1, <3>1, LastGrows DEF IInv
    <2>2. ~Starts(t) /\ ~Ends(t)
      BY <1>1, Statuses DEF Starts, Ends, IsActive, IsEnded
    <2> QED
      BY <1>1, <2>1, <2>2, Life DEF IInv, Keeps
  <1>2. IInv /\ [Next]_vars => [\A t \in Task : IsEnded(t) => row'[t].status = row[t].status]_vars
    BY <1>1
  <1> QED
    BY <1>2, Invariance, PTL DEF Spec, TerminalFinal

\* A worker that wrote the document found it as it was accepted.
LEMMA WrittenSigned ==
    ASSUME TypeOK, [Next]_vars, NEW w \in Worker,
           exec[w].at = "read", exec'[w].at = "written"
    PROVE  Signed(exec[w].task)
  <1>1. exec \in [Worker -> Execution]
    BY DEF TypeOK
  <1>2. ASSUME NEW v \in Worker, NEW E, Update(v, E)
        PROVE  Signed(exec[w].task)
    <2>1. \/ Moves(v, "failing")
          \/ Signed(exec[v].task) /\ Moves(v, "written")
      BY <1>2 DEF Update
    <2> QED
      BY <1>1, <2>1 DEF Moves, Idle
  <1>3. ASSUME NEW v \in Worker, NEW at \in {"failing", "done"}, Moves(v, at)
        PROVE  exec'[w].at # "written"
    BY <1>1, <1>3 DEF Moves, Idle
  <1>4. ASSUME NEW v \in Worker, Stops(v)
        PROVE  exec'[w].at # "written"
    BY <1>1, <1>4 DEF Stops, Idle
  <1>5. ASSUME NEW v \in Worker, NEW t, Claim(v, t)
        PROVE  exec'[w].at # "written"
    BY <1>1, <1>5 DEF Claim, Idle
  <1>6. ASSUME NEW v \in Worker, Read(v)
        PROVE  exec'[w].at # "written"
    <2>1. CASE w = v
      BY <1>6, <2>1 DEF Read
    <2>2. CASE w # v
      BY <1>1, <1>6, <2>2 DEF Read, Moves
    <2> QED
      BY <2>1, <2>2
  <1>7. ASSUME NEW v \in Worker, NEW E, Anchor(v, E)
        PROVE  exec'[w].at # "written"
    <2>1. \/ Moves(v, "failing")
          \/ exec' = [exec EXCEPT ![v].at = "anchored", ![v].found = E]
      BY <1>7 DEF Anchor
    <2>2. CASE w # v
      BY <1>1, <2>1, <2>2 DEF Moves
    <2>3. CASE w = v /\ exec' = [exec EXCEPT ![v].at = "anchored", ![v].found = E]
      <3>1. exec[v] \in [at : Working \cup {"failing"}, task : Task, base : Nat,
                         seen : SUBSET Nat, partial : BOOLEAN, found : SUBSET Entity]
        BY <2>3, ExecType
      <3> QED
        BY <1>1, <2>3, <3>1
    <2> QED
      BY <1>3, <2>1, <2>2, <2>3
  <1> QED
    BY <1>2, <1>3, <1>4, <1>5, <1>6, <1>7
    DEF Next, vars, BeginAccept, Decide, CommitAccept, AbortAccept, Persist, SkipUpdate, Build,
        Succeed, Fail, RecordFailure, Abandon, Revive, Expire, Reap, Edit, BeginDelete,
        CommitDelete, AbortDelete

\* An enrichment replaces the very document it read: what was accepted is no newer than
\* what was read, that no newer than the file, and the update finds the first in the last.
THEOREM Edits == Spec => EditsKept
  <1>1. ASSUME IInv, [Next]_vars, NEW w \in Worker,
               exec[w].at = "read", exec'[w].at = "written"
        PROVE  file[FileOf(w)].version = exec[w].base
    <2> DEFINE t == exec[w].task
    <2>1. t \in Task /\ exec[w].base \in Nat
      BY <1>1, ExecType DEF IInv
    <2>2. row[t].input <= exec[w].base /\ exec[w].base <= file[t[2]].version
      BY <1>1 DEF IInv, Versions
    <2>3. file[t[2]].version = row[t].input
      BY <1>1, WrittenSigned DEF IInv, Signed
    <2>4. row[t].input \in Nat
      BY <1>1, <2>1 DEF IInv, TypeOK, Row
    <2> QED
      BY <2>1, <2>2, <2>3, <2>4 DEF FileOf
  <1>2. IInv /\ [Next]_vars =>
            [\A w \in Worker :
                exec[w].at = "read" /\ exec'[w].at = "written" =>
                    file[FileOf(w)].version = exec[w].base]_vars
    BY <1>1
  <1> QED
    BY <1>2, Invariance, PTL DEF Spec, EditsKept

-----------------------------------------------------------------------------
(* The refinement.                                                         *)

\* What Jobs calls the state of a task.
JobStateOf(t) == IF IsEnded(t) THEN "ended" ELSE row[t].status

\* The state of a job is one of the four.
LEMMA JobStateType == TypeOK => \A t \in Task : JobStateOf(t) \in Promise!JobState
  BY DEF TypeOK, Row, JobStateOf, IsEnded, Terminal, Active, Promise!JobState, Promise!Unended

\* A batch is open exactly while one of its jobs has not ended.
LEMMA OpenAsWork ==
    TypeOK /\ Accounted =>
        \A r \in Request :
            batch[r].status = "processing" <=>
                \E t \in Promise!JobsOf(r) : JobStateOf(t) \in Promise!Unended
  <1> SUFFICES ASSUME TypeOK, Accounted, NEW r \in Request
               PROVE  batch[r].status = "processing" <=>
                         \E t \in Promise!JobsOf(r) : JobStateOf(t) \in Promise!Unended
    OBVIOUS
  <1>1. Promise!JobsOf(r) = {t \in Task : t[1] = r}
    BY DEF Promise!JobsOf
  <1>2. \A t \in Task : row[t].status \in {"absent"} \cup Active \cup Terminal
    BY DEF TypeOK, Row
  <1>3. \A t \in Task :
           t[1] = r => (JobStateOf(t) \in Promise!Unended <=> t \in Made(r) \ Done(r))
    BY <1>2, Statuses DEF JobStateOf, Promise!Unended, Made, Done, Exists, IsEnded, Active
  <1>4. Made(r) \subseteq {t \in Task : t[1] = r} /\ Done(r) \subseteq Made(r)
    BY Countable DEF Made
  <1>5. batch[r].status \in {"none", "processing", "completed"}
    BY DEF TypeOK, Batch
  <1>6. CASE batch[r].status = "none"
    BY <1>1, <1>3, <1>6 DEF Accounted, Account
  <1>7. CASE batch[r].status # "none"
    <2>1. batch[r].status = "completed" <=> Done(r) = Made(r)
      BY <1>7, Countable DEF Accounted, Account
    <2> QED
      BY <1>1, <1>3, <1>4, <1>5, <1>7, <2>1
  <1> QED
    BY <1>6, <1>7

\* Every step of the tasks is a step of Jobs.
LEMMA PromiseStep ==
    ASSUME TypeOK, TypeOK', Numbered, Fenced, Accounted', [Next]_vars
    PROVE  Promise!Next
  <1>1. \A t \in Task : JobStateOf(t)' \in Promise!JobState
    <2>1. (\A t \in Task : JobStateOf(t) \in Promise!JobState)'
      BY JobStateType, PTL
    <2> QED
      BY <2>1
  <1>2. Promise!OpenFollows
    <2>1. (\A r \in Request :
              batch[r].status = "processing" <=>
                  \E t \in Promise!JobsOf(r) : JobStateOf(t) \in Promise!Unended)'
      BY OpenAsWork, PTL
    <2>2. \A r \in Request : Promise!JobsOf(r) \subseteq Task
      BY DEF Promise!JobsOf
    <2> QED
      BY <2>1, <2>2 DEF Promise!OpenFollows, JobStateOf
  <1>3. \A r \in Request : Promise!JobsOf(r) = {t \in Task : t[1] = r}
    BY DEF Promise!JobsOf
  <1>4. ASSUME NEW q \in Requester, CommitAccept(q)
        PROVE  Promise!End \/ \E r \in Request : Promise!Submit(r)
    <2>1. ASSUME NEW t \in Task, t[1] # last + 1
          PROVE  Promise!EndsOrStays(t)
      <3>1. row'[t] = row[t]
        BY <1>4, <2>1, CommitStep
      <3> QED
        BY <3>1 DEF Promise!EndsOrStays, Promise!Stays, IsEnded
    <2>2. ASSUME NEW t \in Task, t[1] = last + 1
          PROVE  JobStateOf(t) = "absent" /\ JobStateOf(t)' \in {"absent", "pending"}
      <3>1. row[t].status = "absent" /\ row'[t].status \in {"absent", "pending"}
        BY <1>4, <2>2, CommitStep
      <3> QED
        BY <3>1 DEF JobStateOf, IsEnded, Terminal
    <2>3. ASSUME NEW r \in Request, r = last + 1
          PROVE  Promise!Submit(r)
      BY <1>3, <2>1, <2>2, <2>3 DEF Promise!Submit, JobStateOf
    <2>4. CASE last + 1 \notin Request
      BY <2>1, <2>4, TaskParts DEF Promise!End
    <2> QED
      BY <2>3, <2>4
  <1>5. ASSUME NEW w \in Worker, NEW t \in Task, Claim(w, t)
        PROVE  Promise!Start(t)
    <2>1. /\ row[t].status = "pending"
          /\ \A u \in Task : row'[u].status = IF u = t THEN "running" ELSE row[u].status
      BY <1>5, ClaimStep
    <2>2. JobStateOf(t) = "pending" /\ JobStateOf(t)' = "running"
      BY <2>1 DEF JobStateOf, IsEnded, Terminal
    <2>3. \A u \in Task \ {t} : JobStateOf(u)' = JobStateOf(u)
      BY <2>1 DEF JobStateOf, IsEnded
    <2> QED
      BY <2>2, <2>3 DEF Promise!Start, Promise!Stays, JobStateOf
  <1>6. ASSUME NEW S, EndsAll(S)
        PROVE  Promise!End
    <2> SUFFICES ASSUME NEW t \in Task
                 PROVE  Promise!EndsOrStays(t)
      BY DEF Promise!End
    <2>1. row'[t].status = row[t].status \/ (IsActive(t) /\ row'[t].status \in Terminal)
      BY <1>6 DEF EndsAll
    <2>2. CASE row'[t].status = row[t].status
      BY <2>2 DEF Promise!EndsOrStays, Promise!Stays, IsEnded
    <2>3. CASE IsActive(t) /\ row'[t].status \in Terminal
      <3>1. JobStateOf(t) \in Promise!Unended
        BY <2>3, Statuses DEF JobStateOf, IsEnded, IsActive, Active, Promise!Unended
      <3>2. JobStateOf(t)' = "ended"
        BY <2>3 DEF JobStateOf, IsEnded
      <3> QED
        BY <3>1, <3>2 DEF Promise!EndsOrStays, JobStateOf
    <2> QED
      BY <2>1, <2>2, <2>3
  <1>7. \/ \E r \in Request : Promise!Submit(r)
        \/ \E t \in Task : Promise!Start(t)
        \/ Promise!End
    BY <1>4, <1>5, <1>6, StepKind
  <1> QED
    BY <1>1, <1>2, <1>7 DEF Promise!Next, JobStateOf

\* The semantic tasks implement Jobs: tasks start once and end once, and a batch is open
\* exactly while it has work, whoever ends its tasks.
THEOREM Refinement == Spec => KeepsPromise
  <1>1. Init => Promise!Init
    <2> SUFFICES ASSUME Init
                 PROVE  Promise!Init
      OBVIOUS
    <2>1. \A t \in Task : row[t].status = "absent" /\ ~IsEnded(t)
      BY DEF Init, AbsentRow, IsEnded, Terminal
    <2>2. \A r \in Request : batch[r].status # "processing"
      BY DEF Init, NoBatch
    <2> QED
      BY <2>1, <2>2 DEF Promise!Init
  <1>2. IInv /\ IInv' /\ [Next]_vars => Promise!Next
    BY PromiseStep DEF IInv
  <1> QED
    BY <1>1, <1>2, Invariance, PTL DEF Spec, KeepsPromise, Promise!Spec

=============================================================================
