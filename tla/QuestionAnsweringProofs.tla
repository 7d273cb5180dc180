----------------------- MODULE QuestionAnsweringProofs -----------------------
(***************************************************************************)
(* Theorems about the parts of QuestionAnswering, for any number of        *)
(* workers, attempts, turns, sub-queries and steps.                        *)
(***************************************************************************)
EXTENDS QuestionAnswering, FiniteSetTheorems, SequenceTheorems, WellFoundedInduction, TLAPS

\* A step is one of the part that runs, or changes nothing of it; which part that is stays.
LEMMA PartSteps ==
    ASSUME [Next]_vars
    PROVE  /\ part' = part
           /\ part = "setup" =>
                 Setup!Next \/ UNCHANGED <<made, recorded, proc, starts, died>>
           /\ part = "thread" =>
                 Thread!Next \/ UNCHANGED <<entry, users, holder, saved, turn, began>>
           /\ part = "agent" =>
                 Agent!Next \/ UNCHANGED <<at, remaining, messages, pending, step, hits,
                                           counter, fallback>>
           /\ part = "history" =>
                 History!Next \/ UNCHANGED <<row, run, seq, answered, ended>>
  <1>1. CASE UNCHANGED vars
    BY <1>1 DEF vars
  <1>2. CASE Next
    BY <1>2 DEF Next, Only
  <1> QED
    BY <1>1, <1>2

-----------------------------------------------------------------------------
(* The setup of the checkpoint tables.                                     *)

Versions == 1 .. 4

\* The migrations: two with IF NOT EXISTS, one that looks for its column, one index.
LEMMA Migrations ==
    /\ Setup!Version = Versions
    /\ \A v \in Versions :
          /\ Setup!Kind[v] = "column" <=> v = 2
          /\ Setup!Kind[v] = "index" <=> v = 4
          /\ Setup!Kind[v] = "guarded" <=> v \in {1, 3}
  BY DEF Setup!Version, Setup!Kind, Versions

SetupTypeOK ==
    /\ made \subseteq Versions
    /\ recorded \subseteq made
    /\ proc \in [Worker -> [at : Setup!At, v : Nat, attempt : Nat]]

\* Versions are recorded in their order.
InOrder == \A v \in recorded : \A x \in Versions : x < v => x \in recorded

\* A worker is at the first version it does not know recorded; when it records one, the
\* statement was executed.
Placed(w) ==
    LET p == proc[w] IN
    /\ p.at \in {"run", "add", "record"} =>
          /\ p.v \in Versions
          /\ \A x \in Versions : x < p.v => x \in recorded
    /\ p.at = "add" => p.v = 2
    /\ p.at = "record" => p.v \in made
    /\ p.at = "up" => recorded = Versions

\* Nothing another worker did is in the way of this one.
Fresh(w) ==
    LET p == proc[w] IN
    \/ p.at \in {"off", "read", "up"}
    \/ /\ p.at \in {"run", "add", "record"} /\ p.v \notin recorded
       /\ p.at = "add" \/ (p.at = "run" /\ p.v = 4) => p.v \notin made

\* Unless a worker died between the index and its record: the index that is not recorded has
\* a worker that is about to record it, and there is always one that nothing is in the way of.
Leading ==
    \/ died
    \/ /\ \E w \in Worker : Fresh(w)
       /\ 4 \in made \ recorded => \E w \in Worker : proc[w].at = "record" /\ proc[w].v = 4

SetupInv == SetupTypeOK /\ InOrder /\ (\A w \in Worker : Placed(w)) /\ Leading

\* The newest of versions that were recorded in order: those up to it, and no others.
LEMMA NewestRecorded ==
    ASSUME SetupTypeOK, InOrder
    PROVE  /\ Setup!Newest(recorded) \in 0 .. 4
           /\ recorded = 1 .. Setup!Newest(recorded)
  <1> DEFINE Top(v) == v \in recorded \cup {0} /\ \A x \in recorded : x <= v
  <1>1. \E v \in 0 .. 4 : Top(v)
    BY DEF SetupTypeOK, InOrder, Versions
  <1>2. Top(Setup!Newest(recorded))
    BY <1>1 DEF Setup!Newest, SetupTypeOK, Versions
  <1> DEFINE n == Setup!Newest(recorded)
  <1> HIDE DEF n
  <1>3. n \in recorded \cup {0} /\ \A x \in recorded : x <= n /\ x \in 1 .. 4
    BY <1>2 DEF SetupTypeOK, Versions, n
  <1>4. \A x \in 1 .. n : x \in recorded
    BY <1>3 DEF InOrder, Versions
  <1>5. n \in 0 .. 4
    BY <1>3
  <1>6. \A x \in recorded : x \in 1 .. n
    BY <1>3, <1>5
  <1>7. n \in 0 .. 4 /\ recorded = 1 .. n
    BY <1>4, <1>5, <1>6
  <1> QED
    BY <1>7 DEF n

\* A worker that goes on after v is at the next version, or up.
LEMMA OnwardTo ==
    ASSUME NEW w \in Worker, NEW v \in 0 .. 4, SetupTypeOK, Setup!Onward(w, v)
    PROVE  /\ proc' \in [Worker -> [at : Setup!At, v : Nat, attempt : Nat]]
           /\ proc'[w].v = v + 1
           /\ v = 4 => proc'[w].at = "up"
           /\ v # 4 => proc'[w].at = "run"
           /\ \A u \in Worker \ {w} : proc'[u] = proc[u]
  <1> DEFINE a == IF v + 1 \in Versions THEN "run" ELSE "up"
  <1>1. proc' = [proc EXCEPT ![w] = [@ EXCEPT !.v = v + 1, !.at = a]]
    BY Migrations DEF Setup!Onward, SetupTypeOK
  <1>2. a \in Setup!At /\ (v = 4 => a = "up") /\ (v # 4 => a = "run")
    BY DEF Versions, Setup!At
  <1> HIDE DEF a
  <1>3. v + 1 \in Nat
    OBVIOUS
  <1>4. \A u \in Worker : proc[u] \in [at : Setup!At, v : Nat, attempt : Nat]
    BY DEF SetupTypeOK
  <1>5. proc'[w] = [proc[w] EXCEPT !.v = v + 1, !.at = a]
    BY <1>1 DEF SetupTypeOK
  <1>6. /\ proc'[w].v = v + 1 /\ proc'[w].at = a
        /\ proc'[w] \in [at : Setup!At, v : Nat, attempt : Nat]
    BY <1>2, <1>3, <1>4, <1>5
  <1>7. DOMAIN proc' = Worker /\ \A u \in Worker \ {w} : proc'[u] = proc[u]
    BY <1>1 DEF SetupTypeOK
  <1>8. proc' \in [Worker -> [at : Setup!At, v : Nat, attempt : Nat]]
    BY <1>1, <1>4, <1>6, <1>7
  <1> QED
    BY <1>2, <1>6, <1>7, <1>8

\* A worker that fails reads again or gives up.
LEMMA FailsTo ==
    ASSUME NEW w \in Worker, SetupTypeOK, Setup!Fails(w)
    PROVE  /\ proc' \in [Worker -> [at : Setup!At, v : Nat, attempt : Nat]]
           /\ proc'[w].at \in {"read", "raised"}
           /\ \A u \in Worker \ {w} : proc'[u] = proc[u]
  BY DEF Setup!Fails, SetupTypeOK, Setup!At

\* A worker changes its place only.
LEMMA GoesTo ==
    ASSUME NEW w \in Worker, NEW a \in Setup!At, SetupTypeOK, Setup!Goes(w, a)
    PROVE  /\ proc' \in [Worker -> [at : Setup!At, v : Nat, attempt : Nat]]
           /\ proc'[w].at = a /\ proc'[w].v = proc[w].v
           /\ \A u \in Worker \ {w} : proc'[u] = proc[u]
  BY DEF Setup!Goes, SetupTypeOK

\* What an execution of a migration does, by its version.
LEMMA RunDoes ==
    ASSUME NEW w \in Worker, NEW v \in 1 .. 4, proc[w].v = v, Setup!Run(w)
    PROVE  /\ v = 4 /\ v \in made => Setup!Fails(w) /\ made' = made
           /\ v = 2 /\ v \notin made => Setup!Goes(w, "add") /\ made' = made
           /\ ~(v = 4 /\ v \in made) /\ ~(v = 2 /\ v \notin made) =>
                 Setup!Goes(w, "record") /\ made' = made \cup {v}
  <1>1. CASE v = 1 \/ v = 3
    <2>1. Setup!Kind[v] = "guarded"
      BY <1>1 DEF Setup!Kind
    <2> QED
      BY <1>1, <2>1 DEF Setup!Run
  <1>2. CASE v = 2
    <2>1. Setup!Kind[v] = "column"
      BY <1>2 DEF Setup!Kind
    <2>2. made' = made /\ Setup!Goes(w, IF v \in made THEN "record" ELSE "add")
      BY <2>1 DEF Setup!Run, Setup!Exists
    <2>3. CASE v \in made
      <3>1. made \cup {v} = made
        BY <2>3
      <3> QED
        BY <1>2, <2>2, <2>3, <3>1
    <2>4. CASE v \notin made
      BY <1>2, <2>2, <2>4
    <2> QED
      BY <2>3, <2>4
  <1>3. CASE v = 4
    <2>1. Setup!Kind[v] = "index"
      BY <1>3 DEF Setup!Kind
    <2> QED
      BY <1>3, <2>1 DEF Setup!Run
  <1> QED
    BY <1>1, <1>2, <1>3

LEMMA SetupStep ==
    ASSUME SetupInv, Setup!Next
    PROVE  SetupInv'
  <1> USE Migrations DEF Versions
  <1>0. PICK w \in Worker : \/ Setup!Start(w) \/ Setup!Read(w) \/ Setup!Run(w) \/ Setup!Add(w)
                            \/ Setup!Record(w) \/ Setup!Crash(w)
    BY DEF Setup!Next
  <1>1. CASE Setup!Start(w)
    <2>1. /\ proc' \in [Worker -> [at : Setup!At, v : Nat, attempt : Nat]]
          /\ proc'[w].at = "read"
          /\ \A u \in Worker \ {w} : proc'[u] = proc[u]
          /\ proc[w].at \in {"off", "raised"}
          /\ made' = made /\ recorded' = recorded /\ died' = died
      BY <1>1 DEF Setup!Start, SetupInv, SetupTypeOK, Setup!At
    <2> QED
      BY <2>1 DEF SetupInv, SetupTypeOK, InOrder, Placed, Fresh, Leading
  <1>2. CASE Setup!Read(w)
    <2> DEFINE n == Setup!Newest(recorded)
    <2>1. n \in 0 .. 4 /\ recorded = 1 .. n
      BY NewestRecorded DEF SetupInv
    <2>2. Setup!Onward(w, n) /\ made' = made /\ recorded' = recorded /\ died' = died
          /\ proc[w].at = "read"
      BY <1>2 DEF Setup!Read
    <2> HIDE DEF n
    <2>3. /\ proc' \in [Worker -> [at : Setup!At, v : Nat, attempt : Nat]]
          /\ proc'[w].v = n + 1
          /\ n = 4 => proc'[w].at = "up"
          /\ n # 4 => proc'[w].at = "run"
          /\ \A u \in Worker \ {w} : proc'[u] = proc[u]
      BY <2>1, <2>2, OnwardTo DEF SetupInv
    <2>4. SetupTypeOK' /\ InOrder' /\ \A u \in Worker : Placed(u)'
      BY <2>1, <2>2, <2>3 DEF SetupInv, SetupTypeOK, InOrder, Placed
    <2>5. ASSUME ~died, 4 \in made \ recorded
          PROVE  \E u \in Worker \ {w} : proc'[u].at = "record" /\ proc'[u].v = 4
      BY <2>2, <2>3, <2>5 DEF SetupInv, Leading
    <2>6. ASSUME ~died, 4 \notin made \ recorded
          PROVE  Fresh(w)'
      BY <2>1, <2>2, <2>3, <2>6 DEF Fresh
    <2>7. Leading'
      BY <2>2, <2>5, <2>6 DEF Leading, Fresh
    <2> QED
      BY <2>4, <2>7 DEF SetupInv
  <1>3. CASE Setup!Run(w)
    <2> DEFINE v == proc[w].v
    <2>1. proc[w].at = "run" /\ v \in 1 .. 4 /\ recorded' = recorded /\ died' = died
          /\ \A x \in Versions : x < v => x \in recorded
      BY <1>3 DEF Setup!Run, SetupInv, Placed
    <2>2. CASE v = 4 /\ v \in made
      <3>1. Setup!Fails(w) /\ made' = made
        BY <1>3, <2>1, <2>2, RunDoes
      <3>2. /\ proc' \in [Worker -> [at : Setup!At, v : Nat, attempt : Nat]]
            /\ proc'[w].at \in {"read", "raised"}
            /\ \A u \in Worker \ {w} : proc'[u] = proc[u]
        BY <3>1, FailsTo DEF SetupInv
      <3>3. ~Fresh(w)
        BY <2>1, <2>2 DEF Fresh
      <3>4. Leading'
        BY <2>1, <3>1, <3>2, <3>3 DEF SetupInv, Leading, Fresh
      <3> QED
        BY <2>1, <3>1, <3>2, <3>4 DEF SetupInv, SetupTypeOK, InOrder, Placed
    <2>3. CASE v = 2 /\ v \notin made
      <3>1. Setup!Goes(w, "add") /\ made' = made
        BY <1>3, <2>1, <2>3, RunDoes
      <3>2. /\ proc' \in [Worker -> [at : Setup!At, v : Nat, attempt : Nat]]
            /\ proc'[w].at = "add" /\ proc'[w].v = v
            /\ \A u \in Worker \ {w} : proc'[u] = proc[u]
        BY <3>1, GoesTo DEF SetupInv, Setup!At
      <3>3. Fresh(w)'
        BY <2>1, <2>3, <3>1, <3>2 DEF Fresh, SetupInv, SetupTypeOK
      <3>4. Leading'
        BY <2>1, <3>1, <3>2, <3>3 DEF SetupInv, Leading
      <3> QED
        BY <2>1, <2>3, <3>1, <3>2, <3>4 DEF SetupInv, SetupTypeOK, InOrder, Placed
    <2>4. CASE ~(v = 4 /\ v \in made) /\ ~(v = 2 /\ v \notin made)
      <3>1. Setup!Goes(w, "record") /\ made' = made \cup {v}
        BY <1>3, <2>1, <2>4, RunDoes
      <3>2. /\ proc' \in [Worker -> [at : Setup!At, v : Nat, attempt : Nat]]
            /\ proc'[w].at = "record" /\ proc'[w].v = v
            /\ \A u \in Worker \ {w} : proc'[u] = proc[u]
        BY <3>1, GoesTo DEF SetupInv, Setup!At
      <3>3. Fresh(w) => Fresh(w)'
        BY <2>1, <3>1, <3>2 DEF Fresh
      <3>4. v = 4 => Fresh(w)'
        BY <2>1, <2>4, <3>1, <3>2 DEF Fresh, SetupInv, SetupTypeOK
      <3>5. v # 4 => \A u \in Worker \ {w} : Placed(u) /\ Fresh(u) => Fresh(u)'
        <4> SUFFICES ASSUME v # 4, NEW u \in Worker \ {w}, Placed(u), Fresh(u)
                     PROVE  Fresh(u)'
          OBVIOUS
        <4>1. proc'[u] = proc[u]
          BY <3>2
        <4>2. v = 2 => v \in made
          BY <2>4
        <4> QED
          BY <2>1, <3>1, <4>1, <4>2 DEF Fresh, Placed
      <3>6. Leading'
        BY <2>1, <3>1, <3>2, <3>3, <3>4, <3>5 DEF SetupInv, Leading
      <3>7. SetupTypeOK' /\ InOrder'
        BY <2>1, <3>1, <3>2 DEF SetupInv, SetupTypeOK, InOrder
      <3>8. Placed(w)'
        BY <2>1, <3>1, <3>2 DEF Placed
      <3>9. \A u \in Worker \ {w} : Placed(u)'
        BY <2>1, <3>1, <3>2 DEF SetupInv, Placed
      <3> QED
        BY <3>6, <3>7, <3>8, <3>9 DEF SetupInv
    <2> QED
      BY <2>2, <2>3, <2>4
  <1>4. CASE Setup!Add(w)
    <2>1. proc[w].at = "add" /\ proc[w].v = 2 /\ recorded' = recorded /\ died' = died
          /\ 1 \in recorded
      BY <1>4 DEF Setup!Add, SetupInv, Placed
    <2>2. CASE 2 \in made
      <3>1. Setup!Fails(w) /\ made' = made
        BY <1>4, <2>1, <2>2 DEF Setup!Add
      <3>2. /\ proc' \in [Worker -> [at : Setup!At, v : Nat, attempt : Nat]]
            /\ proc'[w].at \in {"read", "raised"}
            /\ \A u \in Worker \ {w} : proc'[u] = proc[u]
        BY <3>1, FailsTo DEF SetupInv
      <3>3. ~Fresh(w)
        BY <2>1, <2>2 DEF Fresh
      <3>4. Leading'
        BY <2>1, <3>1, <3>2, <3>3 DEF SetupInv, Leading, Fresh
      <3> QED
        BY <2>1, <3>1, <3>2, <3>4 DEF SetupInv, SetupTypeOK, InOrder, Placed
    <2>3. CASE 2 \notin made
      <3>1. Setup!Goes(w, "record") /\ made' = made \cup {2}
        BY <1>4, <2>1, <2>3 DEF Setup!Add
      <3>2. /\ proc' \in [Worker -> [at : Setup!At, v : Nat, attempt : Nat]]
            /\ proc'[w].at = "record" /\ proc'[w].v = 2
            /\ \A u \in Worker \ {w} : proc'[u] = proc[u]
        BY <2>1, <3>1, GoesTo DEF SetupInv, Setup!At
      <3>3. Fresh(w)'
        BY <2>1, <2>3, <3>1, <3>2 DEF Fresh, SetupInv, SetupTypeOK
      <3>4. Leading'
        BY <2>1, <3>1, <3>2, <3>3 DEF SetupInv, Leading
      <3> QED
        BY <2>1, <3>1, <3>2, <3>4 DEF SetupInv, SetupTypeOK, InOrder, Placed
    <2> QED
      BY <2>2, <2>3
  <1>5. CASE Setup!Record(w)
    <2> DEFINE v == proc[w].v
    <2>1. proc[w].at = "record" /\ v \in 1 .. 4 /\ made' = made /\ died' = died /\ v \in made
          /\ \A x \in Versions : x < v => x \in recorded
      BY <1>5 DEF Setup!Record, SetupInv, Placed
    <2>2. CASE v \in recorded
      <3>1. Setup!Fails(w) /\ recorded' = recorded
        BY <1>5, <2>2 DEF Setup!Record
      <3>2. /\ proc' \in [Worker -> [at : Setup!At, v : Nat, attempt : Nat]]
            /\ proc'[w].at \in {"read", "raised"}
            /\ \A u \in Worker \ {w} : proc'[u] = proc[u]
        BY <3>1, FailsTo DEF SetupInv
      <3>3. ~Fresh(w)
        BY <2>1, <2>2 DEF Fresh
      <3>4. Leading'
        BY <2>1, <2>2, <3>1, <3>2, <3>3 DEF SetupInv, Leading, Fresh
      <3> QED
        BY <2>1, <3>1, <3>2, <3>4 DEF SetupInv, SetupTypeOK, InOrder, Placed
    <2>3. CASE v \notin recorded
      <3>1. Setup!Onward(w, v) /\ recorded' = recorded \cup {v}
        BY <1>5, <2>3 DEF Setup!Record
      <3>2. /\ proc' \in [Worker -> [at : Setup!At, v : Nat, attempt : Nat]]
            /\ proc'[w].v = v + 1
            /\ v = 4 => proc'[w].at = "up"
            /\ v # 4 => proc'[w].at = "run"
            /\ \A u \in Worker \ {w} : proc'[u] = proc[u]
        BY <2>1, <3>1, OnwardTo DEF SetupInv
      <3>3. v + 1 \notin recorded
        BY <2>1, <2>3 DEF SetupInv, InOrder, SetupTypeOK
      <3>4. ASSUME ~died, v = 3
            PROVE  4 \notin made
        <4>1. \A u \in Worker : ~(proc[u].at = "record" /\ proc[u].v = 4)
          BY <2>3, <3>4 DEF SetupInv, Placed
        <4> QED
          BY <2>1, <3>3, <3>4, <4>1 DEF SetupInv, Leading
      <3>5. ASSUME ~died
            PROVE  Fresh(w)'
        BY <2>1, <3>1, <3>2, <3>3, <3>4, <3>5 DEF Fresh
      <3>6. ASSUME ~died, 4 \in made \ recorded'
            PROVE  \E u \in Worker : proc'[u].at = "record" /\ proc'[u].v = 4
        <4>1. PICK u \in Worker : proc[u].at = "record" /\ proc[u].v = 4
          BY <3>1, <3>6 DEF SetupInv, Leading
        <4>2. u # w
          BY <3>1, <3>6, <4>1
        <4> QED
          BY <3>2, <4>1, <4>2
      <3>7. Leading'
        BY <2>1, <3>5, <3>6 DEF Leading
      <3>8. SetupTypeOK' /\ InOrder'
        <4>1. SetupTypeOK'
          BY <2>1, <3>1, <3>2 DEF SetupInv, SetupTypeOK
        <4>2. InOrder'
          BY <2>1, <3>1 DEF SetupInv, InOrder
        <4> QED
          BY <4>1, <4>2
      <3>9. Placed(w)'
        <4>1. v = 4 => recorded' = 1 .. 4
          <5>1. recorded \subseteq 1 .. 4
            BY DEF SetupInv, SetupTypeOK
          <5>2. v = 4 => {1, 2, 3} \subseteq recorded
            BY <2>1
          <5>3. v = 4 => recorded' \subseteq 1 .. 4 /\ {1, 2, 3, 4} \subseteq recorded'
            BY <3>1, <5>1, <5>2
          <5> QED
            BY <5>3
        <4> QED
          BY <2>1, <3>1, <3>2, <4>1 DEF Placed
      <3>10. ASSUME NEW u \in Worker \ {w}
             PROVE  Placed(u)'
        <4>1. Placed(u) /\ proc'[u] = proc[u] /\ recorded \subseteq recorded'
          BY <3>1, <3>2 DEF SetupInv
        <4>2. recorded = Versions => recorded' = Versions
          BY <2>1, <3>1
        <4> QED
          BY <2>1, <4>1, <4>2 DEF Placed
      <3> QED
        BY <3>7, <3>8, <3>9, <3>10 DEF SetupInv
    <2> QED
      BY <2>2, <2>3
  <1>6. CASE Setup!Crash(w)
    <2>1. /\ Setup!Goes(w, "off") /\ made' = made /\ recorded' = recorded
          /\ died' = (died \/ (proc[w].at = "record" /\ Setup!Kind[proc[w].v] = "index"))
      BY <1>6 DEF Setup!Crash
    <2>2. /\ proc' \in [Worker -> [at : Setup!At, v : Nat, attempt : Nat]]
          /\ proc'[w].at = "off"
          /\ \A u \in Worker \ {w} : proc'[u] = proc[u]
      BY <2>1, GoesTo DEF SetupInv, Setup!At
    <2>3. died => died'
      BY <2>1
    <2>4. ASSUME proc[w].at = "record", proc[w].v = 4
          PROVE  died'
      <3>1. Setup!Kind[4] = "index"
        BY DEF Setup!Kind
      <3> QED
        BY <2>1, <2>4, <3>1
    <2>5. Fresh(w)'
      BY <2>2 DEF Fresh
    <2>6. Leading'
      BY <2>1, <2>2, <2>3, <2>4, <2>5 DEF SetupInv, Leading
    <2> QED
      BY <2>1, <2>2, <2>6 DEF SetupInv, SetupTypeOK, InOrder, Placed
  <1> QED
    BY <1>0, <1>1, <1>2, <1>3, <1>4, <1>5, <1>6

\* The workers start with nothing made, and every one of them may go first.
LEMMA SetupInit == ASSUME Init PROVE SetupInv
  <1>1. SetupTypeOK
    BY DEF Init, Setup!Init, SetupTypeOK, Setup!At
  <1>2. InOrder /\ \A w \in Worker : Placed(w)
    BY DEF Init, Setup!Init, InOrder, Placed
  <1>3. Leading
    BY QuestionAnsweringAssumption DEF Init, Setup!Init, Leading, Fresh
  <1> QED
    BY <1>1, <1>2, <1>3 DEF SetupInv

\* The invariant of the setup is kept by every step of the composition.
LEMMA SetupKept == Spec => [](part = "setup" => SetupInv)
  <1>1. Init => (part = "setup" => SetupInv)
    BY SetupInit
  <1>2. (part = "setup" => SetupInv) /\ [Next]_vars => (part = "setup" => SetupInv)'
    <2> SUFFICES ASSUME [Next]_vars, part = "setup", SetupInv
                 PROVE  SetupInv'
      BY PartSteps
    <2>1. CASE Setup!Next
      BY <2>1, SetupStep
    <2>2. CASE UNCHANGED <<made, recorded, proc, starts, died>>
      BY <2>2 DEF SetupInv, SetupTypeOK, InOrder, Placed, Leading, Fresh
    <2> QED
      BY <2>1, <2>2, PartSteps
  <1> QED
    BY <1>1, <1>2, PTL DEF Spec

\* A worker of OpenGaussSaver.setup that is up finds the objects of every version made, and the
\* versions are recorded without a gap, each after its statement.
THEOREM SetupIsComplete == Spec => []SetupComplete
  <1>1. (part = "setup" => SetupInv) => SetupComplete
    BY Migrations DEF SetupInv, SetupTypeOK, InOrder, Placed, SetupComplete, Setup!Complete
  <1> QED
    BY <1>1, SetupKept, PTL

\* The workers of OpenGaussSaver.setup all give up only after one died between the index and its
\* record: at every moment before, there is one that no other worker's step is in the way of.
THEOREM SomeoneGetsThrough == Spec => []SomeoneFinishes
  <1>1. (part = "setup" => SetupInv) => SomeoneFinishes
    BY DEF SetupInv, Leading, Fresh, SomeoneFinishes, Setup!SomeoneFinishes
  <1> QED
    BY <1>1, SetupKept, PTL

-----------------------------------------------------------------------------
(* The agent's loop and its steps.                                         *)

\* Every node is reached with the steps that the nodes after it take.
StepsLeft ==
    /\ remaining \in Nat
    /\ at \in {"start", "before", "model", "tools", "ended", "failed"}
    /\ at = "start" => remaining = Limit
    /\ at = "model" => remaining >= 2
    /\ at = "tools" => remaining >= 1

LEMMA StepsLeftStep ==
    ASSUME StepsLeft, Agent!Next
    PROVE  StepsLeft'
  <1>1. ASSUME NEW left \in Limit - 2 .. Limit, Agent!Begin(left)
        PROVE  StepsLeft'
    BY <1>1, QuestionAnsweringAssumption DEF StepsLeft, Agent!Begin
  <1>2. CASE Agent!Before
    BY <1>2 DEF StepsLeft, Agent!Before, Agent!Exhausted, Agent!Goes
  <1>3. CASE Agent!Stop \/ Agent!ModelFails
    BY <1>3 DEF StepsLeft, Agent!Stop, Agent!ModelFails
  <1>4. ASSUME NEW calls, Agent!Call(calls)
        PROVE  StepsLeft'
    BY <1>4 DEF StepsLeft, Agent!Call, Agent!Goes
  <1>5. ASSUME NEW i, NEW n, Agent!Other(i) \/ Agent!Search(i, n)
        PROVE  StepsLeft'
    BY <1>5 DEF StepsLeft, Agent!Other, Agent!Search
  <1>6. CASE Agent!Apply
    <2>1. /\ at = "tools"
          /\ \/ at' = "failed" /\ remaining' = remaining
             \/ at' = "ended" /\ remaining' = remaining
             \/ Agent!Goes("before")
      BY <1>6, Zenon DEF Agent!Apply
    <2> QED
      BY <2>1 DEF StepsLeft, Agent!Goes
  <1> QED
    BY <1>1, <1>2, <1>3, <1>4, <1>5, <1>6 DEF Agent!Next

\* before_model leaves for the fallback in time: the graph of the worker never raises for want
\* of steps, for any limit that leaves one for the nodes before the loop.
THEOREM NeverOutOfSteps == Spec => []NeverRaised
  <1>1. Init => (part = "agent" => StepsLeft)
    BY QuestionAnsweringAssumption DEF Init, Agent!Init, StepsLeft
  <1>2. (part = "agent" => StepsLeft) /\ [Next]_vars => (part = "agent" => StepsLeft)'
    <2> SUFFICES ASSUME [Next]_vars, part = "agent", StepsLeft
                 PROVE  StepsLeft'
      BY PartSteps
    <2>1. CASE Agent!Next
      BY <2>1, StepsLeftStep
    <2>2. CASE UNCHANGED <<at, remaining, messages, pending, step, hits, counter, fallback>>
      BY <2>2 DEF StepsLeft
    <2> QED
      BY <2>1, <2>2, PartSteps
  <1>3. (part = "agent" => StepsLeft) => NeverRaised
    BY DEF StepsLeft, NeverRaised, Agent!NeverRaised
  <1> QED
    BY <1>1, <1>2, <1>3, PTL DEF Spec

-----------------------------------------------------------------------------
(* The names of what an agent found.                                       *)

\* An index_id that was reserved in its step, by the counters c.
Named(c, x) == x = <<x[1], x[2]>> /\ x[1] \in 0 .. Limit /\ x[2] \in 1 .. c[x[1]]

\* What is found and what is being found carries names of its own.
NamesApart ==
    /\ counter \in [0 .. Limit -> Nat]
    /\ \A r \in hits : Named(counter, r.index_id)
    /\ \A i \in DOMAIN pending : \A k \in DOMAIN pending[i].found :
           /\ Named(counter, pending[i].found[k])
           /\ \A r \in hits : r.index_id # pending[i].found[k]
    /\ \A i, j \in DOMAIN pending :
           \A k \in DOMAIN pending[i].found, l \in DOMAIN pending[j].found :
               pending[i].found[k] = pending[j].found[l] => i = j /\ k = l
    /\ Agent!EvidenceNamed

\* There are no more hops than steps of the graph.
HopsLeft == step \in Nat /\ step + remaining <= Limit /\ IsFiniteSet(DOMAIN pending)

EvidenceInv == StepsLeft /\ HopsLeft /\ NamesApart

LEMMA NamedPair ==
    ASSUME NEW c, NEW s, NEW k
    PROVE  Named(c, <<s, k>>) <=> s \in 0 .. Limit /\ k \in 1 .. c[s]
  BY DEF Named

\* A hop is one at most, and takes a step of the graph.
LEMMA HopsOf ==
    ASSUME EvidenceInv, Agent!Apply
    PROVE  /\ at' # "failed" => Agent!Hops \in {0, 1} /\ step' = step + Agent!Hops
           /\ at' = "ended" => Agent!Hops = 0
  <1> DEFINE hops == {i \in DOMAIN pending : Agent!Latest.calls[i] = "next_hop"}
  <1>1. IsFiniteSet(hops)
    BY FS_Subset DEF EvidenceInv, HopsLeft
  <1>2. Cardinality(hops) \in Nat
    BY <1>1, FS_CardinalityType
  <1>3. Agent!Hops = Cardinality(hops)
    BY Zenon DEF Agent!Hops, Agent!Cardinality, Cardinality
  <1>4. ASSUME at' # "failed"
        PROVE  Agent!Hops <= 1 /\ step' = step + Agent!Hops
    BY <1>2, <1>3, <1>4 DEF Agent!Apply
  <1>5. ASSUME at' = "ended"
        PROVE  Agent!Hops = 0
    <2>1. Agent!Final
      BY <1>5, Zenon DEF Agent!Apply, Agent!Goes
    <2>2. hops = {}
      BY <2>1 DEF Agent!Final
    <2> QED
      BY <2>2, <1>3, FS_EmptySet
  <1> QED
    BY <1>2, <1>3, <1>4, <1>5

LEMMA Fewer == \A a, b, c, d \in Nat : a + b <= d /\ c <= b => a + c <= d
  OBVIOUS

LEMMA EvidenceStep ==
    ASSUME EvidenceInv, Agent!Next
    PROVE  EvidenceInv'
  <1> Limit \in Nat
    BY QuestionAnsweringAssumption
  <1>0. StepsLeft'
    BY StepsLeftStep DEF EvidenceInv
  <1>1. ASSUME NEW left \in Limit - 2 .. Limit, Agent!Begin(left)
        PROVE  HopsLeft' /\ NamesApart'
    <2>1. HopsLeft'
      BY <1>1 DEF EvidenceInv, StepsLeft, HopsLeft, Agent!Begin
    <2>2. NamesApart'
      BY <1>1 DEF EvidenceInv, NamesApart, Agent!EvidenceNamed, Agent!Begin
    <2> QED
      BY <2>1, <2>2
  <1>2. CASE Agent!Before \/ Agent!Stop \/ Agent!ModelFails
    <2>1. UNCHANGED <<pending, step, hits, counter>>
      BY <1>2, Zenon DEF Agent!Before, Agent!Stop, Agent!ModelFails
    <2>2. remaining' \in Nat /\ remaining' <= remaining
      BY <1>2 DEF EvidenceInv, StepsLeft, Agent!Before, Agent!Goes, Agent!Stop, Agent!ModelFails
    <2>3. HopsLeft'
      <3>1. step + remaining' <= Limit
        BY <2>2, Fewer DEF EvidenceInv, StepsLeft, HopsLeft
      <3> QED
        BY <2>1, <3>1 DEF EvidenceInv, HopsLeft
    <2>4. NamesApart'
      BY <2>1 DEF EvidenceInv, NamesApart, Agent!EvidenceNamed
    <2> QED
      BY <1>0, <2>3, <2>4 DEF EvidenceInv
  <1>3. ASSUME NEW calls \in Calls, Agent!Call(calls)
        PROVE  HopsLeft' /\ NamesApart'
    <2>1. calls \in Seq(STRING)
      BY QuestionAnsweringAssumption
    <2>2. DOMAIN calls = 1 .. Len(calls) /\ Len(calls) \in Nat
      BY <2>1
    <2>3. IsFiniteSet(DOMAIN calls)
      BY <2>2, FS_Interval
    <2>4. /\ pending' = [i \in DOMAIN calls |-> [done |-> FALSE, found |-> <<>>]]
          /\ UNCHANGED <<step, hits, counter>>
      BY <1>3, Zenon DEF Agent!Call
    <2>5. remaining' \in Nat /\ remaining' <= remaining
      BY <1>3 DEF EvidenceInv, StepsLeft, Agent!Call, Agent!Goes
    <2>6. DOMAIN pending' = DOMAIN calls /\ \A i \in DOMAIN pending' : DOMAIN pending'[i].found = {}
      BY <2>4
    <2>7. HopsLeft'
      <3>1. step + remaining' <= Limit
        BY <2>5, Fewer DEF EvidenceInv, StepsLeft, HopsLeft
      <3> QED
        BY <2>3, <2>4, <2>6, <3>1 DEF EvidenceInv, HopsLeft
    <2>8. NamesApart'
      BY <2>4, <2>6 DEF EvidenceInv, NamesApart, Agent!EvidenceNamed
    <2> QED
      BY <2>7, <2>8
  <1>4. ASSUME NEW i \in DOMAIN pending, Agent!Other(i)
        PROVE  HopsLeft' /\ NamesApart'
    <2>1. /\ pending' = [pending EXCEPT ![i].done = TRUE]
          /\ UNCHANGED <<remaining, step, hits, counter>>
      BY <1>4, Zenon DEF Agent!Other
    <2>2. /\ DOMAIN pending' = DOMAIN pending
          /\ \A j \in DOMAIN pending : pending'[j].found = pending[j].found
      BY <2>1
    <2> QED
      BY <2>1, <2>2 DEF EvidenceInv, HopsLeft, NamesApart, Agent!EvidenceNamed
  <1>5. ASSUME NEW i \in DOMAIN pending, NEW n \in 0 .. MaxFound, Agent!Search(i, n)
        PROVE  HopsLeft' /\ NamesApart'
    <2>1. /\ pending' = [pending EXCEPT ![i] = [done |-> TRUE, found |-> Agent!Reserved(n)]]
          /\ counter' = [counter EXCEPT ![step] = @ + n]
          /\ UNCHANGED <<remaining, step, hits>>
      BY <1>5, Zenon DEF Agent!Search
    <2>2. step \in 0 .. Limit /\ n \in Nat
      BY DEF EvidenceInv, StepsLeft, HopsLeft
    <2>3. counter \in [0 .. Limit -> Nat]
      BY DEF EvidenceInv, NamesApart
    <2>4. /\ counter' \in [0 .. Limit -> Nat] /\ counter'[step] = counter[step] + n
          /\ \A s \in 0 .. Limit : counter[s] <= counter'[s]
      BY <2>1, <2>2, <2>3
    <2>5. \A x : Named(counter, x) => Named(counter', x)
      BY <2>3, <2>4 DEF Named
    <2>6. /\ DOMAIN pending' = DOMAIN pending
          /\ pending'[i].found = Agent!Reserved(n)
          /\ \A j \in DOMAIN pending : j # i => pending'[j].found = pending[j].found
      BY <2>1
    <2>7. /\ DOMAIN Agent!Reserved(n) = 1 .. n
          /\ \A k \in 1 .. n : Agent!Reserved(n)[k] = <<step, counter[step] + k>>
      BY DEF Agent!Reserved
    <2>8. \A k \in 1 .. n : /\ Named(counter', Agent!Reserved(n)[k])
                            /\ ~Named(counter, Agent!Reserved(n)[k])
      <3> SUFFICES ASSUME NEW k \in 1 .. n
                   PROVE  /\ Named(counter', <<step, counter[step] + k>>)
                          /\ ~Named(counter, <<step, counter[step] + k>>)
        BY <2>7
      <3>1. counter[step] \in Nat
        BY <2>2, <2>3
      <3>2. counter[step] + k \in 1 .. counter'[step] /\ counter[step] + k \notin 1 .. counter[step]
        BY <2>2, <2>4, <3>1
      <3> QED
        BY <2>2, <3>2, NamedPair
    <2>9. \A k, l \in 1 .. n : Agent!Reserved(n)[k] = Agent!Reserved(n)[l] => k = l
      BY <2>2, <2>3, <2>7
    <2>10. \A j \in DOMAIN pending' : \A k \in DOMAIN pending'[j].found :
              /\ Named(counter', pending'[j].found[k])
              /\ \A r \in hits : r.index_id # pending'[j].found[k]
      BY <2>5, <2>6, <2>7, <2>8 DEF EvidenceInv, NamesApart
    <2>11. \A a, b \in DOMAIN pending' :
              \A k \in DOMAIN pending'[a].found, l \in DOMAIN pending'[b].found :
                  pending'[a].found[k] = pending'[b].found[l] => a = b /\ k = l
      BY <2>6, <2>7, <2>8, <2>9 DEF EvidenceInv, NamesApart
    <2>12. HopsLeft'
      BY <2>1, <2>6 DEF EvidenceInv, HopsLeft
    <2>13. NamesApart'
      <3>1. \A r \in hits : Named(counter', r.index_id)
        BY <2>5 DEF EvidenceInv, NamesApart
      <3>2. hits' = hits /\ Agent!EvidenceNamed
        BY <2>1 DEF EvidenceInv, NamesApart
      <3>3. Agent!EvidenceNamed'
        BY <3>2 DEF Agent!EvidenceNamed
      <3> QED
        BY <2>4, <2>10, <2>11, <3>1, <3>2, <3>3 DEF NamesApart
    <2> QED
      BY <2>12, <2>13
  <1>6. CASE Agent!Apply
    <2>1. pending' = <<>> /\ counter' = counter
      BY <1>6, Zenon DEF Agent!Apply
    <2>2. DOMAIN pending' = {}
      BY <2>1
    <2>3. \/ at' = "failed" /\ UNCHANGED <<remaining, step, hits>>
          \/ /\ at' # "failed" /\ hits' = hits \cup Agent!Found
             /\ (at' = "ended" /\ UNCHANGED remaining) \/ Agent!Goes("before")
      BY <1>0, <1>6 DEF EvidenceInv, StepsLeft, Agent!Apply, Agent!Goes
    <2>4. at = "tools"
      BY <1>6 DEF Agent!Apply
    <2>5. HopsLeft'
      <3>1. IsFiniteSet(DOMAIN pending')
        BY <2>2, FS_EmptySet
      <3>2. CASE at' = "failed"
        BY <2>3, <3>1, <3>2 DEF EvidenceInv, HopsLeft, StepsLeft, Agent!Goes
      <3>3. CASE at' # "failed"
        BY <1>6, <2>3, <2>4, <3>1, <3>3, HopsOf DEF EvidenceInv, StepsLeft, HopsLeft, Agent!Goes
      <3> QED
        BY <3>2, <3>3
    <2>6. \A r \in Agent!Found : Named(counter, r.index_id) /\ \A q \in hits : r.index_id # q.index_id
      BY DEF EvidenceInv, NamesApart, Agent!Found
    <2>7. \A r, q \in Agent!Found : r.index_id = q.index_id => r = q
      BY DEF EvidenceInv, NamesApart, Agent!Found
    <2>8. NamesApart'
      BY <2>1, <2>2, <2>3, <2>6, <2>7 DEF EvidenceInv, NamesApart, Agent!EvidenceNamed
    <2> QED
      BY <1>0, <2>5, <2>8 DEF EvidenceInv
  <1> QED
    BY <1>0, <1>1, <1>2, <1>3, <1>4, <1>5, <1>6 DEF Agent!Next, EvidenceInv

\* The evidence that a worker names is never two results at once, whatever searches run side by
\* side and however many results each has: index_ids are reserved under a lock, by step.
THEOREM EvidenceHasNames == Spec => []EvidenceNamed
  <1>1. Init => (part = "agent" => EvidenceInv)
    <2> SUFFICES ASSUME Init
                 PROVE  EvidenceInv
      OBVIOUS
    <2>1. StepsLeft
      BY QuestionAnsweringAssumption DEF Init, Agent!Init, StepsLeft
    <2>2. DOMAIN pending = {}
      BY DEF Init, Agent!Init
    <2>3. IsFiniteSet(DOMAIN pending)
      BY <2>2, FS_EmptySet
    <2> QED
      BY <2>1, <2>2, <2>3, QuestionAnsweringAssumption
      DEF Init, Agent!Init, EvidenceInv, HopsLeft, NamesApart, Agent!EvidenceNamed
  <1>2. (part = "agent" => EvidenceInv) /\ [Next]_vars => (part = "agent" => EvidenceInv)'
    <2> SUFFICES ASSUME [Next]_vars, part = "agent", EvidenceInv
                 PROVE  EvidenceInv'
      BY PartSteps
    <2>1. CASE Agent!Next
      BY <2>1, EvidenceStep
    <2>2. CASE UNCHANGED <<at, remaining, messages, pending, step, hits, counter, fallback>>
      BY <2>2 DEF EvidenceInv, StepsLeft, HopsLeft, NamesApart, Agent!EvidenceNamed
    <2> QED
      BY <2>1, <2>2, PartSteps
  <1>3. (part = "agent" => EvidenceInv) => EvidenceNamed
    BY DEF EvidenceInv, NamesApart, EvidenceNamed
  <1> QED
    BY <1>1, <1>2, <1>3, PTL DEF Spec

-----------------------------------------------------------------------------
(* The calls of an agent and their answers.                                *)

Kinds == {"entry", "ai", "tool", "follow_up", "removed"}
Sent  == [kind : Kinds, calls : Seq(STRING), answers : Seq(Nat \X Nat)]

\* A message of the model names its calls by their place; an answer is one of a call it knows.
WellFormed(m) ==
    /\ m.kind = "ai" => DOMAIN m.answers = DOMAIN m.calls /\ \A k \in DOMAIN m.calls : m.answers[k][2] = k
    /\ m.kind = "tool" => m.answers[1][2] \in DOMAIN m.calls

\* The calls of message i of ms are answered among the first n.
Answered(ms, i, n) ==
    ms[i].kind = "ai" => \A k \in DOMAIN ms[i].calls : \E j \in i + 1 .. n : ms[j] = Agent!Answer(ms[i], k)

\* Message i answers a call that is still there, unless it was one of several kinds.
Calling(ms, i) ==
    ms[i].kind = "tool" /\ ~Agent!Mixed(ms[i]) =>
        \E j \in 1 .. i - 1 : /\ ms[j].kind = "ai"
                              /\ \E k \in DOMAIN ms[j].calls : ms[i] = Agent!Answer(ms[j], k)

Linked(ms, n) == \A i \in 1 .. n : WellFormed(ms[i]) /\ Answered(ms, i, n) /\ Calling(ms, i)

\* The messages are linked, all of them or those before the one that is being answered.
CallsInv ==
    /\ messages \in Seq(Sent) /\ Len(messages) >= 1
    /\ remaining \in Nat
    /\ at \in {"start", "before", "model"} => Linked(messages, Len(messages))
    /\ at = "tools" =>
          /\ Linked(messages, Len(messages) - 1)
          /\ Agent!Latest.kind = "ai" /\ WellFormed(Agent!Latest)
          /\ DOMAIN pending = DOMAIN Agent!Latest.calls

\* An answer and the tool that gives it.
LEMMA AnswerOf ==
    ASSUME NEW m, m.kind = "ai", WellFormed(m), NEW k \in DOMAIN m.calls
    PROVE  /\ Agent!Answer(m, k).kind = "tool" /\ Agent!Answer(m, k).calls = m.calls
           /\ Agent!Answer(m, k).answers = <<m.answers[k]>>
           /\ Agent!Answer(m, k).answers[1] = m.answers[k]
           /\ Agent!Tool(Agent!Answer(m, k)) = m.calls[k]
           /\ WellFormed(Agent!Answer(m, k))
  <1>1. /\ Agent!Answer(m, k).kind = "tool" /\ Agent!Answer(m, k).calls = m.calls
        /\ Agent!Answer(m, k).answers = <<m.answers[k]>>
        /\ Agent!Answer(m, k).answers[1] = m.answers[k]
    BY DEF Agent!Answer, Agent!Msg
  <1>2. m.answers[k][2] = k
    BY DEF WellFormed
  <1> QED
    BY <1>1, <1>2 DEF Agent!Tool, WellFormed

\* What a clean-up keeps stays linked.
LEMMA CleanUpLinks ==
    ASSUME NEW ms, NEW n \in Nat, Linked(ms, n), NEW kept,
           \A i \in 1 .. n : kept[i] = IF Agent!Deleted(ms[i]) THEN Agent!Removed ELSE ms[i]
    PROVE  Linked(kept, n)
  <1> SUFFICES ASSUME NEW i \in 1 .. n
               PROVE  WellFormed(kept[i]) /\ Answered(kept, i, n) /\ Calling(kept, i)
    BY DEF Linked
  <1>0. Agent!Removed.kind = "removed"
    BY DEF Agent!Removed, Agent!Msg
  <1>1. CASE Agent!Deleted(ms[i])
    BY <1>0, <1>1 DEF WellFormed, Answered, Calling
  <1>2. CASE ~Agent!Deleted(ms[i])
    <2>1. kept[i] = ms[i] /\ WellFormed(ms[i])
      BY <1>2 DEF Linked
    <2>2. ASSUME ms[i].kind = "ai", NEW k \in DOMAIN ms[i].calls
          PROVE  \E j \in i + 1 .. n : kept[j] = Agent!Answer(ms[i], k)
      <3>1. PICK j \in i + 1 .. n : ms[j] = Agent!Answer(ms[i], k)
        BY <2>2 DEF Linked, Answered
      <3>2. ms[j].kind = "tool" /\ Agent!Tool(ms[j]) = ms[i].calls[k]
        BY <2>1, <2>2, <3>1, AnswerOf
      <3>3. ms[i].calls[k] # "search"
        BY <1>2, <2>2 DEF Agent!Deleted, Agent!Range
      <3>4. ~Agent!Deleted(ms[j])
        BY <3>2, <3>3 DEF Agent!Deleted
      <3> QED
        BY <3>1, <3>4
    <2>3. ASSUME ms[i].kind = "tool", ~Agent!Mixed(ms[i])
          PROVE  \E j \in 1 .. i - 1 : /\ kept[j].kind = "ai"
                                       /\ \E k \in DOMAIN kept[j].calls : ms[i] = Agent!Answer(kept[j], k)
      <3>1. PICK j \in 1 .. i - 1 : /\ ms[j].kind = "ai"
                                    /\ \E k \in DOMAIN ms[j].calls : ms[i] = Agent!Answer(ms[j], k)
        BY <2>3 DEF Linked, Calling
      <3>2. PICK k \in DOMAIN ms[j].calls : ms[i] = Agent!Answer(ms[j], k)
        BY <3>1
      <3>3. WellFormed(ms[j])
        BY DEF Linked
      <3>4. ms[i].calls = ms[j].calls /\ Agent!Tool(ms[i]) = ms[j].calls[k]
        BY <3>1, <3>2, <3>3, AnswerOf
      <3>5. Agent!Tool(ms[i]) # "search"
        BY <1>2, <2>3 DEF Agent!Deleted
      <3>6. "search" \notin Agent!Range(ms[j].calls)
        BY <2>3, <3>4, <3>5 DEF Agent!Mixed, Agent!Range
      <3>7. ~Agent!Deleted(ms[j])
        BY <3>1, <3>6 DEF Agent!Deleted
      <3>8. kept[j] = ms[j]
        BY <3>7
      <3> QED
        BY <3>1, <3>8
    <2> QED
      BY <2>1, <2>2, <2>3 DEF Answered, Calling
  <1> QED
    BY <1>1, <1>2

\* What is added leaves linked what was.
LEMMA LongerLinks ==
    ASSUME NEW ms, NEW n \in Nat, Linked(ms, n), NEW longer, NEW l \in Nat, n <= l,
           \A i \in 1 .. n : longer[i] = ms[i],
           \A i \in n + 1 .. l : WellFormed(longer[i]) /\ Answered(longer, i, l) /\ Calling(longer, i)
    PROVE  Linked(longer, l)
  <1> SUFFICES ASSUME NEW i \in 1 .. n
               PROVE  WellFormed(longer[i]) /\ Answered(longer, i, l) /\ Calling(longer, i)
    BY DEF Linked
  <1>1. longer[i] = ms[i] /\ \A j \in 1 .. n : longer[j] = ms[j]
    OBVIOUS
  <1>2. WellFormed(ms[i]) /\ Answered(ms, i, n) /\ Calling(ms, i)
    BY DEF Linked
  <1>3. Answered(longer, i, l)
    BY <1>1, <1>2 DEF Answered
  <1>4. Calling(longer, i)
    BY <1>1, <1>2 DEF Calling
  <1> QED
    BY <1>1, <1>2, <1>3, <1>4

\* Whether or not a hop cleaned up, what the tools answered is linked to the calls.
LEMMA AnswersLink ==
    ASSUME CallsInv, Agent!Apply, NEW base \in Seq(Sent), Len(base) = Len(messages),
           base = messages \/ (Agent!Hops = 1 /\ base = Agent!Kept),
           NEW answers1 \in Seq(Sent), answers1 = [i \in DOMAIN pending |-> Agent!Answer(Agent!Latest, i)]
    PROVE  Linked(base \o answers1, Len(base \o answers1))
  <1> DEFINE L == Len(messages)
             K == Len(answers1)
             all == base \o answers1
  <1>1. at = "tools" /\ L \in Nat /\ L >= 1 /\ K \in Nat
    BY DEF Agent!Apply, CallsInv
  <1>2. /\ DOMAIN answers1 = DOMAIN Agent!Latest.calls
        /\ \A k \in DOMAIN Agent!Latest.calls : answers1[k] = Agent!Answer(Agent!Latest, k)
    BY <1>1 DEF CallsInv
  <1>3. DOMAIN answers1 = 1 .. K
    OBVIOUS
  <1>4. /\ Len(all) = L + K
        /\ \A i \in 1 .. L : all[i] = base[i]
        /\ \A k \in 1 .. K : all[L + k] = answers1[k]
    <2>1. messages \in Seq(Sent) /\ L = Len(base)
      BY DEF CallsInv
    <2> HIDE DEF L
    <2>2. Len(base) \in Nat /\ K \in Nat
      OBVIOUS
    <2>3. Len(all) = Len(base) + K
      BY ConcatProperties
    <2>4. \A i \in 1 .. Len(base) + K :
             all[i] = IF i <= Len(base) THEN base[i] ELSE answers1[i - Len(base)]
      BY ConcatProperties
    <2> QED
      BY <2>1, <2>2, <2>3, <2>4
  <1>5. Agent!Latest = messages[L] /\ Agent!Latest.kind = "ai" /\ WellFormed(Agent!Latest)
    BY <1>1 DEF CallsInv, Agent!Latest
  <1>6. \/ base[L] = Agent!Latest
        \/ base[L] = Agent!Removed /\ Agent!Hops = 1 /\ Agent!Deleted(Agent!Latest)
    <2>1. L \in DOMAIN messages
      BY <1>1 DEF CallsInv
    <2>2. CASE base = Agent!Kept /\ Agent!Hops = 1
      BY <1>5, <2>1, <2>2 DEF Agent!Kept
    <2> QED
      BY <1>5, <2>2
  <1>7. Linked(base, L - 1)
    <2>1. Linked(messages, L - 1) /\ L - 1 \in Nat
      BY <1>1 DEF CallsInv
    <2>2. CASE base = Agent!Kept
      <3>1. \A i \in 1 .. L - 1 : base[i] = IF Agent!Deleted(messages[i]) THEN Agent!Removed ELSE messages[i]
        BY <2>2, <1>1 DEF Agent!Kept, CallsInv
      <3> QED
        BY <2>1, <3>1, CleanUpLinks
    <2> QED
      BY <2>1, <2>2
  <1>8. WellFormed(all[L]) /\ Answered(all, L, L + K) /\ Calling(all, L)
    <2>1. all[L] = base[L]
      BY <1>1, <1>4
    <2>2. CASE base[L] = Agent!Removed
      <3>1. Agent!Removed.kind = "removed"
        BY DEF Agent!Removed, Agent!Msg
      <3> QED
        BY <2>1, <2>2, <3>1 DEF WellFormed, Answered, Calling
    <2>3. CASE base[L] = Agent!Latest
      <3>1. \A k \in DOMAIN Agent!Latest.calls : L + k \in L + 1 .. L + K /\ all[L + k] = Agent!Answer(Agent!Latest, k)
        BY <1>1, <1>2, <1>3, <1>4
      <3> QED
        BY <1>5, <2>1, <2>3, <3>1 DEF Answered, Calling
    <2> QED
      BY <1>6, <2>2, <2>3
  <1>9. ASSUME NEW k \in 1 .. K
        PROVE  /\ WellFormed(all[L + k]) /\ Answered(all, L + k, L + K)
               /\ Calling(all, L + k)
    <2>1. all[L + k] = Agent!Answer(Agent!Latest, k) /\ k \in DOMAIN Agent!Latest.calls
      BY <1>2, <1>3, <1>4
    <2>2. all[L + k].kind = "tool" /\ WellFormed(all[L + k]) /\ all[L + k].calls = Agent!Latest.calls
      BY <1>5, <2>1, AnswerOf
    <2>3. ASSUME ~Agent!Mixed(all[L + k])
          PROVE  all[L] = Agent!Latest
      <3>1. all[L] = base[L]
        BY <1>1, <1>4
      <3>2. ASSUME Agent!Hops = 1
            PROVE  ~Agent!Deleted(Agent!Latest)
        <4>1. PICK hops : hops = {i \in DOMAIN pending : Agent!Latest.calls[i] = "next_hop"}
          OBVIOUS
        <4>5. hops # {}
          <5>1. Cardinality(hops) = 1
            BY <3>2, <4>1, Zenon DEF Agent!Hops, Agent!Cardinality, Cardinality
          <5>2. ASSUME hops = {}
                PROVE  Cardinality(hops) = 0
            BY <5>2, FS_EmptySet, Zenon
          <5> QED
            BY <5>1, <5>2
        <4>2. "next_hop" \in Agent!Range(Agent!Latest.calls)
          BY <4>1, <4>5, <1>1 DEF CallsInv, Agent!Range
        <4>3. "search" \notin Agent!Range(Agent!Latest.calls)
          <5>1. Agent!Range(Agent!Latest.calls) # {"search"}
            BY <4>2
          <5> QED
            BY <2>2, <2>3, <5>1 DEF Agent!Mixed
        <4> QED
          BY <1>5, <4>3 DEF Agent!Deleted
      <3> QED
        BY <1>6, <3>1, <3>2
    <2>4. Calling(all, L + k)
      <3>1. L \in 1 .. (L + k) - 1
        BY <1>1
      <3> QED
        BY <1>5, <2>1, <2>3, <3>1 DEF Calling
    <2> QED
      BY <2>2, <2>4 DEF Answered
  <1>10. ASSUME NEW i \in (L - 1) + 1 .. L + K
         PROVE  WellFormed(all[i]) /\ Answered(all, i, L + K) /\ Calling(all, i)
    <2>1. i = L \/ (i - L \in 1 .. K /\ i = L + (i - L))
      BY <1>1
    <2> QED
      BY <2>1, <1>8, <1>9
  <1>11. \A i \in 1 .. L - 1 : all[i] = base[i]
    BY <1>1, <1>4
  <1>12. L - 1 \in Nat /\ L + K \in Nat /\ L - 1 <= L + K
    BY <1>1
  <1> HIDE DEF all, L, K
  <1>13. Linked(all, L + K)
    BY <1>7, <1>10, <1>11, <1>12, LongerLinks
  <1> QED
    BY <1>4, <1>13 DEF all

LEMMA Sendable ==
    /\ Agent!Msg("follow_up", <<>>, <<>>) \in Sent /\ Agent!Removed \in Sent
    /\ Agent!Entry \in Sent /\ Agent!Entry.kind = "entry"
    /\ Agent!Msg("ai", <<>>, <<>>) \in Sent
  BY DEF Sent, Kinds, Agent!Entry, Agent!Removed, Agent!Msg

\* What a function on a sequence's places makes of it is a sequence.
LEMMA MapOfSeq ==
    ASSUME NEW S, NEW T, NEW q \in Seq(S), NEW F, F = [i \in DOMAIN q |-> F[i]],
           \A i \in DOMAIN q : F[i] \in T
    PROVE  F \in Seq(T) /\ Len(F) = Len(q)
  <1>1. Len(q) \in Nat /\ DOMAIN q = 1 .. Len(q)
    OBVIOUS
  <1>2. F \in [1 .. Len(q) -> T]
    BY <1>1
  <1> QED
    BY <1>1, <1>2

LEMMA CallsStep ==
    ASSUME CallsInv, StepsLeft, StepsLeft', Agent!Next
    PROVE  CallsInv'
  <1> DEFINE L == Len(messages)
  <1>0. /\ messages \in Seq(Sent) /\ L \in Nat /\ L >= 1 /\ DOMAIN messages = 1 .. L
        /\ remaining' \in Nat /\ Agent!Latest = messages[L] /\ messages[L] \in Sent
    BY DEF CallsInv, StepsLeft, Agent!Latest
  <1>1. ASSUME NEW left \in Limit - 2 .. Limit, Agent!Begin(left)
        PROVE  CallsInv'
    BY <1>0, <1>1 DEF CallsInv, Agent!Begin
  <1>2. ASSUME NEW m \in Sent, m.kind = "follow_up", messages' = Append(messages, m),
               Linked(messages, L)
        PROVE  messages' \in Seq(Sent) /\ Len(messages') >= 1 /\ Linked(messages', Len(messages'))
    <2>1. /\ messages' \in Seq(Sent) /\ Len(messages') = L + 1 /\ messages'[L + 1] = m
          /\ \A i \in 1 .. L : messages'[i] = messages[i]
      BY <1>0, <1>2
    <2>2. ASSUME NEW i \in L + 1 .. L + 1
          PROVE  WellFormed(messages'[i]) /\ Answered(messages', i, L + 1) /\ Calling(messages', i)
      <3>1. messages'[i].kind = "follow_up"
        BY <1>0, <1>2, <2>1
      <3> QED
        BY <3>1 DEF WellFormed, Answered, Calling
    <2>3. L + 1 \in Nat /\ L <= L + 1
      BY <1>0
    <2>4. Linked(messages', L + 1)
      <3>1. PICK l, longer : l = L /\ longer = messages'
        OBVIOUS
      <3>2. /\ l \in Nat /\ l + 1 \in Nat /\ l <= l + 1
            /\ \A i \in 1 .. l : longer[i] = messages[i]
        BY <1>0, <2>1, <2>3, <3>1
      <3>3. \A i \in l + 1 .. l + 1 :
               WellFormed(longer[i]) /\ Answered(longer, i, l + 1) /\ Calling(longer, i)
        BY <2>2, <3>1
      <3>4. Linked(messages, l)
        BY <1>2, <3>1
      <3>5. Linked(longer, l + 1)
        BY <3>2, <3>3, <3>4, LongerLinks
      <3> QED
        BY <3>1, <3>5
    <2> QED
      BY <1>0, <2>1, <2>4
  <1>3. CASE Agent!Before
    <2>1. at = "before" /\ Linked(messages, L)
      BY <1>3 DEF Agent!Before, CallsInv
    <2>2. \/ at' = "ended" /\ messages' = messages
          \/ /\ at' \in {"model", "raised"}
             /\ \/ messages' = messages
                \/ messages' = Agent!Append(messages, Agent!Msg("follow_up", <<>>, <<>>))
      BY <1>3 DEF Agent!Before, Agent!Goes
    <2>3. PICK m : m = Agent!Msg("follow_up", <<>>, <<>>) /\ m \in Sent /\ m.kind = "follow_up"
      BY Sendable DEF Agent!Msg
    <2>4. CASE messages' = messages
      BY <1>0, <2>1, <2>2, <2>4, Zenon DEF CallsInv
    <2>5. CASE messages' = Agent!Append(messages, m)
      <3>1. messages' = Append(messages, m)
        BY <2>5
      <3>2. messages' \in Seq(Sent) /\ Len(messages') >= 1 /\ Linked(messages', Len(messages'))
        BY <1>2, <2>1, <2>3, <3>1
      <3> QED
        BY <1>0, <2>2, <3>2, Zenon DEF CallsInv
    <2> QED
      BY <2>2, <2>3, <2>4, <2>5
  <1>4. CASE Agent!Stop
    <2>1. at' = "ended" /\ messages' = Agent!Append(messages, Agent!Msg("ai", <<>>, <<>>))
      BY <1>4, Zenon DEF Agent!Stop
    <2>2. PICK m \in Sent : m = Agent!Msg("ai", <<>>, <<>>)
      BY Sendable
    <2>3. messages' = Append(messages, m)
      BY <2>1, <2>2
    <2> QED
      BY <1>0, <2>1, <2>3 DEF CallsInv
  <1>5. CASE Agent!ModelFails
    BY <1>0, <1>5 DEF Agent!ModelFails, CallsInv
  <1>6. ASSUME NEW calls \in Calls, Agent!Call(calls)
        PROVE  CallsInv'
    <2>1. calls \in Seq(STRING)
      BY QuestionAnsweringAssumption
    <2>2. PICK m : m = Agent!Msg("ai", calls, Agent!Asked(calls))
      OBVIOUS
    <2>3. m.kind = "ai" /\ m.calls = calls /\ m.answers = [i \in DOMAIN calls |-> <<remaining, i>>]
      BY <2>2 DEF Agent!Msg, Agent!Asked
    <2>4. WellFormed(m)
      BY <2>3 DEF WellFormed
    <2>5. m \in Sent
      <3>1. Len(calls) \in Nat /\ DOMAIN calls = 1 .. Len(calls)
        BY <2>1
      <3>2. Agent!Asked(calls) \in [1 .. Len(calls) -> Nat \X Nat]
        BY <3>1 DEF Agent!Asked, StepsLeft
      <3>3. Agent!Asked(calls) \in Seq(Nat \X Nat)
        BY <3>1, <3>2
      <3> QED
        BY <2>1, <2>2, <3>3 DEF Sent, Kinds, Agent!Msg
    <2>6. /\ at = "model" /\ at' \in {"tools", "raised"}
          /\ messages' = Agent!Append(messages, m)
          /\ pending' = [i \in DOMAIN calls |-> [done |-> FALSE, found |-> <<>>]]
      BY <1>6, <2>2 DEF Agent!Call, Agent!Goes
    <2>7. messages' = Append(messages, m)
      BY <2>6
    <2>8. /\ messages' \in Seq(Sent) /\ Len(messages') = L + 1 /\ messages'[L + 1] = m
          /\ \A i \in 1 .. L : messages'[i] = messages[i]
      BY <1>0, <2>5, <2>7
    <2>9. Linked(messages, L) /\ L <= L
      BY <1>0, <2>6 DEF CallsInv
    <2>10. Linked(messages', L)
      BY <1>0, <2>8, <2>9, LongerLinks
    <2>11. Agent!Latest' = m /\ Len(messages') - 1 = L
      BY <1>0, <2>8 DEF Agent!Latest
    <2>12. DOMAIN pending' = DOMAIN calls
      BY <2>6
    <2> QED
      BY <1>0, <2>3, <2>4, <2>6, <2>8, <2>10, <2>11, <2>12 DEF CallsInv
  <1>7. ASSUME NEW i \in DOMAIN pending, NEW n, Agent!Other(i) \/ Agent!Search(i, n)
        PROVE  CallsInv'
    <2>1. UNCHANGED <<at, messages>> /\ DOMAIN pending' = DOMAIN pending
      <3>1. CASE Agent!Other(i)
        BY <3>1 DEF Agent!Other
      <3>2. CASE Agent!Search(i, n)
        BY <3>2 DEF Agent!Search
      <3> QED
        BY <1>7, <3>1, <3>2
    <2>2. Agent!Latest' = Agent!Latest
      BY <2>1 DEF Agent!Latest
    <2> QED
      BY <1>0, <2>1, <2>2 DEF CallsInv
  <1>8. CASE Agent!Apply
    <2>1. at = "tools"
      BY <1>8 DEF Agent!Apply
    <2>2. CASE at' = "failed" /\ messages' = messages
      BY <1>0, <2>2 DEF CallsInv
    <2>3. CASE at' # "failed"
      <3>1. PICK answers1 : answers1 = [i \in DOMAIN pending |-> Agent!Answer(Agent!Latest, i)]
        OBVIOUS
      <3>2. /\ Agent!Latest \in Sent /\ WellFormed(Agent!Latest) /\ Agent!Latest.kind = "ai"
            /\ DOMAIN pending = DOMAIN Agent!Latest.calls
        BY <1>0, <2>1 DEF CallsInv
      <3>3. ASSUME NEW k \in DOMAIN pending
            PROVE  Agent!Answer(Agent!Latest, k) \in Sent
        <4>1. Agent!Latest.answers[k] \in Nat \X Nat
          BY <3>2 DEF WellFormed, Sent
        <4>2. <<Agent!Latest.answers[k]>> \in Seq(Nat \X Nat)
          BY <4>1
        <4> QED
          BY <3>2, <4>2 DEF Agent!Answer, Agent!Msg, Sent, Kinds
      <3>4. answers1 \in Seq(Sent)
        <4>1. Agent!Latest.calls \in Seq(STRING)
          BY <3>2 DEF Sent
        <4>2. /\ answers1 = [i \in DOMAIN Agent!Latest.calls |-> answers1[i]]
              /\ \A i \in DOMAIN Agent!Latest.calls : answers1[i] \in Sent
          BY <3>1, <3>2, <3>3
        <4> QED
          BY <4>1, <4>2, MapOfSeq
      <3>5. Agent!Kept \in Seq(Sent) /\ Len(Agent!Kept) = L
        <4>1. PICK kept : kept = Agent!Kept
          OBVIOUS
        <4>2. /\ kept = [i \in DOMAIN messages |-> kept[i]]
              /\ \A i \in DOMAIN messages : kept[i] \in Sent
          BY <1>0, <4>1, Sendable DEF Agent!Kept
        <4> QED
          BY <1>0, <4>1, <4>2, MapOfSeq
      <3>6. PICK base : /\ base = messages \/ (Agent!Hops = 1 /\ base = Agent!Kept)
                        /\ messages' = base \o answers1
        BY <1>8, <2>3, <3>1 DEF Agent!Apply
      <3>7. base \in Seq(Sent) /\ Len(base) = L
        BY <1>0, <3>5, <3>6
      <3>8. Linked(messages', Len(messages'))
        BY <1>8, <3>1, <3>4, <3>6, <3>7, AnswersLink
      <3>9. messages' \in Seq(Sent) /\ Len(messages') >= 1
        <4>1. Len(answers1) \in Nat
          BY <3>4
        <4>2. messages' \in Seq(Sent) /\ Len(messages') = Len(base) + Len(answers1)
          BY <3>4, <3>6, <3>7, ConcatProperties
        <4> QED
          BY <1>0, <3>7, <4>1, <4>2
      <3>10. at' # "tools"
        BY <1>8, <2>1 DEF Agent!Apply, Agent!Goes
      <3> QED
        BY <1>0, <3>8, <3>9, <3>10 DEF CallsInv
    <2> QED
      BY <1>8, <2>2, <2>3 DEF Agent!Apply, Agent!Goes
  <1> QED
    BY <1>1, <1>3, <1>4, <1>5, <1>6, <1>7, <1>8 DEF Agent!Next

\* Whatever a worker's model calls, and however often next_hop cleans up: what the model is sent
\* has no call without its answer, and no answer without its call but those of a message that
\* mixes searches with other tools.
THEOREM CallsArePaired == Spec => []CallsPaired
  <1>1. Init => (part = "agent" => StepsLeft /\ CallsInv)
    <2> SUFFICES ASSUME Init
                 PROVE  StepsLeft /\ CallsInv
      OBVIOUS
    <2>1. StepsLeft
      BY QuestionAnsweringAssumption DEF Init, Agent!Init, StepsLeft
    <2>2. at = "start" /\ messages = <<Agent!Entry>>
      BY DEF Init, Agent!Init
    <2>3. messages \in Seq(Sent) /\ Len(messages) = 1 /\ messages[1].kind = "entry"
      BY <2>2, Sendable
    <2>4. Linked(messages, Len(messages))
      BY <2>3 DEF Linked, WellFormed, Answered, Calling
    <2> QED
      BY <2>1, <2>2, <2>3, <2>4 DEF CallsInv, StepsLeft
  <1>2. (part = "agent" => StepsLeft /\ CallsInv) /\ [Next]_vars
        => (part = "agent" => StepsLeft /\ CallsInv)'
    <2> SUFFICES ASSUME [Next]_vars, part = "agent", StepsLeft, CallsInv
                 PROVE  StepsLeft' /\ CallsInv'
      BY PartSteps
    <2>1. CASE Agent!Next
      BY <2>1, StepsLeftStep, CallsStep
    <2>2. CASE UNCHANGED <<at, remaining, messages, pending, step, hits, counter, fallback>>
      BY <2>2 DEF StepsLeft, CallsInv, Agent!Latest
    <2> QED
      BY <2>1, <2>2, PartSteps
  <1>3. (part = "agent" => StepsLeft /\ CallsInv) => CallsPaired
    <2> SUFFICES ASSUME CallsInv, at \in {"before", "model"}, NEW i \in DOMAIN messages
                 PROVE  /\ messages[i].kind = "tool" /\ ~Agent!Mixed(messages[i]) => Agent!Follows(i)
                        /\ messages[i].kind = "ai" =>
                               \A c \in Agent!Range(messages[i].answers) :
                                   \E j \in i + 1 .. Agent!Len(messages) :
                                       messages[j].kind = "tool" /\ messages[j].answers = <<c>>
      BY Zenon DEF CallsPaired, Agent!Paired
    <2>1. /\ i \in 1 .. Len(messages) /\ Linked(messages, Len(messages))
          /\ Agent!Len(messages) = Len(messages)
      BY DEF CallsInv
    <2>2. \A j \in 1 .. Len(messages) : WellFormed(messages[j])
      BY <2>1 DEF Linked
    <2>3. ASSUME messages[i].kind = "tool", ~Agent!Mixed(messages[i])
          PROVE  Agent!Follows(i)
      <3>1. PICK j \in 1 .. i - 1 : /\ messages[j].kind = "ai"
                                    /\ \E k \in DOMAIN messages[j].calls :
                                          messages[i] = Agent!Answer(messages[j], k)
        BY <2>1, <2>3 DEF Linked, Calling
      <3>2. PICK k \in DOMAIN messages[j].calls : messages[i] = Agent!Answer(messages[j], k)
        BY <3>1
      <3>3. WellFormed(messages[j])
        BY <2>1, <2>2 DEF CallsInv
      <3>4. messages[i].answers[1] = messages[j].answers[k] /\ k \in DOMAIN messages[j].answers
        BY <3>1, <3>2, <3>3, AnswerOf DEF WellFormed
      <3> QED
        BY <3>1, <3>4 DEF Agent!Follows, Agent!Range
    <2>4. ASSUME messages[i].kind = "ai", NEW c \in Agent!Range(messages[i].answers)
          PROVE  \E j \in i + 1 .. Len(messages) :
                     messages[j].kind = "tool" /\ messages[j].answers = <<c>>
      <3>1. PICK k \in DOMAIN messages[i].calls : c = messages[i].answers[k]
        BY <2>1, <2>2, <2>4 DEF WellFormed, Agent!Range
      <3>2. PICK j \in i + 1 .. Len(messages) : messages[j] = Agent!Answer(messages[i], k)
        BY <2>1, <2>4 DEF Linked, Answered
      <3> QED
        BY <2>1, <2>2, <2>4, <3>1, <3>2, AnswerOf
    <2> QED
      BY <2>1, <2>3, <2>4
  <1> QED
    BY <1>1, <1>2, <1>3, PTL DEF Spec

-----------------------------------------------------------------------------
(* The turns of a session and their lock.                                  *)

Answers == Seq(Message \X Nat)
Turn == [at : {"absent", "waiting", "held", "decomposing", "working", "finishing", "aggregating",
               "cleaning", "stopped", "leaving", "left"},
         lock : {0} \cup Thread!Locks, messages : Seq(Message), answers : Answers,
         queries : Nat, ended : SUBSET Nat, final : Answers]

ThreadTypeOK ==
    /\ entry \in {0} \cup Thread!Locks
    /\ users \in [Thread!Locks -> Nat]
    /\ holder \in [Thread!Locks -> Message \cup {Nobody}]
    /\ saved.messages \in Seq(Message)
    /\ turn \in [Message -> Turn]
    /\ began \in Seq(Message)

Active(m)  == turn[m].at \notin {"absent", "left"}
Holding(m) == turn[m].at \in {"held", "stopped"} \/ Thread!InGraph(m)
UsersOf(l) == {m \in Message : Active(m) /\ turn[m].lock = l}

\* All that use a lock use the one that is registered, and it knows how many they are; the
\* one that runs holds it.
OneLock ==
    /\ \A m \in Message :
          /\ turn[m].at = "absent" => turn[m].lock = 0
          /\ Active(m) => turn[m].lock = entry /\ entry # 0
          /\ Holding(m) => holder[turn[m].lock] = m
    /\ \A l \in Thread!Locks : users[l] = Cardinality(UsersOf(l))

\* The turn in the graph began last, and goes on from its own checkpoint.
InTurn(m) ==
    /\ turn[m].at \in {"absent", "waiting", "held"} => \A i \in 1 .. Len(began) : began[i] # m
    /\ Thread!InGraph(m) => /\ began # <<>> /\ began[Len(began)] = m
                            /\ turn[m].messages = saved.messages
    /\ turn[m].at = "decomposing" =>
          Thread!History(m) = Thread!LastOf(SubSeq(began, 1, Thread!Earlier(m)), Keep - 1)

\* The checkpoint keeps enough of the queries for the next turn.
Remembered == Thread!LastOf(saved.messages, Keep - 1) = Thread!LastOf(began, Keep - 1)

\* What a turn has answered belongs to its own sub-queries.
OwnAnswers(m, t) ==
    LET all == [i \in 1 .. t.queries |-> <<m, i>>] IN
    /\ t.at \in {"decomposing", "working"} => t.answers = <<>>
    /\ t.at = "finishing" => t.queries = 1
    /\ t.at \in {"finishing", "aggregating"} => t.answers = all
    /\ t.at \in {"absent", "waiting", "held", "decomposing", "working", "finishing",
                 "aggregating"} => t.final = <<>>
    /\ t.final # <<>> => t.final = all

ThreadInv ==
    ThreadTypeOK /\ OneLock /\ Remembered /\ \A m \in Message : InTurn(m) /\ OwnAnswers(m, turn[m])

\* The number of locks is enough: one that no turn has is left for a turn that has none.
LEMMA NewLock ==
    ASSUME ThreadTypeOK, NEW m \in Message, turn[m].lock = 0
    PROVE  \E x \in Thread!Locks : \A n \in Message : turn[n].lock # x
  <1> SUFFICES ASSUME \A x \in Thread!Locks : \E n \in Message : turn[n].lock = x
               PROVE  FALSE
    OBVIOUS
  <1> DEFINE f == [x \in Thread!Locks |-> CHOOSE n \in Message : turn[n].lock = x]
  <1> DEFINE others == Message \ {m}
  <1>1. Cardinality(Message) \in Nat /\ IsFiniteSet(Message)
    BY QuestionAnsweringAssumption, FS_CardinalityType
  <1>2. IsFiniteSet(Thread!Locks) /\ Cardinality(Thread!Locks) = Cardinality(Message)
    <2>1. 1 \in Int /\ Cardinality(Message) \in Int
      BY <1>1
    <2>2. /\ IsFiniteSet(1 .. Cardinality(Message))
          /\ Cardinality(1 .. Cardinality(Message)) = Cardinality(Message)
      BY <1>1, <2>1, FS_Interval
    <2>3. Thread!Cardinality(Message) = Cardinality(Message)
      BY Zenon DEF Thread!Cardinality, Cardinality
    <2> QED
      BY <2>2, <2>3 DEF Thread!Locks
  <1>3. IsFiniteSet(others) /\ Cardinality(others) = Cardinality(Message) - 1
    BY <1>1, FS_RemoveElement
  <1>4. \A x \in Thread!Locks : f[x] \in Message /\ turn[f[x]].lock = x
    OBVIOUS
  <1>5. 0 \notin Thread!Locks
    BY <1>1 DEF Thread!Locks
  <1>6. f \in [Thread!Locks -> others]
    BY <1>4, <1>5
  <1> HIDE DEF f, others
  <1>7. PICK x, y \in Thread!Locks : x # y /\ f[x] = f[y]
    BY <1>1, <1>2, <1>3, <1>6, FS_PigeonHole
  <1> QED
    BY <1>4, <1>7

\* The lock is one for all who hold it, so that they are one.
LEMMA OneHolds ==
    ASSUME OneLock, NEW m \in Message, NEW n \in Message, Holding(m), Holding(n)
    PROVE  m = n
  BY DEF OneLock, Holding, Active, Thread!InGraph

\* a is the last k of s.
EndOf(a, s, k) ==
    /\ Len(a) \in Nat /\ Len(s) \in Nat
    /\ Len(s) <= k => Len(a) = Len(s)
    /\ Len(s) > k => Len(a) = k
    /\ \A i \in 1 .. Len(a) : a[i] = s[Len(s) - Len(a) + i]

LEMMA LastOfType ==
    ASSUME NEW S, NEW s \in Seq(S), NEW k \in Nat
    PROVE  Thread!LastOf(s, k) \in Seq(S) /\ EndOf(Thread!LastOf(s, k), s, k)
  <1>0. Len(s) \in Nat
    BY LenProperties
  <1>1. CASE Len(s) <= k
    BY <1>0, <1>1, LenProperties DEF Thread!LastOf, EndOf
  <1>2. CASE Len(s) > k
    <2>1. \A i \in Len(s) - k + 1 .. Len(s) : s[i] \in S
      BY <1>0, <1>2
    <2>2. Thread!LastOf(s, k) = SubSeq(s, Len(s) - k + 1, Len(s))
      BY <1>0, <1>2 DEF Thread!LastOf
    <2> DEFINE l == SubSeq(s, Len(s) - k + 1, Len(s))
    <2>3. Len(s) - k + 1 \in Int /\ Len(s) \in Int
      BY <1>0
    <2>4. /\ l \in Seq(S)
          /\ Len(l) = IF Len(s) - k + 1 <= Len(s) THEN Len(s) - (Len(s) - k + 1) + 1 ELSE 0
          /\ \A i \in 1 .. Len(s) - (Len(s) - k + 1) + 1 : l[i] = s[Len(s) - k + 1 + i - 1]
      BY <2>1, <2>3, SubSeqProperties
    <2> HIDE DEF l
    <2>5. Len(l) = k
      BY <1>0, <1>2, <2>4
    <2>6. \A i \in 1 .. k : l[i] = s[Len(s) - k + i]
      <3> SUFFICES ASSUME NEW i \in 1 .. k
                   PROVE  l[i] = s[Len(s) - k + i]
        OBVIOUS
      <3>1. i \in 1 .. Len(s) - (Len(s) - k + 1) + 1 /\ Len(s) - k + 1 + i - 1 = Len(s) - k + i
        BY <1>0
      <3> QED
        BY <2>4, <3>1
    <2>7. EndOf(l, s, k)
      BY <1>0, <1>2, <2>5, <2>6 DEF EndOf
    <2> QED
      BY <2>2, <2>4, <2>7 DEF l
  <1> QED
    BY <1>0, <1>1, <1>2

\* The last of a sequence that grew are those of its last and the new one.
LEMMA LastOfAppend ==
    ASSUME NEW S, NEW s \in Seq(S), NEW t \in Seq(S), NEW x \in S, NEW k \in Nat,
           Thread!LastOf(s, k) = Thread!LastOf(t, k)
    PROVE  Thread!LastOf(Append(s, x), k) = Thread!LastOf(Append(t, x), k)
  <1> DEFINE a == Thread!LastOf(s, k)
             ss == Append(s, x)
             tt == Append(t, x)
             b == Thread!LastOf(ss, k)
             c == Thread!LastOf(tt, k)
  <1>1. /\ ss \in Seq(S) /\ Len(ss) = Len(s) + 1
        /\ tt \in Seq(S) /\ Len(tt) = Len(t) + 1
        /\ Len(s) \in Nat /\ Len(t) \in Nat
        /\ \A i \in 1 .. Len(s) : ss[i] = s[i]
        /\ \A i \in 1 .. Len(t) : tt[i] = t[i]
        /\ ss[Len(s) + 1] = x /\ tt[Len(t) + 1] = x
    BY AppendProperties, LenProperties
  <1> HIDE DEF ss, tt
  <1>2. EndOf(a, s, k) /\ EndOf(a, t, k)
    BY LastOfType
  <1>3. b \in Seq(S) /\ EndOf(b, ss, k)
    BY <1>1, LastOfType
  <1>4. c \in Seq(S) /\ EndOf(c, tt, k)
    BY <1>1, LastOfType
  <1> HIDE DEF a, b, c
  <1>5. Len(b) = Len(c) /\ Len(b) \in Nat
    BY <1>1, <1>2, <1>3, <1>4 DEF EndOf
  <1>6. ASSUME NEW i \in 1 .. Len(b)
        PROVE  b[i] = c[i]
    <2>1. b[i] = ss[Len(ss) - Len(b) + i] /\ c[i] = tt[Len(tt) - Len(c) + i]
      BY <1>3, <1>4, <1>5 DEF EndOf
    <2>2. CASE i = Len(b)
      BY <1>1, <1>5, <2>1, <2>2
    <2>3. CASE i < Len(b)
      <3> DEFINE d == Len(a) - Len(b) + 1 + i
      <3>1. /\ d \in 1 .. Len(a) /\ Len(a) \in Nat
            /\ Len(ss) - Len(b) + i \in 1 .. Len(s) /\ Len(tt) - Len(c) + i \in 1 .. Len(t)
        <4>1. /\ Len(a) \in Nat
              /\ Len(s) <= k => Len(a) = Len(s)
              /\ Len(t) <= k => Len(a) = Len(t)
              /\ Len(s) > k => Len(a) = k
              /\ Len(t) > k => Len(a) = k
          BY <1>2 DEF EndOf
        <4>2. /\ Len(ss) <= k => Len(b) = Len(ss)
              /\ Len(ss) > k => Len(b) = k
              /\ Len(tt) <= k => Len(c) = Len(tt)
              /\ Len(tt) > k => Len(c) = k
          BY <1>3, <1>4 DEF EndOf
        <4>3. /\ Len(ss) = Len(s) + 1 /\ Len(tt) = Len(t) + 1
              /\ Len(s) \in Nat /\ Len(t) \in Nat
          BY <1>1
        <4> QED
          BY <1>5, <2>3, <4>1, <4>2, <4>3
      <3>2. /\ Len(ss) - Len(b) + i = Len(s) - Len(a) + d
            /\ Len(tt) - Len(c) + i = Len(t) - Len(a) + d
        BY <1>1, <1>5, <3>1
      <3> HIDE DEF d
      <3>3. b[i] = s[Len(s) - Len(a) + d] /\ c[i] = t[Len(t) - Len(a) + d]
        BY <1>1, <2>1, <3>1, <3>2
      <3> QED
        BY <1>2, <3>1, <3>3 DEF EndOf
    <2> QED
      BY <1>5, <2>2, <2>3
  <1>7. b = c
    BY <1>3, <1>4, <1>5, <1>6, SeqEqual
  <1> QED
    BY <1>7 DEF b, c, ss, tt

\* A window on a longer window is one on the sequence itself.
LEMMA LastOfLastOf ==
    ASSUME NEW S, NEW s \in Seq(S), NEW k \in Nat \ {0}
    PROVE  Thread!LastOf(Thread!LastOf(s, k), k - 1) = Thread!LastOf(s, k - 1)
  <1> DEFINE a == Thread!LastOf(s, k)
             b == Thread!LastOf(a, k - 1)
             c == Thread!LastOf(s, k - 1)
  <1>0. k - 1 \in Nat
    OBVIOUS
  <1>1. a \in Seq(S) /\ EndOf(a, s, k)
    BY LastOfType
  <1> HIDE DEF a
  <1>2. b \in Seq(S) /\ EndOf(b, a, k - 1)
    BY <1>0, <1>1, LastOfType
  <1>3. c \in Seq(S) /\ EndOf(c, s, k - 1)
    BY <1>0, LastOfType
  <1> HIDE DEF b, c
  <1>4. Len(b) = Len(c) /\ Len(b) \in Nat /\ Len(a) \in Nat /\ Len(s) \in Nat
    BY <1>1, <1>2, <1>3 DEF EndOf
  <1>5. ASSUME NEW i \in 1 .. Len(b)
        PROVE  b[i] = c[i]
    <2> DEFINE d == Len(a) - Len(b) + i
    <2>1. d \in 1 .. Len(a)
      BY <1>0, <1>1, <1>2, <1>4 DEF EndOf
    <2>2. b[i] = a[d]
      BY <1>2 DEF EndOf
    <2>3. Len(s) - Len(a) + d = Len(s) - Len(c) + i
      BY <1>4
    <2> HIDE DEF d
    <2>4. a[d] = s[Len(s) - Len(a) + d]
      BY <1>1, <2>1 DEF EndOf
    <2>5. c[i] = s[Len(s) - Len(c) + i]
      BY <1>3, <1>4 DEF EndOf
    <2> QED
      BY <2>2, <2>3, <2>4, <2>5
  <1>6. b = c
    BY <1>2, <1>3, <1>4, <1>5, SeqEqual
  <1> QED
    BY <1>6 DEF a, b, c

LEMMA FiniteUsers ==
    ASSUME NEW S \in SUBSET Message
    PROVE  IsFiniteSet(S) /\ Cardinality(S) \in Nat
  BY QuestionAnsweringAssumption, FS_Subset, FS_CardinalityType

\* A turn is replaced by another of its type.
LEMMA TurnSet ==
    ASSUME turn \in [Message -> Turn], NEW m \in Message, NEW next \in Turn,
           turn' = [turn EXCEPT ![m] = next]
    PROVE  /\ turn' \in [Message -> Turn] /\ turn'[m] = next
           /\ \A n \in Message \ {m} : turn'[n] = turn[n]
  OBVIOUS

\* A step that leaves the lock alone: the turn keeps its lock, and does not come to hold it.
LEMMA LockStays ==
    ASSUME OneLock, NEW m \in Message,
           entry' = entry, users' = users, holder' = holder,
           \A n \in Message \ {m} : turn'[n] = turn[n],
           turn'[m].lock = turn[m].lock, Active(m), Active(m)', Holding(m)' => Holding(m)
    PROVE  OneLock'
  <1>1. \A n \in Message : /\ Active(n)' <=> Active(n)
                           /\ turn'[n].lock = turn[n].lock
                           /\ Holding(n)' => Holding(n)
    BY DEF Active, Holding, Thread!InGraph
  <1>2. \A l \in Thread!Locks : UsersOf(l)' = UsersOf(l)
    BY <1>1 DEF UsersOf
  <1>3. \A n \in Message : turn'[n].at = "absent" => turn'[n].lock = 0
    BY DEF OneLock, Active
  <1> QED
    BY <1>1, <1>2, <1>3 DEF OneLock

LEMMA EnterLock ==
    ASSUME ThreadTypeOK, OneLock, NEW m \in Message, Thread!Enter(m)
    PROVE  /\ ThreadTypeOK' /\ OneLock'
           /\ \A n \in Message \ {m} : turn'[n] = turn[n]
           /\ turn[m].at = "absent"
           /\ \E l \in Thread!Locks :
                 turn'[m] = [turn[m] EXCEPT !.at = "waiting", !.lock = l]
           /\ holder' = holder /\ saved' = saved /\ began' = began
  <1> DEFINE l == IF entry # 0 THEN entry
                  ELSE CHOOSE x \in Thread!Locks : \A n \in Message : turn[n].lock # x
             next == [turn[m] EXCEPT !.at = "waiting", !.lock = l]
  <1>1. /\ turn[m].at = "absent" /\ turn[m].lock = 0
        /\ entry' = l /\ users' = [users EXCEPT ![l] = @ + 1]
        /\ turn' = [turn EXCEPT ![m] = next]
        /\ holder' = holder /\ saved' = saved /\ began' = began
    <2>1. /\ turn[m].at = "absent"
          /\ entry' = l /\ users' = [users EXCEPT ![l] = @ + 1]
          /\ turn' = [turn EXCEPT ![m].at = "waiting", ![m].lock = l]
          /\ holder' = holder /\ saved' = saved /\ began' = began
      BY DEF Thread!Enter
    <2> HIDE DEF l
    <2>2. turn' = [turn EXCEPT ![m] = [@ EXCEPT !.at = "waiting", !.lock = l]]
      BY <2>1 DEF ThreadTypeOK, Turn
    <2> QED
      BY <2>1, <2>2 DEF OneLock
  <1>2. l \in Thread!Locks /\ (entry # 0 => l = entry)
    BY <1>1, NewLock DEF ThreadTypeOK
  <1> HIDE DEF l
  <1>3. l # 0
    BY <1>2, QuestionAnsweringAssumption, FS_CardinalityType DEF Thread!Locks
  <1>4. next \in Turn /\ next.at = "waiting" /\ next.lock = l
    BY <1>2 DEF ThreadTypeOK, Turn
  <1> HIDE DEF next
  <1>5. /\ turn' \in [Message -> Turn] /\ turn'[m] = next
        /\ \A n \in Message \ {m} : turn'[n] = turn[n]
    BY <1>1, <1>4, TurnSet DEF ThreadTypeOK
  <1>6. ThreadTypeOK'
    BY <1>1, <1>2, <1>5 DEF ThreadTypeOK
  <1>7. \A n \in Message :
           /\ turn'[n].at = "absent" => turn'[n].lock = 0
           /\ Active(n)' => turn'[n].lock = entry' /\ entry' # 0
           /\ Holding(n)' => holder'[turn'[n].lock] = n
    BY <1>1, <1>2, <1>3, <1>4, <1>5 DEF OneLock, Active, Holding, Thread!InGraph
  <1>8. \A x \in Thread!Locks : UsersOf(x)' = IF x = l THEN UsersOf(x) \cup {m} ELSE UsersOf(x)
    BY <1>1, <1>4, <1>5 DEF UsersOf, Active
  <1>9. m \notin UsersOf(l)
    BY <1>1 DEF UsersOf, Active
  <1>10. ASSUME NEW x \in Thread!Locks
         PROVE  users'[x] = Cardinality(UsersOf(x)')
    <2>1. IsFiniteSet(UsersOf(l))
      BY FiniteUsers DEF UsersOf
    <2>2. Cardinality(UsersOf(l) \cup {m}) = Cardinality(UsersOf(l)) + 1
      BY <1>9, <2>1, FS_AddElement
    <2>3. users[x] = Cardinality(UsersOf(x))
      BY DEF OneLock
    <2>4. users'[x] = IF x = l THEN users[x] + 1 ELSE users[x]
      BY <1>1, <1>2 DEF ThreadTypeOK
    <2> QED
      BY <1>8, <2>2, <2>3, <2>4
  <1>11. OneLock'
    BY <1>7, <1>10 DEF OneLock
  <1> QED
    BY <1>1, <1>2, <1>5, <1>6, <1>11 DEF next

LEMMA LeaveLock ==
    ASSUME ThreadTypeOK, OneLock, NEW m \in Message, Thread!Leave(m)
    PROVE  /\ ThreadTypeOK' /\ OneLock'
           /\ \A n \in Message \ {m} : turn'[n] = turn[n]
           /\ turn[m].at = "leaving"
           /\ turn'[m] = [turn[m] EXCEPT !.at = "left"]
           /\ holder' = holder /\ saved' = saved /\ began' = began
  <1> DEFINE l == turn[m].lock
             next == [turn[m] EXCEPT !.at = "left"]
  <1>1. /\ turn[m].at = "leaving"
        /\ users' = [users EXCEPT ![l] = @ - 1]
        /\ entry' = IF users[l] = 1 THEN 0 ELSE entry
        /\ turn' = [turn EXCEPT ![m] = next]
        /\ holder' = holder /\ saved' = saved /\ began' = began
    BY DEF Thread!Leave, Thread!Dropped, Thread!Goes
  <1>2. l = entry /\ entry # 0 /\ l \in Thread!Locks
    BY <1>1 DEF OneLock, Active, ThreadTypeOK
  <1>3. next \in Turn /\ next.at = "left" /\ next.lock = l
    BY <1>1 DEF ThreadTypeOK, Turn
  <1> HIDE DEF l
  <1>4. /\ turn' \in [Message -> Turn] /\ turn'[m] = next
        /\ \A n \in Message \ {m} : turn'[n] = turn[n]
    <2> HIDE DEF next
    <2> QED
      BY <1>1, <1>3, TurnSet DEF ThreadTypeOK
  <1> HIDE DEF next
  <1>5. m \in UsersOf(l)
    BY <1>1 DEF UsersOf, Active, l
  <1>6. /\ IsFiniteSet(UsersOf(l)) /\ Cardinality(UsersOf(l)) \in Nat
        /\ Cardinality(UsersOf(l) \ {m}) = Cardinality(UsersOf(l)) - 1
        /\ Cardinality(UsersOf(l) \ {m}) \in Nat
    <2>1. UsersOf(l) \in SUBSET Message /\ UsersOf(l) \ {m} \in SUBSET Message
      BY DEF UsersOf
    <2> QED
      BY <1>5, <2>1, FiniteUsers, FS_RemoveElement
  <1>7. \A x \in Thread!Locks : UsersOf(x)' = IF x = l THEN UsersOf(x) \ {m} ELSE UsersOf(x)
    BY <1>1, <1>3, <1>4 DEF UsersOf, Active, l
  <1>8. ASSUME NEW x \in Thread!Locks
        PROVE  users'[x] = Cardinality(UsersOf(x)') /\ users'[x] \in Nat
    <2>1. users[x] = Cardinality(UsersOf(x)) /\ users[x] \in Nat
      BY DEF OneLock, ThreadTypeOK
    <2>2. users'[x] = IF x = l THEN users[x] - 1 ELSE users[x]
      BY <1>1, <1>2 DEF ThreadTypeOK
    <2> QED
      BY <1>6, <1>7, <2>1, <2>2
  <1>9. users' \in [Thread!Locks -> Nat]
    BY <1>1, <1>8 DEF ThreadTypeOK
  <1>10. ThreadTypeOK'
    BY <1>1, <1>4, <1>9 DEF ThreadTypeOK
  <1>11. ASSUME users[l] = 1, NEW n \in Message, Active(n)
         PROVE  n = m
    <2>1. n \in UsersOf(l)
      BY <1>2, <1>11 DEF OneLock, UsersOf
    <2>2. Cardinality(UsersOf(l)) = 1
      BY <1>2, <1>11 DEF OneLock
    <2>3. PICK u : UsersOf(l) = {u}
      BY <1>6, <2>2, FS_Singleton
    <2> QED
      BY <1>5, <2>1, <2>3
  <1>12. \A n \in Message :
            /\ turn'[n].at = "absent" => turn'[n].lock = 0
            /\ Active(n)' => turn'[n].lock = entry' /\ entry' # 0
            /\ Holding(n)' => holder'[turn'[n].lock] = n
    <2> SUFFICES ASSUME NEW n \in Message
                 PROVE  /\ turn'[n].at = "absent" => turn'[n].lock = 0
                        /\ Active(n)' => turn'[n].lock = entry' /\ entry' # 0
                        /\ Holding(n)' => holder'[turn'[n].lock] = n
      OBVIOUS
    <2>1. CASE n = m
      BY <1>3, <1>4, <2>1 DEF Active, Holding, Thread!InGraph
    <2>2. CASE n # m
      <3>1. turn'[n] = turn[n]
        BY <1>4, <2>2
      <3> QED
        BY <1>1, <1>11, <2>2, <3>1 DEF OneLock, Active, Holding, Thread!InGraph
    <2> QED
      BY <2>1, <2>2
  <1>13. OneLock'
    BY <1>8, <1>12 DEF OneLock
  <1> QED
    BY <1>1, <1>4, <1>10, <1>13 DEF next

LEMMA OthersKeep ==
    ASSUME ThreadInv, NEW m \in Message, NEW n \in Message \ {m}, turn'[n] = turn[n],
           began' = began, saved' = saved \/ Holding(m)
    PROVE  InTurn(n)' /\ OwnAnswers(n, turn'[n])
  <1>1. InTurn(n) /\ OwnAnswers(n, turn[n])
    BY DEF ThreadInv
  <1>2. Thread!InGraph(n) => saved' = saved
    BY OneHolds DEF ThreadInv, Holding
  <1>3. Thread!InGraph(n)' <=> Thread!InGraph(n)
    BY DEF Thread!InGraph
  <1>4. Thread!History(n)' = Thread!History(n) /\ Thread!Earlier(n)' = Thread!Earlier(n)
    BY DEF Thread!History, Thread!Earlier
  <1> QED
    BY <1>1, <1>2, <1>3, <1>4 DEF InTurn

\* A step of the graph that saves its state.
LEMMA SaveStep ==
    ASSUME ThreadInv, NEW m \in Message, Thread!InGraph(m), NEW next \in Turn,
           Thread!Steps(m, next), UNCHANGED <<entry, users, holder, began>>,
           next.lock = turn[m].lock,
           next.at \in {"working", "finishing", "aggregating", "cleaning", "stopped"},
           \/ next.messages = turn[m].messages
           \/ next.at = "stopped" /\ next.messages = Thread!LastOf(turn[m].messages, Keep),
           OwnAnswers(m, next)
    PROVE  ThreadInv'
  <1>1. /\ turn' \in [Message -> Turn] /\ turn'[m] = next
        /\ \A n \in Message \ {m} : turn'[n] = turn[n]
    BY TurnSet DEF Thread!Steps, ThreadInv, ThreadTypeOK
  <1>2. saved'.messages = next.messages /\ next.messages \in Seq(Message)
    BY DEF Thread!Steps, Turn
  <1>3. ThreadTypeOK'
    BY <1>1, <1>2 DEF ThreadInv, ThreadTypeOK
  <1>4. OneLock'
    BY <1>1, LockStays DEF ThreadInv, Active, Holding, Thread!InGraph
  <1>5. saved.messages = turn[m].messages /\ saved.messages \in Seq(Message)
    BY DEF ThreadInv, InTurn, ThreadTypeOK
  <1>6. Remembered'
    <2>1. Thread!LastOf(saved'.messages, Keep - 1) = Thread!LastOf(saved.messages, Keep - 1)
      BY <1>2, <1>5, LastOfLastOf, QuestionAnsweringAssumption
    <2> QED
      BY <2>1 DEF ThreadInv, Remembered
  <1>7. InTurn(m)' /\ OwnAnswers(m, turn'[m])
    BY <1>1, <1>2 DEF ThreadInv, InTurn, Thread!InGraph
  <1>8. \A n \in Message \ {m} : InTurn(n)' /\ OwnAnswers(n, turn'[n])
    BY <1>1, OthersKeep DEF Holding
  <1> QED
    BY <1>3, <1>4, <1>6, <1>7, <1>8 DEF ThreadInv

LEMMA TurnGoesTo ==
    ASSUME NEW t \in Turn, NEW a \in {"held", "working", "stopped", "leaving"}
    PROVE  [t EXCEPT !.at = a] \in Turn /\ [t EXCEPT !.at = a].at = a
  BY DEF Turn

\* A turn that goes to another place with what it has.
LEMMA GoesOn ==
    ASSUME ThreadInv, NEW m \in Message, NEW a \in {"held", "working", "stopped", "leaving"},
           turn' = [turn EXCEPT ![m].at = a], saved' = saved, began' = began,
           a = "held" => turn[m].at = "waiting",
           a = "working" => turn[m].at = "working",
           users' \in [Thread!Locks -> Nat], holder' \in [Thread!Locks -> Message \cup {Nobody}],
           entry' = entry, OneLock'
    PROVE  ThreadInv'
  <1> DEFINE next == [turn[m] EXCEPT !.at = a]
  <1>1. next \in Turn /\ next.at = a
    <2>1. turn[m] \in Turn
      BY DEF ThreadInv, ThreadTypeOK
    <2>2. PICK t \in Turn : t = turn[m]
      BY <2>1
    <2>3. [t EXCEPT !.at = a] \in Turn /\ [t EXCEPT !.at = a].at = a
      BY TurnGoesTo, Zenon
    <2> QED
      BY <2>2, <2>3, Zenon
  <1>2. turn' = [turn EXCEPT ![m] = next]
    OBVIOUS
  <1>3. next.messages = turn[m].messages /\ OwnAnswers(m, next)
    BY Zenon DEF ThreadInv, ThreadTypeOK, Turn, OwnAnswers
  <1> HIDE DEF next
  <1>4. /\ turn' \in [Message -> Turn] /\ turn'[m] = next
        /\ \A n \in Message \ {m} : turn'[n] = turn[n]
    BY <1>1, <1>2, TurnSet DEF ThreadInv, ThreadTypeOK
  <1>5. ThreadTypeOK'
    BY <1>4 DEF ThreadInv, ThreadTypeOK
  <1>6. InTurn(m)'
    BY <1>1, <1>3, <1>4 DEF ThreadInv, InTurn, Thread!InGraph
  <1>7. \A n \in Message \ {m} : InTurn(n)' /\ OwnAnswers(n, turn'[n])
    BY <1>4, OthersKeep
  <1>8. Remembered'
    BY DEF ThreadInv, Remembered
  <1> QED
    BY <1>3, <1>4, <1>5, <1>6, <1>7, <1>8 DEF ThreadInv

\* A turn enters the graph: what it is given ends like the turns before it.
LEMMA BeginStep ==
    ASSUME ThreadInv, NEW m \in Message, Thread!Begin(m)
    PROVE  ThreadInv'
  <1> DEFINE next == Thread!Input(m)
  <1>1. /\ turn[m].at = "held" /\ Thread!Steps(m, next) /\ began' = Append(began, m)
        /\ UNCHANGED <<entry, users, holder>>
    BY DEF Thread!Begin
  <1>2. /\ saved.messages \in Seq(Message) /\ began \in Seq(Message) /\ turn[m] \in Turn
        /\ turn \in [Message -> Turn]
    BY DEF ThreadInv, ThreadTypeOK
  <1>3. /\ Append(saved.messages, m) \in Seq(Message)
        /\ Append(began, m) \in Seq(Message) /\ Len(began) \in Nat
        /\ Len(Append(began, m)) = Len(began) + 1 /\ Append(began, m) # <<>>
        /\ Append(began, m)[Len(began) + 1] = m
        /\ \A i \in 1 .. Len(began) : Append(began, m)[i] = began[i]
    BY <1>2, AppendProperties, LenProperties
  <1>4. /\ next \in Turn /\ next.at = "decomposing" /\ next.lock = turn[m].lock
        /\ next.messages = Append(saved.messages, m) /\ next.answers = <<>>
        /\ next.final = turn[m].final
    <2>1. <<>> \in Answers
      BY EmptySeq DEF Answers
    <2>2. next = [turn[m] EXCEPT !.at = "decomposing", !.messages = Append(saved.messages, m),
                                 !.answers = <<>>]
      BY DEF Thread!Input
    <2> QED
      BY <1>2, <1>3, <2>1, <2>2 DEF Turn
  <1> HIDE DEF next
  <1>5. /\ turn' \in [Message -> Turn] /\ turn'[m] = next
        /\ \A n \in Message \ {m} : turn'[n] = turn[n]
        /\ saved'.messages = next.messages
    BY <1>1, <1>2, <1>4, TurnSet DEF Thread!Steps
  <1>6. ThreadTypeOK'
    BY <1>1, <1>3, <1>4, <1>5 DEF ThreadInv, ThreadTypeOK
  <1>7. OneLock'
    BY <1>1, <1>4, <1>5, LockStays DEF ThreadInv, Active, Holding, Thread!InGraph
  <1>8. Remembered'
    BY <1>1, <1>2, <1>4, <1>5, LastOfAppend, QuestionAnsweringAssumption DEF ThreadInv, Remembered
  <1>9. OwnAnswers(m, turn'[m])
    BY <1>1, <1>4, <1>5 DEF ThreadInv, OwnAnswers
  <1>10. \A i \in 1 .. Len(began) : began[i] # m
    BY <1>1 DEF ThreadInv, InTurn
  <1>11. ASSUME NEW n \in Message \ {m}
         PROVE  InTurn(n)' /\ OwnAnswers(n, turn'[n])
    <2>1. InTurn(n) /\ OwnAnswers(n, turn[n]) /\ turn'[n] = turn[n]
      BY <1>5 DEF ThreadInv
    <2>2. ~Thread!InGraph(n)
      BY <1>1, OneHolds DEF ThreadInv, Holding
    <2>3. \A i \in 1 .. Len(began') : began'[i] = m \/ (i \in 1 .. Len(began) /\ began'[i] = began[i])
      BY <1>1, <1>3
    <2> QED
      BY <2>1, <2>2, <2>3 DEF InTurn, Thread!InGraph
  <1>12. Thread!Earlier(m)' = Len(began)
    <2>1. DOMAIN began' = 1 .. Len(began) + 1
      BY <1>1, <1>3, LenProperties
    <2>2. \A i \in DOMAIN began' : began'[i] = m <=> i = Len(began) + 1
      BY <1>1, <1>3, <1>10, <2>1
    <2>3. (CHOOSE i \in DOMAIN began' : began'[i] = m) = Len(began) + 1
      BY <1>3, <2>1, <2>2
    <2> DEFINE last == CHOOSE i \in DOMAIN began' : began'[i] = m
    <2>4. Thread!Earlier(m)' = last - 1
      BY DEF Thread!Earlier
    <2>5. last = Len(began) + 1
      BY <2>3
    <2> HIDE DEF last
    <2> QED
      BY <1>3, <2>4, <2>5
  <1>13. SubSeq(began', 1, Len(began)) = began
    <2>1. \A i \in 1 .. Len(began) : began'[i] \in Message
      BY <1>1, <1>3, <1>2
    <2>2. /\ SubSeq(began', 1, Len(began)) \in Seq(Message)
          /\ Len(SubSeq(began', 1, Len(began))) = Len(began)
          /\ \A i \in 1 .. Len(began) : SubSeq(began', 1, Len(began))[i] = began[i]
      BY <1>1, <1>3, <2>1, SubSeqProperties
    <2> QED
      BY <1>2, <2>2, SeqEqual
  <1>14. Thread!History(m)' = Thread!LastOf(saved.messages, Keep - 1)
    <2> DEFINE s == Append(saved.messages, m)
    <2>1. /\ Len(s) = Len(saved.messages) + 1 /\ Len(saved.messages) \in Nat
          /\ \A i \in 1 .. Len(saved.messages) : s[i] = saved.messages[i]
      BY <1>2, AppendProperties, LenProperties
    <2>2. turn'[m].messages = s
      BY <1>4, <1>5
    <2> HIDE DEF s
    <2>3. \A i \in 1 .. Len(saved.messages) : saved.messages[i] \in Message
      BY <1>2
    <2>4. Len(s) - 1 = Len(saved.messages)
      BY <2>1
    <2>5. /\ SubSeq(s, 1, Len(saved.messages)) \in Seq(Message)
          /\ Len(SubSeq(s, 1, Len(saved.messages))) = Len(saved.messages)
          /\ \A i \in 1 .. Len(saved.messages) :
                SubSeq(s, 1, Len(saved.messages))[i] = saved.messages[i]
      BY <2>1, <2>3, SubSeqProperties
    <2>6. SubSeq(s, 1, Len(saved.messages)) = saved.messages
      BY <1>2, <2>5, SeqEqual
    <2> QED
      BY <2>2, <2>4, <2>6 DEF Thread!History, Thread!Front
  <1>15. InTurn(m)'
    BY <1>1, <1>3, <1>4, <1>5, <1>12, <1>13, <1>14 DEF ThreadInv, Remembered, InTurn, Thread!InGraph
  <1> QED
    BY <1>6, <1>7, <1>8, <1>9, <1>11, <1>15 DEF ThreadInv

\* What the steps of the graph make of a turn.
LEMMA GraphStep ==
    ASSUME ThreadInv, NEW m \in Message,
           \/ Thread!Decompose(m) \/ Thread!Merge(m) \/ Thread!FinalAnswer(m)
           \/ Thread!Aggregate(m) \/ Thread!Cleanup(m)
    PROVE  ThreadInv'
  <1> DEFINE all == [i \in 1 .. turn[m].queries |-> <<m, i>>]
  <1>0. /\ turn[m] \in Turn /\ OwnAnswers(m, turn[m]) /\ <<>> \in Answers
        /\ turn[m].queries \in Nat /\ turn[m].messages \in Seq(Message)
        /\ turn[m].answers \in Answers
    BY EmptySeq DEF ThreadInv, ThreadTypeOK, Turn, Answers
  <1>1. all \in Answers /\ Len(all) = turn[m].queries
    <2>1. all \in [1 .. turn[m].queries -> Message \X Nat]
      BY <1>0
    <2> HIDE DEF all
    <2> QED
      BY <1>0, <2>1, IsASeq, LenProperties DEF Answers
  <1>2. CASE Thread!Decompose(m)
    <2>1. PICK n \in 0 .. MaxSubQueries :
             Thread!Steps(m, [turn[m] EXCEPT !.queries = n, !.at = IF n = 0 THEN "stopped" ELSE "working"])
      BY <1>2 DEF Thread!Decompose
    <2> DEFINE next == [turn[m] EXCEPT !.queries = n, !.at = IF n = 0 THEN "stopped" ELSE "working"]
    <2>2. turn[m].at = "decomposing" /\ UNCHANGED <<entry, users, holder, began>> /\ n \in Nat
      <3>1. n \in Nat
        BY QuestionAnsweringAssumption
      <3> QED
        BY <1>2, <3>1 DEF Thread!Decompose
    <2>3. /\ next \in Turn /\ next.at \in {"stopped", "working"} /\ next.lock = turn[m].lock
          /\ next.messages = turn[m].messages /\ next.answers = turn[m].answers
          /\ next.final = turn[m].final
      BY <1>0, <2>2 DEF Turn
    <2> HIDE DEF next
    <2>4. OwnAnswers(m, next)
      BY <1>0, <2>2, <2>3 DEF OwnAnswers
    <2>5. Thread!Steps(m, next)
      BY <2>1 DEF next
    <2> QED
      BY <2>2, <2>3, <2>4, <2>5, SaveStep DEF Thread!InGraph
  <1>3. CASE Thread!Merge(m)
    <2> DEFINE next == [turn[m] EXCEPT !.answers = turn[m].answers \o all,
                                       !.at = IF turn[m].queries = 1 THEN "finishing" ELSE "aggregating"]
    <2>1. /\ turn[m].at = "working" /\ UNCHANGED <<entry, users, holder, began>>
          /\ Thread!Steps(m, next)
      BY <1>3 DEF Thread!Merge
    <2>2. turn[m].answers \o all = all
      <3>1. turn[m].answers = <<>>
        BY <1>0, <2>1 DEF OwnAnswers
      <3> HIDE DEF all
      <3> QED
        BY <1>1, <3>1, ConcatEmptySeq DEF Answers
    <2>3. /\ next \in Turn /\ next.lock = turn[m].lock /\ next.messages = turn[m].messages
          /\ next.at = IF turn[m].queries = 1 THEN "finishing" ELSE "aggregating"
          /\ next.answers = all /\ next.final = turn[m].final /\ next.queries = turn[m].queries
      <3> HIDE DEF all
      <3> QED
        BY <1>0, <1>1, <2>2 DEF Turn
    <2> HIDE DEF next
    <2>4. OwnAnswers(m, next)
      BY <1>0, <2>1, <2>3 DEF OwnAnswers
    <2> HIDE DEF all
    <2> QED
      BY <2>1, <2>3, <2>4, SaveStep DEF Thread!InGraph
  <1>4. CASE Thread!FinalAnswer(m)
    <2> DEFINE next == [turn[m] EXCEPT !.final = Thread!LastOf(turn[m].answers, 1), !.at = "cleaning"]
    <2>1. /\ turn[m].at = "finishing" /\ UNCHANGED <<entry, users, holder, began>>
          /\ Thread!Steps(m, next)
      BY <1>4 DEF Thread!FinalAnswer
    <2>2. turn[m].answers = all /\ turn[m].queries = 1
      BY <1>0, <2>1 DEF OwnAnswers
    <2>3. Thread!LastOf(turn[m].answers, 1) = all
      BY <1>1, <2>2 DEF Thread!LastOf
    <2>4. /\ next \in Turn /\ next.lock = turn[m].lock /\ next.messages = turn[m].messages
          /\ next.at = "cleaning" /\ next.final = all /\ next.queries = turn[m].queries
      <3> HIDE DEF all
      <3> QED
        BY <1>0, <1>1, <2>3 DEF Turn
    <2> HIDE DEF next
    <2>5. OwnAnswers(m, next)
      BY <2>4 DEF OwnAnswers
    <2> HIDE DEF all
    <2> QED
      BY <2>1, <2>4, <2>5, SaveStep DEF Thread!InGraph
  <1>5. CASE Thread!Aggregate(m)
    <2> DEFINE next == [turn[m] EXCEPT !.final = turn[m].answers, !.at = "cleaning"]
    <2>1. /\ turn[m].at = "aggregating" /\ UNCHANGED <<entry, users, holder, began>>
          /\ Thread!Steps(m, next)
      BY <1>5 DEF Thread!Aggregate
    <2>2. turn[m].answers = all
      BY <1>0, <2>1 DEF OwnAnswers
    <2>3. /\ next \in Turn /\ next.lock = turn[m].lock /\ next.messages = turn[m].messages
          /\ next.at = "cleaning" /\ next.final = all /\ next.queries = turn[m].queries
      <3> HIDE DEF all
      <3> QED
        BY <1>0, <1>1, <2>2 DEF Turn
    <2> HIDE DEF next
    <2>4. OwnAnswers(m, next)
      BY <2>3 DEF OwnAnswers
    <2> HIDE DEF all
    <2> QED
      BY <2>1, <2>3, <2>4, SaveStep DEF Thread!InGraph
  <1>6. CASE Thread!Cleanup(m)
    <2> DEFINE next == [turn[m] EXCEPT !.messages = Thread!LastOf(turn[m].messages, Keep),
                                       !.answers = <<>>, !.at = "stopped"]
    <2>1. /\ turn[m].at = "cleaning" /\ UNCHANGED <<entry, users, holder, began>>
          /\ Thread!Steps(m, next)
      BY <1>6 DEF Thread!Cleanup
    <2>2. Thread!LastOf(turn[m].messages, Keep) \in Seq(Message)
      BY <1>0, LastOfType, QuestionAnsweringAssumption
    <2>3. /\ next \in Turn /\ next.lock = turn[m].lock
          /\ next.messages = Thread!LastOf(turn[m].messages, Keep)
          /\ next.at = "stopped" /\ next.final = turn[m].final /\ next.queries = turn[m].queries
      BY <1>0, <2>2 DEF Turn
    <2> HIDE DEF next
    <2>4. OwnAnswers(m, next)
      BY <1>0, <2>3 DEF OwnAnswers
    <2> HIDE DEF all
    <2> QED
      BY <2>1, <2>3, <2>4, SaveStep DEF Thread!InGraph
  <1> HIDE DEF all
  <1> QED
    BY <1>2, <1>3, <1>4, <1>5, <1>6

LEMMA ThreadStep ==
    ASSUME ThreadInv, Thread!Next
    PROVE  ThreadInv'
  <1>0. ThreadTypeOK /\ OneLock
    BY DEF ThreadInv
  <1>1. ASSUME NEW m \in Message, Thread!Enter(m)
        PROVE  ThreadInv'
    <2>1. /\ ThreadTypeOK' /\ OneLock' /\ turn[m].at = "absent"
          /\ \A n \in Message \ {m} : turn'[n] = turn[n]
          /\ saved' = saved /\ began' = began
      BY <1>0, <1>1, EnterLock
    <2>2. PICK l \in Thread!Locks : turn'[m] = [turn[m] EXCEPT !.at = "waiting", !.lock = l]
      BY <1>0, <1>1, EnterLock
    <2>3. /\ turn'[m].at = "waiting" /\ turn'[m].answers = turn[m].answers
          /\ turn'[m].queries = turn[m].queries /\ turn'[m].final = turn[m].final
      BY <1>0, <2>2 DEF ThreadTypeOK, Turn
    <2>4. InTurn(m)' /\ OwnAnswers(m, turn'[m])
      BY <2>1, <2>3 DEF ThreadInv, InTurn, OwnAnswers, Thread!InGraph
    <2>5. \A n \in Message \ {m} : InTurn(n)' /\ OwnAnswers(n, turn'[n])
      BY <2>1, OthersKeep
    <2> QED
      BY <2>1, <2>4, <2>5 DEF ThreadInv, Remembered
  <1>2. ASSUME NEW m \in Message, Thread!Leave(m)
        PROVE  ThreadInv'
    <2>1. /\ ThreadTypeOK' /\ OneLock' /\ turn[m].at = "leaving"
          /\ turn'[m] = [turn[m] EXCEPT !.at = "left"]
          /\ \A n \in Message \ {m} : turn'[n] = turn[n]
          /\ saved' = saved /\ began' = began
      BY <1>0, <1>2, LeaveLock
    <2>2. /\ turn'[m].at = "left" /\ turn'[m].answers = turn[m].answers
          /\ turn'[m].queries = turn[m].queries /\ turn'[m].final = turn[m].final
      BY <1>0, <2>1 DEF ThreadTypeOK, Turn
    <2>3. InTurn(m)' /\ OwnAnswers(m, turn'[m])
      BY <2>1, <2>2 DEF ThreadInv, InTurn, OwnAnswers, Thread!InGraph
    <2>4. \A n \in Message \ {m} : InTurn(n)' /\ OwnAnswers(n, turn'[n])
      BY <2>1, OthersKeep
    <2> QED
      BY <2>1, <2>3, <2>4 DEF ThreadInv, Remembered
  <1>3. ASSUME NEW m \in Message, Thread!Acquire(m)
        PROVE  ThreadInv'
    <2>1. /\ turn[m].at = "waiting" /\ holder[turn[m].lock] = Nobody
          /\ holder' = [holder EXCEPT ![turn[m].lock] = m]
          /\ turn' = [turn EXCEPT ![m].at = "held"]
          /\ entry' = entry /\ users' = users /\ saved' = saved /\ began' = began
      BY <1>3 DEF Thread!Acquire, Thread!Goes
    <2>2. turn[m].lock = entry /\ entry \in Thread!Locks
      BY <1>0, <2>1 DEF OneLock, Active, ThreadTypeOK
    <2>3. holder' \in [Thread!Locks -> Message \cup {Nobody}] /\ holder'[entry] = m
      BY <1>0, <2>1, <2>2 DEF ThreadTypeOK
    <2>4. /\ turn'[m].at = "held" /\ turn'[m].lock = turn[m].lock
          /\ \A n \in Message \ {m} : turn'[n] = turn[n]
      BY <1>0, <2>1 DEF ThreadTypeOK, Turn
    <2>5. \A n \in Message \ {m} : ~Holding(n)
      BY <2>1, <2>2, QuestionAnsweringAssumption, <1>0 DEF OneLock, Active, Holding, Thread!InGraph
    <2>6. \A n \in Message : Active(n)' = Active(n) /\ turn'[n].lock = turn[n].lock
      BY <2>1, <2>4 DEF Active
    <2>7. \A l \in Thread!Locks : UsersOf(l)' = UsersOf(l)
      BY <2>6 DEF UsersOf
    <2>8. \A n \in Message : Holding(n)' => n = m
      BY <2>4, <2>5 DEF Holding, Thread!InGraph
    <2>9. OneLock'
      BY <1>0, <2>1, <2>2, <2>3, <2>4, <2>6, <2>7, <2>8 DEF OneLock
    <2> QED
      BY <1>0, <2>1, <2>3, <2>9, GoesOn DEF ThreadTypeOK
  <1>4. ASSUME NEW m \in Message, Thread!Release(m)
        PROVE  ThreadInv'
    <2>1. /\ turn[m].at = "stopped"
          /\ holder' = [holder EXCEPT ![turn[m].lock] = Nobody]
          /\ turn' = [turn EXCEPT ![m].at = "leaving"]
          /\ entry' = entry /\ users' = users /\ saved' = saved /\ began' = began
      BY <1>4 DEF Thread!Release, Thread!Goes
    <2>2. holder' \in [Thread!Locks -> Message \cup {Nobody}]
      BY <1>0, <2>1 DEF ThreadTypeOK
    <2>3. /\ turn'[m].at = "leaving" /\ turn'[m].lock = turn[m].lock
          /\ \A n \in Message \ {m} : turn'[n] = turn[n]
      BY <1>0, <2>1 DEF ThreadTypeOK, Turn
    <2>4. \A n \in Message : ~Holding(n)'
      BY <2>1, <2>3, <1>0, OneHolds DEF Holding, Thread!InGraph
    <2>5. \A n \in Message : Active(n)' = Active(n) /\ turn'[n].lock = turn[n].lock
      BY <2>1, <2>3 DEF Active
    <2>6. \A l \in Thread!Locks : UsersOf(l)' = UsersOf(l)
      BY <2>5 DEF UsersOf
    <2>7. OneLock'
      BY <1>0, <2>1, <2>3, <2>4, <2>5, <2>6 DEF OneLock
    <2> QED
      BY <1>0, <2>1, <2>2, <2>7, GoesOn DEF ThreadTypeOK
  <1>5. ASSUME NEW m \in Message, Thread!Fail(m) \/ Thread!Cancel(m)
        PROVE  ThreadInv'
    <2>1. /\ \/ turn' = [turn EXCEPT ![m].at = "stopped"] /\ Holding(m)
             \/ turn' = [turn EXCEPT ![m].at = "leaving"] /\ turn[m].at = "waiting"
          /\ entry' = entry /\ users' = users /\ holder' = holder
          /\ saved' = saved /\ began' = began
      BY <1>5 DEF Thread!Fail, Thread!Cancel, Thread!Goes, Holding
    <2>2. /\ turn'[m].at \in {"stopped", "leaving"} /\ turn'[m].lock = turn[m].lock
          /\ turn'[m].at = "stopped" => Holding(m)
          /\ \A n \in Message \ {m} : turn'[n] = turn[n]
      BY <1>0, <2>1 DEF ThreadTypeOK, Turn
    <2>3. OneLock'
      BY <1>0, <2>1, <2>2, LockStays DEF Active, Holding, Thread!InGraph
    <2> QED
      BY <1>0, <2>1, <2>3, GoesOn DEF ThreadTypeOK
  <1>6. ASSUME NEW m \in Message, NEW i \in 1 .. MaxSubQueries, Thread!Work(m, i)
        PROVE  ThreadInv'
    <2> DEFINE next == [turn[m] EXCEPT !.ended = @ \cup {i}]
    <2>1. /\ turn[m].at = "working" /\ turn' = [turn EXCEPT ![m] = next]
          /\ entry' = entry /\ users' = users /\ holder' = holder
          /\ saved' = saved /\ began' = began
      BY <1>6 DEF Thread!Work
    <2>2. /\ next \in Turn /\ next.at = "working" /\ next.lock = turn[m].lock
          /\ next.messages = turn[m].messages /\ OwnAnswers(m, next)
      <3>1. i \in Nat
        BY QuestionAnsweringAssumption
      <3> QED
        BY <1>0, <2>1, <3>1 DEF ThreadTypeOK, Turn, ThreadInv, OwnAnswers
    <2> HIDE DEF next
    <2>3. /\ turn' \in [Message -> Turn] /\ turn'[m] = next
          /\ \A n \in Message \ {m} : turn'[n] = turn[n]
      BY <1>0, <2>1, <2>2, TurnSet DEF ThreadTypeOK
    <2>4. ThreadTypeOK'
      BY <1>0, <2>1, <2>3 DEF ThreadTypeOK
    <2>5. OneLock'
      BY <1>0, <2>1, <2>2, <2>3, LockStays DEF Active, Holding, Thread!InGraph
    <2>6. InTurn(m)'
      BY <2>1, <2>2, <2>3 DEF ThreadInv, InTurn, Thread!InGraph
    <2>7. \A n \in Message \ {m} : InTurn(n)' /\ OwnAnswers(n, turn'[n])
      BY <2>1, <2>3, OthersKeep
    <2> QED
      BY <2>1, <2>2, <2>3, <2>4, <2>5, <2>6, <2>7 DEF ThreadInv, Remembered
  <1> QED
    BY <1>1, <1>2, <1>3, <1>4, <1>5, <1>6, GraphStep, BeginStep DEF Thread!Next

LEMMA ThreadInit == ASSUME Init PROVE ThreadInv
  <1>1. Cardinality(Message) \in Nat
    BY QuestionAnsweringAssumption, FS_CardinalityType
  <1>2. <<>> \in Seq(Message) /\ <<>> \in Answers /\ Len(<<>>) = 0
    BY EmptySeq DEF Answers
  <1>3. Thread!Absent \in Turn
    BY <1>2 DEF Thread!Absent, Turn
  <1>4. ThreadTypeOK
    BY <1>2, <1>3 DEF Init, Thread!Init, ThreadTypeOK
  <1>5. \A m \in Message : turn[m] = Thread!Absent
    BY DEF Init, Thread!Init
  <1>6. OneLock
    <2>1. \A l \in Thread!Locks : UsersOf(l) = {}
      BY <1>5 DEF UsersOf, Active, Thread!Absent
    <2>2. Cardinality({}) = 0
      BY FS_EmptySet
    <2>3. \A l \in Thread!Locks : users[l] = 0
      BY DEF Init, Thread!Init
    <2> QED
      <3>1. \A m \in Message : turn[m].at = "absent" /\ turn[m].lock = 0
        BY <1>5 DEF Thread!Absent
      <3>2. \A m \in Message : ~Active(m) /\ ~Holding(m)
        BY <3>1 DEF Active, Holding, Thread!InGraph
      <3>3. \A l \in Thread!Locks : users[l] = Cardinality(UsersOf(l))
        BY <2>1, <2>2, <2>3
      <3> QED
        BY <3>1, <3>2, <3>3 DEF OneLock
  <1>7. Remembered
    BY DEF Init, Thread!Init, Remembered
  <1>8. \A m \in Message : InTurn(m) /\ OwnAnswers(m, turn[m])
    BY <1>2, <1>5 DEF InTurn, OwnAnswers, Thread!InGraph, Thread!Absent, Init, Thread!Init
  <1> QED
    BY <1>4, <1>6, <1>7, <1>8 DEF ThreadInv

\* The turns of a session (stream_search under _session_run_lock) do not mix, for any number of
\* turns and sub-queries: the one in the graph began last, reads the queries of those before it,
\* however they ended, and its answer is made of those to its own sub-queries.
THEOREM TurnsDoNotMix == Spec => []OwnTurn
  <1>1. Init => (part = "thread" => ThreadInv)
    BY ThreadInit
  <1>2. (part = "thread" => ThreadInv) /\ [Next]_vars => (part = "thread" => ThreadInv)'
    <2> SUFFICES ASSUME [Next]_vars, part = "thread", ThreadInv
                 PROVE  ThreadInv'
      BY PartSteps
    <2>1. CASE Thread!Next
      BY <2>1, ThreadStep
    <2>2. CASE UNCHANGED <<entry, users, holder, saved, turn, began>>
      <3>1. ThreadTypeOK'
        BY <2>2 DEF ThreadInv, ThreadTypeOK
      <3>2. \A l \in Thread!Locks : UsersOf(l)' = UsersOf(l)
        BY <2>2 DEF UsersOf, Active
      <3>3. OneLock'
        BY <2>2, <3>2 DEF ThreadInv, OneLock, Active, Holding, Thread!InGraph
      <3>4. Remembered'
        BY <2>2 DEF ThreadInv, Remembered
      <3>5. ASSUME NEW m \in Message
            PROVE  InTurn(m)' /\ OwnAnswers(m, turn'[m])
        <4>1. Thread!History(m)' = Thread!History(m) /\ Thread!Earlier(m)' = Thread!Earlier(m)
          BY <2>2 DEF Thread!History, Thread!Earlier
        <4> QED
          BY <2>2, <4>1 DEF ThreadInv, InTurn, Thread!InGraph
      <3> QED
        BY <3>1, <3>3, <3>4, <3>5 DEF ThreadInv
    <2> QED
      BY <2>1, <2>2, PartSteps
  <1>3. (part = "thread" => ThreadInv) => OwnTurn
    <2> SUFFICES ASSUME ThreadInv, NEW m \in Message
                 PROVE  /\ Thread!InGraph(m) => Thread!LastOf(began, 1) = <<m>>
                        /\ turn[m].at = "decomposing" =>
                              Thread!History(m) =
                                Thread!LastOf(SubSeq(began, 1, Thread!Earlier(m)), Keep - 1)
                        /\ turn[m].final # <<>> =>
                              turn[m].final = [i \in 1 .. turn[m].queries |-> <<m, i>>]
      BY DEF OwnTurn, Thread!OwnTurn
    <2>1. InTurn(m) /\ OwnAnswers(m, turn[m]) /\ began \in Seq(Message)
      BY DEF ThreadInv, ThreadTypeOK
    <2>2. ASSUME Thread!InGraph(m)
          PROVE  Thread!LastOf(began, 1) = <<m>>
      <3> DEFINE l == Thread!LastOf(began, 1)
      <3>1. l \in Seq(Message) /\ EndOf(l, began, 1)
        BY <2>1, LastOfType
      <3> HIDE DEF l
      <3>2. began # <<>> /\ began[Len(began)] = m
        BY <2>1, <2>2 DEF InTurn
      <3>3. Len(began) \in Nat \ {0}
        BY <2>1, <3>2, EmptySeq, LenProperties
      <3>4. Len(l) = 1 /\ l[1] = m
        <4>1. Len(began) \in Nat /\ Len(l) = 1
          <5>1. PICK n \in Nat \ {0} : Len(began) = n
            BY <3>3
          <5>2. n = 1 \/ n > 1
            OBVIOUS
          <5>3. (n <= 1 => Len(l) = n) /\ (n > 1 => Len(l) = 1)
            BY <3>1, <5>1 DEF EndOf
          <5> QED
            BY <5>1, <5>2, <5>3
        <4>2. l[1] = began[Len(began) - 1 + 1]
          BY <3>1, <4>1 DEF EndOf
        <4> QED
          BY <3>2, <4>1, <4>2
      <3>5. <<m>> \in Seq(Message) /\ Len(<<m>>) = 1 /\ <<m>>[1] = m
        OBVIOUS
      <3>6. l = <<m>>
        BY <3>1, <3>4, <3>5, SeqEqual
      <3> QED
        BY <3>6 DEF l
    <2> QED
      BY <2>1, <2>2 DEF InTurn, OwnAnswers
  <1> QED
    BY <1>1, <1>2, <1>3, PTL DEF Spec

-----------------------------------------------------------------------------
(* The journal of a session.                                               *)

Status   == {"absent", "running", "completed", "failed"}
RowOfTurn == [seq : Nat, status : Status]

JournalTypeOK ==
    /\ row \in [Message -> RowOfTurn]
    /\ run \in [Message -> {"idle", "reserved", "answering", "finished"}]
    /\ seq \in Nat
    /\ answered \subseteq Message
    /\ ended \in [Message -> Nat]

\* The row of a message, while it is there, and what is known of its last completion.
Recorded(m) ==
    /\ row[m].status = "absent" => row[m].seq = 0
    /\ row[m].status # "absent" => row[m].seq \in 1 .. seq /\ ended[m] <= row[m].seq
    /\ ended[m] <= seq
    /\ m \in answered => /\ ended[m] > 0
                         /\ \/ row[m].status = "absent"
                            \/ row[m].status = "completed" /\ row[m].seq = ended[m]
    /\ row[m].status = "completed" => m \in answered
    /\ run[m] \in {"reserved", "answering"} => row[m].status = "running"

\* A turn_seq is that of one message, whether its row is there or pruned.
OwnPlace(a, b) ==
    /\ row[a].seq = row[b].seq => row[a].seq = 0
    /\ ended[a] = row[b].seq => ended[a] = 0
    /\ ended[a] = ended[b] => ended[a] = 0

\* The messages completed after the last completion of m.
CompletedAfter(m) == {y \in Message : ended[y] > ended[m]}

\* What was pruned had as many completed after it as are retained.
PrunedLate ==
    \A m \in answered : row[m].status = "absent" => Cardinality(CompletedAfter(m)) >= RetentionLimit

JournalInv ==
    /\ JournalTypeOK
    /\ \A m \in Message : Recorded(m)
    /\ \A a, b \in Message : a # b => OwnPlace(a, b)
    /\ PrunedLate

LEMMA LeastOf ==
    ASSUME NEW T, T \subseteq Nat, T # {}
    PROVE  \E x \in T : \A y \in T : x <= y
  <1>1. PICK x \in T : \A y \in T : ~(<<y, x>> \in OpToRel(<, Nat))
    BY WFMin, NatLessThanWellFounded
  <1>2. ASSUME NEW y \in T
        PROVE  ~(y < x)
    BY <1>1 DEF OpToRel
  <1> QED
    BY <1>2

LEMMA HistoryCounts == \A S : History!Cardinality(S) = Cardinality(S)
  BY Zenon DEF History!Cardinality, Cardinality

LEMMA CountOf ==
    ASSUME NEW M \in SUBSET Message
    PROVE  IsFiniteSet(M) /\ Cardinality(M) \in Nat
  BY QuestionAnsweringAssumption, FS_Subset, FS_CardinalityType

\* What is completed later only adds to what was completed after a message.
LEMMA LateStays ==
    ASSUME JournalTypeOK, PrunedLate,
           \A m \in answered' : row'[m].status = "absent" =>
              /\ m \in answered /\ row[m].status = "absent"
              /\ CompletedAfter(m) \subseteq CompletedAfter(m)'
    PROVE  PrunedLate'
  <1> SUFFICES ASSUME NEW m \in answered', row'[m].status = "absent"
               PROVE  Cardinality(CompletedAfter(m)') >= RetentionLimit
    BY DEF PrunedLate
  <1>1. Cardinality(CompletedAfter(m)) >= RetentionLimit
    BY DEF PrunedLate
  <1>2. CompletedAfter(m)' \subseteq Message
    BY DEF CompletedAfter
  <1>3. Cardinality(CompletedAfter(m)) <= Cardinality(CompletedAfter(m)')
    <2> DEFINE S == CompletedAfter(m)'
               T == CompletedAfter(m)
    <2>1. IsFiniteSet(S) /\ T \in SUBSET S
      BY <1>2, CountOf
    <2> HIDE DEF S, T
    <2>2. Cardinality(T) <= Cardinality(S)
      BY <2>1, FS_Subset
    <2> QED
      BY <2>2 DEF S, T
  <1>4. Cardinality(CompletedAfter(m)) \in Nat /\ Cardinality(CompletedAfter(m)') \in Nat
    BY <1>2, CountOf DEF CompletedAfter
  <1> QED
    BY <1>1, <1>3, <1>4, QuestionAnsweringAssumption

LEMMA JournalStep ==
    ASSUME JournalInv, History!Next
    PROVE  JournalInv'
  <1> USE DEF JournalInv
  <1>1. ASSUME NEW m \in Message, History!Reserve(m)
        PROVE  JournalInv'
    <2> USE <1>1 DEF History!Reserve, History!Absent
    <2>1. JournalTypeOK'
      BY DEF JournalTypeOK, RowOfTurn, Status
    <2>2. /\ row'[m].status = "running" /\ row'[m].seq \in 1 .. seq'
          /\ row'[m].seq = seq + 1 \/ row'[m].seq = row[m].seq
          /\ \A x \in Message \ {m} : row'[x] = row[x]
      BY DEF JournalTypeOK, RowOfTurn, Status, Recorded
    <2>3. \A x \in Message : Recorded(x)'
      BY <2>2 DEF JournalTypeOK, RowOfTurn, Status, Recorded
    <2>4. \A a, b \in Message : a # b => OwnPlace(a, b)'
      BY <2>2 DEF JournalTypeOK, RowOfTurn, Status, Recorded, OwnPlace
    <2>5. PrunedLate'
      BY <2>2, LateStays DEF CompletedAfter, JournalTypeOK
    <2> QED
      BY <2>1, <2>3, <2>4, <2>5
  <1>2. ASSUME NEW m \in Message, History!ReadHistory(m)
        PROVE  JournalInv'
    <2> USE <1>2 DEF History!ReadHistory
    <2>1. JournalTypeOK' /\ \A x \in Message : Recorded(x)'
      BY DEF JournalTypeOK, RowOfTurn, Status, Recorded
    <2>2. \A a, b \in Message : a # b => OwnPlace(a, b)'
      BY DEF OwnPlace
    <2>3. PrunedLate'
      BY LateStays DEF CompletedAfter
    <2> QED
      BY <2>1, <2>2, <2>3
  <1>3. ASSUME NEW m \in Message, NEW b \in BOOLEAN, History!Finish(m, b)
        PROVE  JournalInv'
    <2> USE <1>3 DEF History!Finish
    <2>1. JournalTypeOK'
      BY DEF JournalTypeOK, RowOfTurn, Status
    <2>2. /\ row'[m].status \in {"completed", "failed"} /\ row'[m].seq = row[m].seq
          /\ \A x \in Message \ {m} : row'[x] = row[x]
          /\ row[m].status = "running" /\ row[m].seq \in 1 .. seq /\ m \notin answered
      BY DEF JournalTypeOK, RowOfTurn, Status, Recorded
    <2>3. \A x \in Message : Recorded(x)'
      BY <2>2 DEF JournalTypeOK, RowOfTurn, Status, Recorded
    <2>4. /\ ended'[m] \in {ended[m], row[m].seq} /\ ended[m] <= ended'[m]
          /\ \A x \in Message \ {m} : ended'[x] = ended[x]
      BY <2>2 DEF JournalTypeOK, RowOfTurn, Recorded
    <2>5. \A x, y \in Message : x # y => OwnPlace(x, y)'
      BY <2>2, <2>4 DEF JournalTypeOK, RowOfTurn, OwnPlace
    <2>6. \A x \in answered' \ {m} : x \in answered /\ CompletedAfter(x) \subseteq CompletedAfter(x)'
      BY <2>1, <2>4 DEF CompletedAfter, JournalTypeOK
    <2>7. PrunedLate'
      BY <2>2, <2>6, LateStays DEF JournalTypeOK
    <2> QED
      BY <2>1, <2>3, <2>5, <2>7
  <1>4. ASSUME NEW m \in Message, History!Prune(m)
        PROVE  JournalInv'
    <2> USE <1>4 DEF History!Prune
    <2>1. \A x \in Message : row'[x] = IF x \in History!Pruned THEN History!Absent ELSE row[x]
      OBVIOUS
    <2>2. \A x \in History!Pruned : row[x].status \in {"completed", "failed"}
      BY DEF History!Pruned, JournalTypeOK, RowOfTurn, Status
    <2>3. JournalTypeOK'
      BY DEF JournalTypeOK, RowOfTurn, Status, History!Absent
    <2>4. \A x \in Message : Recorded(x)'
      BY <2>1, <2>2 DEF Recorded, JournalTypeOK, RowOfTurn, Status, History!Absent
    <2>5. \A x, y \in Message : x # y => OwnPlace(x, y)'
      BY <2>1 DEF OwnPlace, JournalTypeOK, RowOfTurn, History!Absent
    <2>6. ASSUME NEW x \in answered, x \in History!Pruned
          PROVE  Cardinality(CompletedAfter(x)) >= RetentionLimit
      <3> DEFINE Later == {y \in History!Completed : row[y].seq > row[x].seq}
      <3>1. x \in Message /\ row[x].status = "completed" /\ row[x].seq = ended[x]
        BY <2>2, <2>6 DEF Recorded, JournalTypeOK
      <3>2. Later \subseteq CompletedAfter(x) /\ CompletedAfter(x) \subseteq Message
        BY <3>1 DEF History!Completed, CompletedAfter, Recorded
      <3>3. Later \subseteq Message
        BY <3>2
      <3>4. ~(Cardinality(Later) < RetentionLimit)
        BY <2>6, <3>1, HistoryCounts DEF History!Pruned, History!Newest, History!Completed
      <3> HIDE DEF Later
      <3>5. /\ Cardinality(Later) \in Nat /\ Cardinality(CompletedAfter(x)) \in Nat
            /\ Cardinality(Later) <= Cardinality(CompletedAfter(x))
        BY <3>2, <3>3, CountOf, FS_Subset
      <3> QED
        BY <3>4, <3>5, QuestionAnsweringAssumption
    <2>7. ASSUME NEW x \in answered', row'[x].status = "absent"
          PROVE  Cardinality(CompletedAfter(x)') >= RetentionLimit
      <3>1. CompletedAfter(x)' = CompletedAfter(x) /\ x \in answered
        BY <2>7 DEF CompletedAfter
      <3>2. CASE x \in History!Pruned
        BY <3>1, <3>2, <2>6
      <3>3. CASE x \notin History!Pruned
        BY <3>1, <3>3, <2>1, <2>7 DEF PrunedLate, JournalTypeOK
      <3> QED
        BY <3>2, <3>3
    <2>8. PrunedLate'
      BY <2>7 DEF PrunedLate
    <2> QED
      BY <2>3, <2>4, <2>5, <2>8
  <1>5. ASSUME NEW m \in Message, History!Lose(m)
        PROVE  JournalInv'
    <2> USE <1>5 DEF History!Lose
    <2>1. JournalTypeOK' /\ \A x \in Message : Recorded(x)'
      BY DEF JournalTypeOK, RowOfTurn, Status, Recorded
    <2>2. \A a, b \in Message : a # b => OwnPlace(a, b)'
      BY DEF OwnPlace
    <2>3. PrunedLate'
      BY LateStays DEF CompletedAfter
    <2> QED
      BY <2>1, <2>2, <2>3
  <1> QED
    BY <1>1, <1>2, <1>3, <1>4, <1>5 DEF History!Next

\* The messages whose completion is known, before a turn_seq, and those of them after another.
Earlier(m)  == {x \in answered : ended[x] < row[m].seq}
Newer(m, x) == {y \in Earlier(m) : ended[y] > ended[x]}

\* A query that was pruned before it could be read has enough queries after it to be left out.
LEMMA PrunedIsOld ==
    ASSUME JournalInv, NEW m \in Message, run[m] = "reserved",
           Cardinality(History!After(m) \cup History!Reopened) <= RetentionLimit - HistoryLimit,
           NEW x \in Earlier(m), row[x].status = "absent"
    PROVE  Cardinality(Newer(m, x)) >= HistoryLimit
  <1> DEFINE Spare == History!After(m) \cup History!Reopened
  <1>1. x \in Message /\ row[m].status = "running" /\ m \notin answered /\ row[m].seq > 0
    BY DEF JournalInv, JournalTypeOK, Recorded, RowOfTurn, Earlier
  <1>2. ASSUME NEW y \in CompletedAfter(x)
        PROVE  y \in Newer(m, x) \cup Spare
    <2>1. y \in Message /\ ended[y] > ended[x] /\ ended[y] # 0 /\ ended[y] \in Nat /\ ended[x] \in Nat
      BY <1>1 DEF CompletedAfter, JournalInv, JournalTypeOK
    <2>2. CASE y \notin answered
      BY <2>1, <2>2 DEF History!Reopened
    <2>3. CASE y \in answered /\ ended[y] < row[m].seq
      BY <2>1, <2>3 DEF Newer, Earlier
    <2>4. CASE ended[y] > row[m].seq
      BY <2>1, <2>4 DEF History!After
    <2>5. CASE y \in answered /\ ended[y] = row[m].seq
      <3>1. y # m
        BY <1>1, <2>5
      <3> QED
        BY <1>1, <2>1, <2>5, <3>1 DEF JournalInv, OwnPlace
    <2> QED
      BY <1>1, <2>1, <2>2, <2>3, <2>4, <2>5 DEF JournalInv, JournalTypeOK, RowOfTurn
  <1>3. /\ Newer(m, x) \subseteq Message /\ Spare \subseteq Message
        /\ CompletedAfter(x) \subseteq Message
    BY DEF Newer, Earlier, History!After, History!Reopened, CompletedAfter, JournalInv, JournalTypeOK
  <1>4. Cardinality(CompletedAfter(x)) >= RetentionLimit
    BY DEF JournalInv, PrunedLate, Earlier
  <1>5. Cardinality(Spare) <= RetentionLimit - HistoryLimit
    OBVIOUS
  <1> HIDE DEF Spare
  <1>6. Cardinality(CompletedAfter(x)) <= Cardinality(Newer(m, x) \cup Spare)
    <2>1. IsFiniteSet(Newer(m, x) \cup Spare)
      BY <1>3, CountOf
    <2> QED
      BY <1>2, <2>1, FS_Subset
  <1>7. Cardinality(Newer(m, x) \cup Spare) <= Cardinality(Newer(m, x)) + Cardinality(Spare)
    <2>1. Newer(m, x) \cap Spare \subseteq Message
      BY <1>3
    <2>2. Cardinality(Newer(m, x) \cap Spare) \in Nat
      BY <2>1, CountOf
    <2>3. Cardinality(Newer(m, x) \cup Spare)
             = Cardinality(Newer(m, x)) + Cardinality(Spare) - Cardinality(Newer(m, x) \cap Spare)
      BY <1>3, CountOf, FS_Union
    <2> QED
      BY <1>3, <2>2, <2>3, CountOf
  <1>8. /\ Cardinality(Newer(m, x)) \in Nat /\ Cardinality(Spare) \in Nat
        /\ Cardinality(CompletedAfter(x)) \in Nat /\ Cardinality(Newer(m, x) \cup Spare) \in Nat
    <2>1. Newer(m, x) \cup Spare \subseteq Message
      BY <1>3
    <2> QED
      BY <1>3, <2>1, CountOf
  <1> QED
    BY <1>4, <1>5, <1>6, <1>7, <1>8, QuestionAnsweringAssumption

\* Then every one with fewer queries after it than are shown is still there.
LEMMA ShownIsThere ==
    ASSUME JournalInv, NEW m \in Message, run[m] = "reserved",
           Cardinality(History!After(m) \cup History!Reopened) <= RetentionLimit - HistoryLimit,
           NEW x \in Earlier(m), row[x].status # "absent",
           NEW z \in Newer(m, x), row[z].status = "absent"
    PROVE  Cardinality({y \in Newer(m, x) : row[y].status # "absent"}) >= HistoryLimit
  <1> DEFINE Gone == {y \in Newer(m, x) : row[y].status = "absent"}
             T == {row[m].seq - ended[y] : y \in Gone}
  <1>1. /\ Newer(m, x) \subseteq Message
        /\ \A y \in Newer(m, x) : row[m].seq - ended[y] \in Nat /\ ended[y] \in Nat
        /\ row[m].seq \in Nat
    BY DEF JournalInv, JournalTypeOK, RowOfTurn, Newer, Earlier
  <1>2. T \subseteq Nat /\ T # {}
    BY <1>1
  <1>3. PICK t \in T : \A u \in T : t <= u
    <2> HIDE DEF T
    <2> QED
      BY <1>2, LeastOf
  <1>4. PICK last \in Gone : t = row[m].seq - ended[last]
    OBVIOUS
  <1>5. ASSUME NEW y \in Gone
        PROVE  ended[y] <= ended[last]
    <2>1. row[m].seq - ended[y] \in T
      OBVIOUS
    <2>2. row[m].seq - ended[last] <= row[m].seq - ended[y]
      BY <1>3, <1>4, <2>1
    <2> QED
      BY <1>1, <2>2
  <1>6. Newer(m, last) \subseteq {y \in Newer(m, x) : row[y].status # "absent"}
    <2> SUFFICES ASSUME NEW y \in Newer(m, last)
                 PROVE  y \in Newer(m, x) /\ row[y].status # "absent"
      OBVIOUS
    <2>1. ended[y] > ended[last] /\ ended[last] > ended[x] /\ y \in Earlier(m)
      BY DEF Newer
    <2>2. y \in Newer(m, x)
      BY <1>1, <2>1 DEF Newer, Earlier, JournalInv, JournalTypeOK
    <2> QED
      BY <1>1, <1>5, <2>1, <2>2
  <1>7. Cardinality(Newer(m, last)) >= HistoryLimit
    <2>1. last \in Earlier(m) /\ row[last].status = "absent"
      BY DEF Newer
    <2> QED
      BY <2>1, PrunedIsOld
  <1> DEFINE Left == {y \in Newer(m, x) : row[y].status # "absent"}
  <1>8. Left \subseteq Message /\ Newer(m, last) \subseteq Left
    BY <1>1, <1>6
  <1> HIDE DEF Left
  <1>9. /\ Cardinality(Newer(m, last)) <= Cardinality(Left)
        /\ Cardinality(Newer(m, last)) \in Nat /\ Cardinality(Left) \in Nat
    <2>1. Newer(m, last) \subseteq Message
      BY <1>8
    <2> QED
      BY <1>8, <2>1, CountOf, FS_Subset
  <1> QED
    BY <1>7, <1>9, QuestionAnsweringAssumption DEF Left

LEMMA JournalShows ==
    ASSUME JournalInv
    PROVE  History!HistoryShown
  <1> SUFFICES ASSUME NEW m \in Message, run[m] = "reserved",
                      ~(Cardinality(History!After(m) \cup History!Reopened)
                           > RetentionLimit - HistoryLimit)
               PROVE  History!Previous(m) = {x \in Earlier(m) :
                                                Cardinality(Newer(m, x)) < HistoryLimit}
    BY HistoryCounts DEF History!HistoryShown, History!Before, Earlier, Newer
  <1> DEFINE Rows == {x \in History!Completed : row[x].seq < row[m].seq}
             Above(x) == {y \in Rows : row[y].seq > row[x].seq}
  <1>1. Cardinality(History!After(m) \cup History!Reopened) <= RetentionLimit - HistoryLimit
    <2>1. History!After(m) \cup History!Reopened \subseteq Message
      BY DEF History!After, History!Reopened
    <2>2. Cardinality(History!After(m) \cup History!Reopened) \in Nat
      BY <2>1, CountOf
    <2> QED
      BY <2>2, QuestionAnsweringAssumption
  <1>2. \A x : x \in Rows <=> x \in Earlier(m) /\ row[x].status # "absent"
    BY DEF Earlier, History!Completed, JournalInv, JournalTypeOK, Recorded
  <1>3. \A x \in Rows : row[x].seq = ended[x] /\ x \in Message /\ row[x].status = "completed"
    BY DEF History!Completed, JournalInv, JournalTypeOK, Recorded
  <1>4. \A x \in Rows : Above(x) = {y \in Newer(m, x) : row[y].status # "absent"}
    BY <1>2, <1>3 DEF Newer
  <1>5. Earlier(m) \subseteq Message
    BY DEF Earlier, JournalInv, JournalTypeOK
  <1>6. History!Previous(m) = {x \in Rows : Cardinality(Above(x)) < HistoryLimit}
    BY HistoryCounts DEF History!Previous, History!Newest
  <1> HIDE DEF Rows, Above
  <1>7. ASSUME NEW x \in Earlier(m), Cardinality(Newer(m, x)) < HistoryLimit
        PROVE  x \in Rows /\ Cardinality(Above(x)) < HistoryLimit
    <2>1. Newer(m, x) \subseteq Message /\ Cardinality(Newer(m, x)) \in Nat
      BY <1>5, CountOf DEF Newer
    <2>2. x \in Rows
      <3>1. CASE row[x].status = "absent"
        <4>1. Cardinality(Newer(m, x)) >= HistoryLimit
          BY <1>1, <3>1, PrunedIsOld
        <4> QED
          BY <1>7, <2>1, <4>1, QuestionAnsweringAssumption
      <3> QED
        BY <1>2, <3>1
    <2>3. Above(x) \subseteq Newer(m, x)
      BY <1>4, <2>2
    <2>4. Cardinality(Above(x)) <= Cardinality(Newer(m, x)) /\ Cardinality(Above(x)) \in Nat
      BY <2>1, <2>3, CountOf, FS_Subset
    <2> QED
      BY <1>7, <2>1, <2>2, <2>4, QuestionAnsweringAssumption
  <1>8. ASSUME NEW x \in Rows, Cardinality(Above(x)) < HistoryLimit
        PROVE  x \in Earlier(m) /\ Cardinality(Newer(m, x)) < HistoryLimit
    <2>1. x \in Earlier(m) /\ row[x].status # "absent"
      BY <1>2
    <2>2. Above(x) \subseteq Message /\ Cardinality(Above(x)) \in Nat
      BY <1>4, <1>5, CountOf DEF Newer
    <2>3. ASSUME NEW z \in Newer(m, x), row[z].status = "absent"
          PROVE  FALSE
      <3>1. Cardinality(Above(x)) >= HistoryLimit
        BY <1>1, <1>4, <2>1, <2>3, ShownIsThere
      <3> QED
        BY <1>8, <2>2, <3>1, QuestionAnsweringAssumption
    <2>4. Above(x) = Newer(m, x)
      BY <1>4, <2>3
    <2> QED
      BY <1>8, <2>1, <2>4
  <1> QED
    BY <1>5, <1>6, <1>7, <1>8

\* A turn that reads the history of its session is given the queries completed last before it, as
\* many as are shown, however reservations, completions, pruning and deaths of other turns come
\* between, unless more turns than the retention spares completed after it or are answered again.
THEOREM HistoryIsShown == Spec => []HistoryShown
  <1>1. Init => (part = "history" => JournalInv)
    <2> SUFFICES ASSUME History!Init
                 PROVE  JournalInv
      BY DEF Init
    <2> QED
      BY DEF History!Init, History!Absent, JournalInv, JournalTypeOK, RowOfTurn, Status,
             Recorded, OwnPlace, PrunedLate
  <1>2. (part = "history" => JournalInv) /\ [Next]_vars => (part = "history" => JournalInv)'
    <2> SUFFICES ASSUME part = "history", JournalInv, [Next]_vars
                 PROVE  JournalInv'
      BY PartSteps
    <2>1. CASE History!Next
      BY <2>1, JournalStep
    <2>2. CASE UNCHANGED <<row, run, seq, answered, ended>>
      BY <2>2 DEF JournalInv, JournalTypeOK, Recorded, OwnPlace, PrunedLate, CompletedAfter
    <2> QED
      BY <2>1, <2>2, PartSteps
  <1>3. (part = "history" => JournalInv) => HistoryShown
    BY JournalShows DEF HistoryShown
  <1> QED
    BY <1>1, <1>2, <1>3, PTL DEF Spec

=============================================================================
