------------------------------ MODULE Sessions ------------------------------
(***************************************************************************)
(* The journal of the turns of one session (qa_session_turns) under the    *)
(* instant engine: turns run concurrently, each reserves its place, reads  *)
(* the queries completed before it, and at the end records its outcome and *)
(* prunes the journal.  The connection commits every statement by itself.  *)
(*                                                                         *)
(* A message may be sent again when its earlier run has ended, by an       *)
(* answer, an error or the death of the process.                           *)
(***************************************************************************)
EXTENDS Integers, FiniteSets

CONSTANTS
    Message,
    HistoryLimit,    \* history_limit: MAX_RETAINED_USER_MESSAGES - 1
    RetentionLimit,  \* retention_limit: MAX_RETAINED_USER_MESSAGES
    MaxTurns         \* bound: reservations

VARIABLES
    turn,     \* the row of a message: its turn_seq and status, or absent
    run,      \* what the run of a message does
    seq,      \* the last turn_seq
    answered, \* history: the messages whose last run completed
    ended     \* history: the turn_seq at which a message was last completed

vars == <<turn, run, seq, answered, ended>>

Absent == [seq |-> 0, status |-> "absent"]

Init == /\ turn = [m \in Message |-> Absent]
        /\ run = [m \in Message |-> "idle"]
        /\ seq = 0
        /\ answered = {}
        /\ ended = [m \in Message |-> 0]

Completed == {m \in Message : turn[m].status = "completed"}

\* The n newest of a set of messages, by turn_seq.
Newest(M, n) == {m \in M : Cardinality({x \in M : turn[x].seq > turn[m].seq}) < n}

\* INSERT ... ON DUPLICATE KEY UPDATE: a row that is still there keeps its turn_seq.
Reserve(m) ==
    /\ run[m] = "idle" /\ seq < MaxTurns
    /\ seq' = seq + 1
    /\ turn' = [turn EXCEPT ![m] = [seq |-> IF @ = Absent THEN seq + 1 ELSE @.seq, status |-> "running"]]
    /\ run' = [run EXCEPT ![m] = "reserved"]
    /\ answered' = answered \ {m}
    /\ UNCHANGED ended

Previous(m) == Newest({x \in Completed : turn[x].seq < turn[m].seq}, HistoryLimit)

ReadHistory(m) ==
    /\ run[m] = "reserved"
    /\ run' = [run EXCEPT ![m] = "answering"]
    /\ UNCHANGED <<turn, seq, answered, ended>>

Finish(m, succeeded) ==
    /\ run[m] = "answering"
    /\ turn' = [turn EXCEPT ![m].status = IF succeeded THEN "completed" ELSE "failed"]
    /\ IF succeeded THEN answered' = answered \cup {m} /\ ended' = [ended EXCEPT ![m] = turn[m].seq]
                    ELSE UNCHANGED <<answered, ended>>
    /\ run' = [run EXCEPT ![m] = "finished"]
    /\ UNCHANGED seq

PrunedOfAll == {m \in Message : turn[m].status \notin {"absent", "running"}}
               \ Newest({m \in Message : turn[m] # Absent}, RetentionLimit)

\* The rows that are not running and not among the newest completed ones.
Pruned == {m \in Message : turn[m].status \notin {"absent", "running"}}
          \ Newest(Completed, RetentionLimit)

Prune(m) ==
    /\ run[m] = "finished"
    /\ turn' = [x \in Message |-> IF x \in Pruned THEN Absent ELSE turn[x]]
    /\ run' = [run EXCEPT ![m] = "idle"]
    /\ UNCHANGED <<seq, answered, ended>>

\* The process dies, or a statement of the journal fails: the row stays as it is.
Lose(m) ==
    /\ run[m] # "idle"
    /\ run' = [run EXCEPT ![m] = "idle"]
    /\ UNCHANGED <<turn, seq, answered, ended>>

Next == \E m \in Message :
            Reserve(m) \/ ReadHistory(m) \/ (\E b \in BOOLEAN : Finish(m, b)) \/ Prune(m) \/ Lose(m)

Spec == Init /\ [][Next]_vars
-----------------------------------------------------------------------------
Before(m) == {x \in answered : ended[x] < turn[m].seq}
After(m)  == {x \in Message : ended[x] > turn[m].seq}
Reopened  == {x \in Message : ended[x] # 0} \ answered

\* Pruning by other turns never takes what a turn is about to read: it is given the newest
\* queries completed before it, unless more turns than the retention has to spare completed
\* after it or are answered again.
HistoryShown ==
    \A m \in Message :
        run[m] = "reserved" =>
            \/ Previous(m) = {x \in Before(m) :
                                 Cardinality({y \in Before(m) : ended[y] > ended[x]}) < HistoryLimit}
            \/ Cardinality(After(m) \cup Reopened) > RetentionLimit - HistoryLimit
=============================================================================
