-------------------------------- MODULE Turns --------------------------------
(***************************************************************************)
(* The turns of one session on one checkpoint thread, in one process: they *)
(* are serialized by a lock that is dropped from a registry with its last  *)
(* user; a turn runs the instant graph from the checkpoint that the turn   *)
(* before it left, whether that one was answered, failed or was cancelled. *)
(*                                                                         *)
(* The graph library saves a checkpoint after each step and runs the       *)
(* workers of a step in parallel; their answers are appended in the order  *)
(* of their sub-queries when all of them have ended.                       *)
(***************************************************************************)
EXTENDS Integers, Sequences, FiniteSets, SequencesExt

CONSTANTS
    Message,
    Keep,          \* MAX_RETAINED_USER_MESSAGES; the history is one shorter
    MaxSubQueries, \* decomposer_max_sub_queries
    Nobody

VARIABLES
    entry,   \* _SESSION_LOCKS: the lock registered for the thread, 0 when none is
    users,   \* of each lock that was ever made
    holder,
    saved,   \* the checkpoint: the user's messages and the sub-answers
    turn,    \* where a turn is, its lock and its own state
    began    \* history: the turns that entered the graph, in their order

vars == <<entry, users, holder, saved, turn, began>>

Locks  == 1 .. Cardinality(Message)
Absent == [at |-> "absent", lock |-> 0, messages |-> <<>>, answers |-> <<>>,
           queries |-> 0, ended |-> {}, final |-> <<>>]

Init == /\ entry = 0
        /\ users = [l \in Locks |-> 0]
        /\ holder = [l \in Locks |-> Nobody]
        /\ saved = [messages |-> <<>>, answers |-> <<>>]
        /\ turn = [m \in Message |-> Absent]
        /\ began = <<>>

LastOf(s, n) == IF Len(s) <= n THEN s ELSE SubSeq(s, Len(s) - n + 1, Len(s))
Goes(m, at) == turn' = [turn EXCEPT ![m].at = at]

\* A step of the graph changes the turn's state and saves it.
Steps(m, next) ==
    /\ turn' = [turn EXCEPT ![m] = next]
    /\ saved' = [messages |-> next.messages, answers |-> next.answers]

\* _session_run_lock: the thread's lock, a new one when none is registered.
Enter(m) ==
    LET l == IF entry # 0 THEN entry
             ELSE CHOOSE x \in Locks : \A n \in Message : turn[n].lock # x
    IN  /\ turn[m].at = "absent"
        /\ entry' = l
        /\ users' = [users EXCEPT ![l] = @ + 1]
        /\ turn' = [turn EXCEPT ![m].at = "waiting", ![m].lock = l]
        /\ UNCHANGED <<holder, saved, began>>

Acquire(m) ==
    /\ turn[m].at = "waiting" /\ holder[turn[m].lock] = Nobody
    /\ holder' = [holder EXCEPT ![turn[m].lock] = m]
    /\ Goes(m, "held")
    /\ UNCHANGED <<entry, users, saved, began>>

\* _do_stream_search: the query is added to the messages, what is left of another turn is reset.
Input(m) == [turn[m] EXCEPT !.at = "decomposing", !.messages = Append(saved.messages, m),
                            !.answers = <<>>]

Begin(m) ==
    /\ turn[m].at = "held"
    /\ Steps(m, Input(m))
    /\ began' = Append(began, m)
    /\ UNCHANGED <<entry, users, holder>>

\* The model may give no sub-query: then nothing is dispatched, and the graph ends.
Decompose(m) ==
    /\ turn[m].at = "decomposing"
    /\ \E n \in 0 .. MaxSubQueries :
           Steps(m, [turn[m] EXCEPT !.queries = n, !.at = IF n = 0 THEN "stopped" ELSE "working"])
    /\ UNCHANGED <<entry, users, holder, began>>

Work(m, i) ==
    /\ turn[m].at = "working" /\ i \in 1 .. turn[m].queries \ turn[m].ended
    /\ turn' = [turn EXCEPT ![m].ended = @ \cup {i}]
    /\ UNCHANGED <<entry, users, holder, saved, began>>

\* merge_list_with_mode, then route_worker_output
Merge(m) ==
    /\ turn[m].at = "working" /\ turn[m].ended = 1 .. turn[m].queries
    /\ Steps(m, [turn[m] EXCEPT !.answers = @ \o [i \in 1 .. turn[m].queries |-> <<m, i>>],
                                !.at = IF turn[m].queries = 1 THEN "finishing" ELSE "aggregating"])
    /\ UNCHANGED <<entry, users, holder, began>>

\* The answer of the only sub-query.
FinalAnswer(m) ==
    /\ turn[m].at = "finishing"
    /\ Steps(m, [turn[m] EXCEPT !.final = LastOf(turn[m].answers, 1), !.at = "cleaning"])
    /\ UNCHANGED <<entry, users, holder, began>>

\* An answer from all sub-answers.
Aggregate(m) ==
    /\ turn[m].at = "aggregating"
    /\ Steps(m, [turn[m] EXCEPT !.final = turn[m].answers, !.at = "cleaning"])
    /\ UNCHANGED <<entry, users, holder, began>>

Cleanup(m) ==
    /\ turn[m].at = "cleaning"
    /\ Steps(m, [turn[m] EXCEPT !.messages = LastOf(@, Keep), !.answers = <<>>, !.at = "stopped"])
    /\ UNCHANGED <<entry, users, holder, began>>

InGraph(m) ==
    turn[m].at \in {"decomposing", "working", "finishing", "aggregating", "cleaning"}

\* A step raises, or the caller goes away.
Fail(m) ==
    /\ turn[m].at = "held" \/ InGraph(m)
    /\ Goes(m, "stopped")
    /\ UNCHANGED <<entry, users, holder, saved, began>>

Cancel(m) ==
    /\ turn[m].at = "waiting"
    /\ Goes(m, "leaving")
    /\ UNCHANGED <<entry, users, holder, saved, began>>

Release(m) ==
    /\ turn[m].at = "stopped"
    /\ holder' = [holder EXCEPT ![turn[m].lock] = Nobody]
    /\ Goes(m, "leaving")
    /\ UNCHANGED <<entry, users, saved, began>>

DroppedAlways(l) == TRUE

\* The lock is dropped by its last user.
Dropped(l) == users[l] = 1

Leave(m) ==
    LET l == turn[m].lock IN
    /\ turn[m].at = "leaving"
    /\ users' = [users EXCEPT ![l] = @ - 1]
    /\ entry' = IF Dropped(l) THEN 0 ELSE entry
    /\ Goes(m, "left")
    /\ UNCHANGED <<holder, saved, began>>

Next == \E m \in Message :
            \/ Enter(m) \/ Acquire(m) \/ Begin(m) \/ Decompose(m) \/ Merge(m)
            \/ FinalAnswer(m) \/ Aggregate(m) \/ Cleanup(m)
            \/ Fail(m) \/ Cancel(m) \/ Release(m) \/ Leave(m)
            \/ \E i \in 1 .. MaxSubQueries : Work(m, i)

Spec == Init /\ [][Next]_vars
-----------------------------------------------------------------------------
\* The history a turn is given is the queries of the turns before it, failed ones included;
\* extract_user_query_history leaves out its own.
History(m) == LastOf(Front(turn[m].messages), Keep - 1)
Earlier(m) == (CHOOSE i \in DOMAIN began : began[i] = m) - 1

\* Turns of a session do not mix: the one in the graph is the last that began, each reads the
\* queries of those before it, however they ended, and its answer is made of the answers to its
\* own sub-queries, in their order.
OwnTurn ==
    \A m \in Message :
        /\ InGraph(m) => LastOf(began, 1) = <<m>>
        /\ turn[m].at = "decomposing" =>
               History(m) = LastOf(SubSeq(began, 1, Earlier(m)), Keep - 1)
        /\ turn[m].final # <<>> =>
               turn[m].final = [i \in 1 .. turn[m].queries |-> <<m, i>>]
=============================================================================
