---------------------------- MODULE SearchAgent ----------------------------
(***************************************************************************)
(* One worker of the instant engine: an agent that alternates between its  *)
(* model and the tools the model calls, a superstep each, until the model  *)
(* stops, finalizes, or the steps of the graph run out.                    *)
(*                                                                         *)
(* The tools called in one message run side by side on the state the       *)
(* message left; what they return is applied together, in the order of     *)
(* the calls.  What is found and said is left out: a result is the call    *)
(* that found it and its index_id, a message its kind, the tools it calls, *)
(* or was called with, and the calls it makes or answers.                  *)
(***************************************************************************)
EXTENDS Integers, Sequences, FiniteSets, Functions

CONSTANTS
    Calls,       \* the lists of tools that the model calls in one message
    MaxResults,  \* bound: results of one search
    Limit        \* recursion_limit

VARIABLES
    at,         \* the node that runs next, or how the agent ended
    remaining,  \* remaining_steps
    messages,   \* in the order they were added; one that is removed leaves its place
    pending,    \* the calls of the last message: what they returned so far
    step,       \* current_step
    results,    \* retrieval_results, whose order says nothing
    counter,    \* _result_counters, by step
    fallback    \* recursion_fallback_required

vars == <<at, remaining, messages, pending, step, results, counter, fallback>>

Msg(kind, calls, answers) == [kind |-> kind, calls |-> calls, answers |-> answers]
Entry   == Msg("entry", <<>>, <<>>)
Removed == Msg("removed", <<>>, <<>>)

Init ==
    /\ at = "start" /\ remaining = Limit
    /\ messages = <<Entry>>
    /\ pending = <<>> /\ step = 0 /\ results = {} /\ counter = [s \in 0 .. Limit |-> 0]
    /\ fallback = FALSE

\* The next node runs in the next superstep; the graph raises when none is left.
Goes(node) ==
    /\ at' = IF remaining = 0 THEN "raised" ELSE node
    /\ remaining' = IF remaining = 0 THEN 0 ELSE remaining - 1

\* The steps that are left when the loop begins: the nodes before it took some.
Begin(left) ==
    /\ at = "start"
    /\ at' = "before" /\ remaining' = left
    /\ UNCHANGED <<messages, pending, step, results, counter, fallback>>

ExhaustedLate == remaining <= 1

\* Too few steps for another round of the model and its tools.
Exhausted == remaining <= 2

Latest == messages[Len(messages)]

\* A call is named by the message it is made in and its place there; messages are never
\* numbered again, for each superstep adds at most one round of calls.
Asked(calls) == [i \in DOMAIN calls |-> <<remaining, i>>]

\* The answer to call i of a message, and the tool that gave it.
Answer(m, i) == Msg("tool", m.calls, <<m.answers[i]>>)
Tool(m)      == m.calls[m.answers[1][2]]

\* abefore_model: leave for the fallback, or ask to go on after a search.
Before ==
    /\ at = "before"
    /\ IF Exhausted
       THEN at' = "ended" /\ fallback' = TRUE /\ UNCHANGED <<remaining, messages>>
       ELSE /\ Goes("model")
            /\ messages' = IF Latest.kind = "tool" /\ Tool(Latest) = "search"
                           THEN Append(messages, Msg("follow_up", <<>>, <<>>)) ELSE messages
            /\ UNCHANGED fallback
    /\ UNCHANGED <<pending, step, results, counter>>

Stop ==
    /\ at = "model"
    /\ messages' = Append(messages, Msg("ai", <<>>, <<>>))
    /\ at' = "ended"
    /\ UNCHANGED <<remaining, pending, step, results, counter, fallback>>

ModelFails ==
    /\ at = "model"
    /\ at' = "failed"
    /\ UNCHANGED <<remaining, messages, pending, step, results, counter, fallback>>

Call(calls) ==
    /\ at = "model"
    /\ messages' = Append(messages, Msg("ai", calls, Asked(calls)))
    /\ pending' = [i \in DOMAIN calls |-> [done |-> FALSE, found |-> <<>>]]
    /\ Goes("tools")
    /\ UNCHANGED <<step, results, counter, fallback>>

\* The index_ids of n results of a search: numbered by how many the state held when the
\* tools were called.
ReservedFromState(n) == [k \in 1 .. n |-> <<step, Cardinality({r \in results : r.index_id[1] = step}) + k>>]

Reserved(n) == [k \in 1 .. n |-> <<step, counter[step] + k>>]

\* A search answers with its results, or with an error: then it has none.
Search(i, n) ==
    /\ at = "tools" /\ Latest.calls[i] = "search" /\ ~pending[i].done
    /\ pending' = [pending EXCEPT ![i] = [done |-> TRUE, found |-> Reserved(n)]]
    /\ counter' = [counter EXCEPT ![step] = @ + n]
    /\ UNCHANGED <<at, remaining, messages, step, results, fallback>>

Other(i) ==
    /\ at = "tools" /\ Latest.calls[i] # "search" /\ ~pending[i].done
    /\ pending' = [pending EXCEPT ![i].done = TRUE]
    /\ UNCHANGED <<at, remaining, messages, step, results, counter, fallback>>

DeletedAnswers(m) == (m.kind = "tool" /\ Tool(m) = "search") \/ m.kind = "follow_up"

\* next_hop deletes what belongs to searches: their answers, every message that calls one, and
\* what was asked after them.
Deleted(m) == \/ m.kind = "tool" /\ Tool(m) = "search"
              \/ m.kind = "ai" /\ "search" \in Range(m.calls)
              \/ m.kind = "follow_up"

Kept == [i \in DOMAIN messages |-> IF Deleted(messages[i]) THEN Removed ELSE messages[i]]

Hops  == Cardinality({i \in DOMAIN pending : Latest.calls[i] = "next_hop"})
Final == \A i \in DOMAIN pending : Latest.calls[i] = "finalize"

\* What the calls found, by the call and the place among what it found.
Found == UNION {{[call |-> Latest.answers[i], place |-> k, index_id |-> pending[i].found[k]] :
                     k \in DOMAIN pending[i].found} : i \in DOMAIN pending}

\* What the tools returned is applied; two values for current_step are an error.
Apply ==
    /\ at = "tools" /\ \A i \in DOMAIN pending : pending[i].done
    /\ IF Hops > 1
       THEN at' = "failed" /\ UNCHANGED <<remaining, messages, step, results>>
       ELSE /\ messages' = (IF Hops = 1 THEN Kept ELSE messages)
                           \o [i \in DOMAIN pending |-> Answer(Latest, i)]
            /\ step' = step + Hops
            /\ results' = results \cup Found
            /\ IF Final THEN at' = "ended" /\ UNCHANGED remaining ELSE Goes("before")
    /\ pending' = <<>>
    /\ UNCHANGED <<counter, fallback>>

Next == \/ \E left \in Limit - 2 .. Limit : Begin(left)
        \/ Before \/ Stop \/ ModelFails \/ Apply
        \/ \E calls \in Calls : Call(calls)
        \/ \E i \in DOMAIN pending : Other(i) \/ \E n \in 0 .. MaxResults : Search(i, n)

Spec == Init /\ [][Next]_vars
-----------------------------------------------------------------------------
\* A message that calls a search and another tool as well, which nothing keeps a model from.
Mixed(m) == "search" \in Range(m.calls) /\ Range(m.calls) # {"search"}

Follows(i) == \E j \in 1 .. i - 1 : /\ messages[j].kind = "ai"
                                    /\ messages[i].answers[1] \in Range(messages[j].answers)

\* What the model is sent is well formed, through every clean-up of next_hop: each answer of
\* a tool follows the message that made the call, and each call made is answered.  It is not
\* for messages that mix: the answer of the other tool stays when they are deleted.
Paired ==
    at \in {"before", "model"} =>
        \A i \in DOMAIN messages :
            /\ messages[i].kind = "tool" /\ ~Mixed(messages[i]) => Follows(i)
            /\ messages[i].kind = "ai" =>
                   \A c \in Range(messages[i].answers) :
                       \E j \in i + 1 .. Len(messages) :
                           messages[j].kind = "tool" /\ messages[j].answers = <<c>>

\* False: a message that mixes is deleted, or was before it is answered.
AllPaired == at \in {"before", "model"} =>
                 \A i \in DOMAIN messages : messages[i].kind = "tool" => Follows(i)

\* A hop names its evidence by index_id: no two results of the worker share one, whichever
\* searches ran side by side.  And the guard leaves for the fallback in time: the graph never
\* runs out of steps, so that a worker whose model answers ends with an answer of its own.
EvidenceNamed == \A r, q \in results : r.index_id = q.index_id => r = q
NeverRaised   == at # "raised"
=============================================================================
