-------------------------- MODULE QuestionAnswering --------------------------
(***************************************************************************)
(* The parts of by_qa.qa, side by side: the tables of the checkpoints are   *)
(* set up, turns of a session wait for each other and go through the graph, *)
(* the history of a session is kept and shown, an agent searches, and one   *)
(* that was stopped answers from what it found.  Each has state of its own  *)
(* and is explored alone: part names the one that takes steps.             *)
(***************************************************************************)
EXTENDS Integers, Sequences, FiniteSets

CONSTANTS
    Nobody,
    Worker, MaxAttempts, MaxStarts,                                  \* CheckpointSetup
    Message, HistoryLimit, RetentionLimit, MaxTurns,                 \* Sessions
    Keep, MaxSubQueries,                                             \* Turns
    Calls, MaxFound, Limit,                                          \* SearchAgent
    Group, Score, MaxTokens, MaxResults, Available, MinSentence,     \* Fallback
    MaxRounds

\* There is a process; the steps of a graph are enough to leave two for the nodes before the loop
\* (_recursion_limit is 50); a message that calls tools calls one at least; the limits of the
\* history are numbers, and the thread keeps a question (MAX_RETAINED_USER_MESSAGES is 6).
ASSUME QuestionAnsweringAssumption ==
    /\ Worker # {}
    /\ Limit \in Nat \ {0, 1} /\ Calls \subseteq Seq(STRING) \ {<<>>}
    /\ IsFiniteSet(Message) /\ Nobody \notin Message
    /\ HistoryLimit \in Nat /\ RetentionLimit \in Nat
    /\ Keep \in Nat \ {0} /\ MaxSubQueries \in Nat

VARIABLES
    part,
    made, recorded, proc, starts, died,
    row, run, seq, answered, ended,
    entry, users, holder, saved, turn, began,
    at, remaining, messages, pending, step, hits, counter, fallback,
    results, replied, answer

Setup   == INSTANCE CheckpointSetup
History == INSTANCE Sessions WITH turn <- row
Thread  == INSTANCE Turns
Agent   == INSTANCE SearchAgent WITH MaxResults <- MaxFound, results <- hits
Stopped == INSTANCE Fallback

Parts == {"setup", "history", "thread", "agent", "stopped"}

Init == /\ part \in Parts
        /\ Setup!Init /\ History!Init /\ Thread!Init /\ Agent!Init /\ Stopped!Init

\* Only part p takes a step.
Only(p) ==
    /\ part = p /\ UNCHANGED part
    /\ IF p = "setup"   THEN TRUE ELSE UNCHANGED <<made, recorded, proc, starts, died>>
    /\ IF p = "history" THEN TRUE ELSE UNCHANGED <<row, run, seq, answered, ended>>
    /\ IF p = "thread"  THEN TRUE ELSE UNCHANGED <<entry, users, holder, saved, turn, began>>
    /\ IF p = "agent"   THEN TRUE
       ELSE UNCHANGED <<at, remaining, messages, pending, step, hits, counter, fallback>>
    /\ IF p = "stopped" THEN TRUE ELSE UNCHANGED <<results, replied, answer>>

Next == \/ Only("setup")   /\ Setup!Next
        \/ Only("history") /\ History!Next
        \/ Only("thread")  /\ Thread!Next
        \/ Only("agent")   /\ Agent!Next
        \/ Only("stopped") /\ Stopped!Next

vars == <<part, made, recorded, proc, starts, died, row, run, seq, answered, ended, entry, users,
          holder, saved, turn, began, at, remaining, messages, pending, step, hits, counter,
          fallback, results, replied, answer>>

Spec == Init /\ [][Next]_vars
-----------------------------------------------------------------------------
(* What each part keeps, said in its own module.                           *)

\* A process that has set the checkpoint tables up finds every object of every version made.
SetupComplete == part = "setup" => Setup!Complete

\* As long as no process dies, one of those that set the tables up gets through.
SomeoneFinishes == part = "setup" => Setup!SomeoneFinishes

\* The history shown is that of the turns which were completed last.
HistoryShown == part = "history" => History!HistoryShown

\* A turn is answered from its own question and from what it found itself.
OwnTurn == part = "thread" => Thread!OwnTurn

\* Every call of a tool is followed by its answer when a model is called.
CallsPaired == part = "agent" => Agent!Paired

\* Every piece of evidence that is cited has a name of its own.
EvidenceNamed == part = "agent" => Agent!EvidenceNamed

\* The agent gives an answer before its steps run out.
NeverRaised == part = "agent" => Agent!NeverRaised

\* Evidence that is bounded for the model fits its budget, taken in turns and the best first, and
\* what is cut is named; what is given without a bound is not spoken of.
ContextFits == part = "stopped" => Stopped!ContextFits
=============================================================================
