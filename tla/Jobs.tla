-------------------------------- MODULE Jobs --------------------------------
(***************************************************************************)
(* What by_qa.knowledge_base promises of background work: jobs come in     *)
(* batches, all jobs of a batch are created at once, a job starts at most  *)
(* once and ends once, and a batch is open exactly until the last of its   *)
(* jobs has ended, whoever ended it.  No leases, workers or counters here: *)
(* they are how FileBuild and SemanticTask keep the promise.               *)
(***************************************************************************)
CONSTANTS
    Job,
    Batch,
    BatchOf     \* the batch that each job belongs to

VARIABLES
    state,   \* what has become of each job
    open     \* the batches that are not completed

Unended  == {"pending", "running"}
JobState == {"absent", "ended"} \cup Unended

JobsOf(b) == {j \in Job : BatchOf[j] = b}

JobsTypeOK == state \in [Job -> JobState] /\ open \in SUBSET Batch

Init == state = [j \in Job |-> "absent"] /\ open = {}

\* A batch is open while it has work left.
OpenFollows == open' = {b \in Batch : \E j \in JobsOf(b) : state'[j] \in Unended}

Stays(j)       == state'[j] = state[j]
EndsOrStays(j) == Stays(j) \/ (state[j] \in Unended /\ state'[j] = "ended")

\* The jobs of a new batch are created; other jobs, which they replace, end with it.
Submit(b) ==
    /\ \A j \in JobsOf(b) : state[j] = "absent" /\ state'[j] \in {"absent", "pending"}
    /\ \A j \in Job \ JobsOf(b) : EndsOrStays(j)

Start(j) ==
    /\ state[j] = "pending" /\ state'[j] = "running"
    /\ \A i \in Job \ {j} : Stays(i)

\* Jobs end together when one transaction ends them: with their file, or replaced.
End == \A j \in Job : EndsOrStays(j)

Next ==
    /\ state' \in [Job -> JobState]
    /\ OpenFollows
    /\ (\E b \in Batch : Submit(b)) \/ (\E j \in Job : Start(j)) \/ End

Spec == Init /\ [][Next]_<<state, open>>
=============================================================================
