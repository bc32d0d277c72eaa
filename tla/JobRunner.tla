----------------------------- MODULE JobRunner -----------------------------
(***************************************************************************)
(* The runner of long admin operations: jobs in the memory of the api, one *)
(* goroutine each, one of a kind at a time, behind one mutex.              *)
(*                                                                         *)
(* A job's timeline is the number of reports it keeps.  What a report says *)
(* and how long a job takes are left out.  Every reader takes queued and   *)
(* running for one thing, and so does the model: the job is live.          *)
(***************************************************************************)
EXTENDS Naturals, FiniteSets

CONSTANTS
    MaxJobs,        \* bound: jobs ever started
    MaxEvents,      \* the reports a timeline keeps
    ListCap         \* the jobs GetOpsStatus lists

ASSUME JobAssumption ==
    MaxJobs \in Nat /\ MaxEvents \in Nat \ {0} /\ ListCap \in Nat \ {0}

VARIABLE
    jobs

Ids   == 1..MaxJobs
Kinds == {"corpus", "eval"}

\* dropped is history: a report left the timeline.
Job == [kind : Kinds, status : {"none", "live", "over", "forgotten"}, events : 0..(MaxEvents + 1),
        dropped : BOOLEAN]

NewJob(kind, status) == [kind |-> kind, status |-> status, events |-> 0, dropped |-> FALSE]
Forgotten == NewJob("corpus", "forgotten")

JobsInit == jobs = [j \in Ids |-> NewJob("corpus", "none")]

Live(j) == jobs[j].status = "live"
Over(j) == jobs[j].status = "over"

\* What the runner remembers, and Recent: the newest of it, up to the cap.
Remembered == {j \in Ids : Live(j) \/ Over(j)}
Recent     == {j \in Remembered : Cardinality({i \in Remembered : i > j}) < ListCap}

Busy(kind) == \E j \in Ids : Live(j) /\ jobs[j].kind = kind

\* The next id; ids are random in the code, and never used twice.
IsNext(j) == jobs[j].status = "none" /\ \A i \in 1..(j - 1) : jobs[i].status # "none"

\* StartWithin forgets the finished jobs that are old enough, refuses a second job
\* of the kind, and starts this one.
StartWithin(kind, j) ==
    /\ ~ Busy(kind) /\ IsNext(j)
    /\ \E old \in SUBSET {i \in Ids : Over(i)} :
          jobs' = [i \in Ids |->
                     IF i = j THEN NewJob(kind, "live")
                     ELSE IF i \in old THEN Forgotten ELSE jobs[i]]

\* A milestone: beyond the cap the oldest goes.
Report(j) ==
    /\ Live(j)
    /\ jobs' = [jobs EXCEPT ![j].events = IF @ < MaxEvents THEN @ + 1 ELSE MaxEvents,
                            ![j].dropped = @ \/ jobs[j].events >= MaxEvents]

\* The body returned, with a result or an error, or met its deadline.  The ending is
\* appended beyond the cap.
Finish(j) ==
    /\ Live(j)
    /\ jobs' = [jobs EXCEPT ![j].status = "over", ![j].events = @ + 1]

\* Mutant: only a timeline beyond the cap is said to be cut.
TruncatedBeyond(j) == jobs[j].events > MaxEvents

\* GetJobDetail says that a timeline starts mid-run.
Truncated(j) == jobs[j].events >= MaxEvents

\* The api stops, by a deploy or by a panic in a job, and every job is forgotten.
Forget == jobs' = [j \in Ids |-> IF jobs[j].status = "none" THEN jobs[j] ELSE Forgotten]
=============================================================================
