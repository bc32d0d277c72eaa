--------------------------- MODULE CalendarHealth ---------------------------
(***************************************************************************)
(* The calendar-health job: it mails the owner when the credential stops   *)
(* working.                                                                *)
(*                                                                         *)
(* Recording the outcome of a call sets calendar_connection.updated_at.    *)
(* The job compares that timestamp with the one it last mailed about, so   *)
(* all that matters of a timestamp is whether it is still the current one. *)
(***************************************************************************)
EXTENDS CalendarLink

VARIABLES
    noted,      \* the job's marker equals the current updated_at
    job,        \* the job: told is the marker it read, current whether its updated_at still is
    notices     \* history: notices of the present outage (2: or more)

vars == <<linkVars, noted, job, notices>>

JobIdle == [op |-> "idle", told |-> FALSE, current |-> FALSE]

\* The credential, the marker and the job hold what they may hold.
TypeOK ==
    /\ LinkOK
    /\ noted \in BOOLEAN
    /\ job \in [op : {"idle", "probe", "clear", "recall", "notify", "mark"},
               told : BOOLEAN, current : BOOLEAN]
    /\ notices \in 0..2

Init == LinkInit /\ noted = FALSE /\ job = JobIdle /\ notices = 0

\* Mutant: the marker names something that outlives a change of the connection.
Remarked(j) == noted' = noted /\ job' = j

\* updated_at moves: no timestamp read or noted before is the current one.  j is
\* what the job is about to become.
Touched(j) == noted' = FALSE /\ job' = [j EXCEPT !.current = FALSE]

\* The outcome of a call is recorded, or recording it fails, which fails nothing
\* else.
Recorded(j) == Touched(j) /\ UNCHANGED faults
Unrecorded(j) == Fault /\ job' = j /\ UNCHANGED noted

Works(j) ==
    /\ Accepted
    /\ Recorded(j) \/ Unrecorded(j)
    /\ notices' = 0
    /\ UNCHANGED link

\* A call without a credential ends in the provider, which records nothing.  One
\* may also fail on the way, with a credential that is good.
Fails(j) ==
    /\ \/ link = "none" /\ job' = j /\ UNCHANGED <<noted, faults>>
       \/ link = "broken" /\ (Recorded(j) \/ Unrecorded(j))
       \/ Accepted /\ Fault /\ Touched(j)
    /\ UNCHANGED <<link, notices>>

ConnectCalendar    == ConnectLink /\ Touched(job) /\ notices' = 0
DisconnectCalendar == DisconnectLink /\ Touched(job) /\ UNCHANGED notices
Revoked            == RevokedLink /\ UNCHANGED <<noted, job, notices>>
TokenLapses        == LapsedToken /\ UNCHANGED <<noted, job, notices>>

\* Any call to Google but the job's: a member looks at the calendar, or books.
OtherCall == Works(job) \/ Fails(job)

-----------------------------------------------------------------------------
(* CalendarHealthJob.Run *)

HealthRead ==
    /\ job.op = "idle" /\ link # "none"
    /\ job' = [op |-> "probe", told |-> noted, current |-> TRUE]
    /\ UNCHANGED <<linkVars, noted, notices>>

HealthProbe ==
    /\ job.op = "probe"
    /\ \/ Works([job EXCEPT !.op = "clear"])
       \/ Fails([job EXCEPT !.op = "recall"])

\* A working credential clears the marker, best effort.
HealthClear ==
    /\ job.op = "clear"
    /\ \/ noted' = FALSE /\ UNCHANGED faults
       \/ Fault /\ UNCHANGED noted
    /\ job' = JobIdle
    /\ UNCHANGED <<link, notices>>

\* The marker is compared with the timestamp read before the probe; one that
\* cannot be read stops nothing.
HealthRecall ==
    /\ job.op = "recall"
    /\ \/ ~ job.told /\ job' = [job EXCEPT !.op = "notify"] /\ UNCHANGED faults
       \/ job.told /\ job' = JobIdle /\ UNCHANGED faults
       \/ Fault /\ job' = [job EXCEPT !.op = "notify"]
    /\ UNCHANGED <<link, noted, notices>>

\* A notice that could not be sent is not recorded either.
HealthNotify ==
    /\ job.op = "notify"
    /\ \/ /\ job' = [job EXCEPT !.op = "mark"]
          /\ notices' = IF link = "broken" /\ notices < 2 THEN notices + 1 ELSE notices
          /\ UNCHANGED faults
       \/ Fault /\ job' = JobIdle /\ UNCHANGED notices
    /\ UNCHANGED <<link, noted>>

HealthMark ==
    /\ job.op = "mark"
    /\ \/ noted' = job.current /\ UNCHANGED faults
       \/ Fault /\ UNCHANGED noted
    /\ job' = JobIdle
    /\ UNCHANGED <<link, notices>>

HealthStep ==
    \/ HealthRead \/ HealthProbe \/ HealthClear \/ HealthRecall
    \/ HealthNotify \/ HealthMark

Restart == Fault /\ job' = JobIdle /\ UNCHANGED <<link, noted, notices>>

Next ==
    \/ ConnectCalendar \/ DisconnectCalendar \/ Revoked \/ TokenLapses \/ OtherCall
    \/ HealthStep \/ Restart

Spec == Init /\ [][Next]_vars

\* The scheduler keeps firing the job, a run of it takes its steps, and a cached
\* access token does not outlive the client that holds it (providerCacheTTL).
FairSpec == Spec /\ WF_vars(HealthStep) /\ WF_vars(TokenLapses)

-----------------------------------------------------------------------------
(* Properties *)

\* A credential that was revoked and stays so is reported, whatever probes still
\* pass on a cached token, whatever sends fail on the way and whatever was reported
\* before (CalendarHealthJob.Run).
OutageIsReported ==
    link \in {"fading", "broken"} ~> notices > 0 \/ link \in {"none", "working"}
=============================================================================
