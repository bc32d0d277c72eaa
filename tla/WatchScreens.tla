---------------------------- MODULE WatchScreens ----------------------------
(***************************************************************************)
(* The screens that watch long work by polling: the corpus panel, the      *)
(* evaluation page, the operations page with its list and its detail       *)
(* dialog, and the page of a job-description review.  One tab; what it     *)
(* shows is compared with the jobs of the api and with the review's row.   *)
(*                                                                         *)
(* A poll is answered from the state of the moment and handled later.  An  *)
(* answer may be an error, and a call may throw: the api is not reached.   *)
(***************************************************************************)
EXTENDS JobRunner

CONSTANTS
    MaxCalls,       \* bound: calls of the tab when a button is pressed
    MaxFaults       \* bound: calls that fail or throw

ASSUME WatchAssumption == MaxCalls \in Nat /\ MaxFaults \in Nat

VARIABLES
    review,         \* the row of the review
    page,           \* the page that is open
    panel,          \* what it shows of the one job or review it watches
    ops,            \* the operations page: its list, and the dialog over it
    calls,          \* polls to come, and calls under way
    faults

vars == <<jobs, review, page, panel, ops, calls, faults>>

Pages == {"elsewhere", "corpus", "evals", "ops", "review"}

\* hour says that the review's polling budget is spent.  History of this mount: a
\* poll threw (threw), a look or a start failed and nothing says so (unseen).
Panel == [job : {0} \cup Ids, shown : {"none", "live", "over"}, error : BOOLEAN,
          starting : BOOLEAN, hour : BOOLEAN, threw : BOOLEAN, unseen : BOOLEAN]
Fresh == [job |-> 0, shown |-> "none", error |-> FALSE, starting |-> FALSE, hour |-> FALSE,
          threw |-> FALSE, unseen |-> FALSE]

Rows  == [Ids -> {"absent", "live", "over"}]
Ops   == [list : Rows, open : {0} \cup Ids, detail : {"loading", "live", "over", "error"}]
Empty == [j \in Ids |-> "absent"]
NoOps == [list |-> Empty, open |-> 0, detail |-> "loading"]

\* gone: the page that sent it is not there any more.  nr tells the starts that wait
\* at the same time apart.
Call == [by : {"start", "resume", "job", "list", "detail", "review"}, kind : Kinds,
         nr : 0..MaxCalls, job : {0} \cup Ids,
         answer : {"", "ok", "live", "over", "error", "thrown"}, rows : Rows, gone : BOOLEAN]

NewCall(by, kind, j) == [by |-> by, kind |-> kind, nr |-> 0, job |-> j, answer |-> "",
                         rows |-> Empty, gone |-> FALSE]

PollJob(kind, j) == NewCall("job", kind, j)
PollList         == NewCall("list", "corpus", 0)
PollDetail(j)    == NewCall("detail", "corpus", j)
PollReview       == NewCall("review", "corpus", 0)

\* The screens and their calls hold what their types admit.
TypeOK ==
    /\ jobs \in [Ids -> Job]
    /\ review \in {"none", "live", "over"} /\ page \in Pages
    /\ panel \in Panel /\ ops \in Ops /\ calls \subseteq Call
    /\ Cardinality(calls) <= MaxCalls + 1
    /\ faults \in 0..MaxFaults

Init ==
    /\ JobsInit /\ review = "none" /\ page = "elsewhere" /\ panel = Fresh /\ ops = NoOps
    /\ calls = {} /\ faults = 0

Fault == faults < MaxFaults /\ faults' = faults + 1

\* What GetOpsStatus lists: a job that still runs is left out when the cap is met by
\* newer ones.
Listing == [j \in Ids |-> IF j \notin Recent THEN "absent" ELSE IF Live(j) THEN "live" ELSE "over"]

AnyRunning(rows) == \E j \in Ids : rows[j] = "live"

By(b) == {c \in calls : c.by = b}

-----------------------------------------------------------------------------
(* Pages *)

\* The calls of the page that is left: an action still waiting its turn is carried
\* out all the same, unless the tab is reloaded; the polls end.
Waiting == {[c EXCEPT !.gone = TRUE] : c \in {d \in calls : d.by = "start" /\ d.answer = ""}}

\* Mutant: no page looks for a run it did not start itself.
OpenedForgetful(p, list) ==
    CASE p = "ops"    -> IF AnyRunning(list) THEN {PollList} ELSE {}
      [] p = "review" -> IF review # "none" THEN {PollReview} ELSE {}
      [] OTHER        -> {}

\* What a page asks for when it opens.  The evaluation page looks for a run to
\* reattach to; the corpus panel looks for nothing.
Opened(p, list) ==
    CASE p = "evals"  -> {NewCall("resume", "eval", 0)}
      [] p = "ops"    -> IF AnyRunning(list) THEN {PollList} ELSE {}
      [] p = "review" -> IF review # "none" THEN {PollReview} ELSE {}
      [] OTHER        -> {}

\* Every page starts from nothing but what the server rendered.  A reload is a way
\* elsewhere and back.
Navigate(p) ==
    /\ p # page /\ page' = p /\ panel' = Fresh
    /\ \/ ops' = [NoOps EXCEPT !.list = IF p = "ops" THEN Listing ELSE Empty] /\ UNCHANGED faults
       \/ p = "ops" /\ ops' = NoOps /\ Fault
    /\ \E left \in SUBSET Waiting : calls' = left \cup Opened(p, ops'.list)
    /\ UNCHANGED <<jobs, review>>

Room == Cardinality(calls) < MaxCalls

\* The bound leaves an id for every start under way.
IdLeft == Cardinality(By("start")) < Cardinality({j \in Ids : jobs[j].status = "none"})

\* The buttons of the corpus panel and of the evaluation page are closed while the job
\* on the screen looks live; the panel's is also while a start is on its way, and the
\* evaluation page's may be pressed again meanwhile.
Start ==
    /\ page \in {"corpus", "evals"} /\ Room /\ IdLeft /\ panel.shown # "live" /\ ~ panel.starting
    /\ panel' = [panel EXCEPT !.error = FALSE, !.starting = (page = "corpus")]
    /\ \E n \in 0..MaxCalls :
          /\ \A c \in By("start") : c.nr # n
          /\ \A i \in 0..(n - 1) : \E c \in By("start") : c.nr = i
          /\ calls' = calls \cup {[NewCall("start", IF page = "corpus" THEN "corpus" ELSE "eval", 0)
                                  EXCEPT !.nr = n]}
    /\ UNCHANGED <<jobs, review, page, ops, faults>>

\* The job of a row, in a dialog.
OpenDetail(j) ==
    /\ page = "ops" /\ ops.open = 0 /\ ops.list[j] # "absent" /\ Room
    /\ ops' = [ops EXCEPT !.open = j, !.detail = "loading"]
    /\ calls' = calls \cup {PollDetail(j)}
    /\ UNCHANGED <<jobs, review, page, panel, faults>>

CloseDetail ==
    /\ page = "ops" /\ ops.open # 0
    /\ ops' = [ops EXCEPT !.open = 0, !.detail = "loading"]
    /\ calls' = {c \in calls : c.by # "detail"}
    /\ UNCHANGED <<jobs, review, page, panel, faults>>

\* The form of the review page, whose reply mounts the result.
SubmitReview ==
    /\ page = "review" /\ review = "none"
    /\ review' = "live" /\ calls' = calls \cup {PollReview}
    /\ UNCHANGED <<jobs, page, panel, ops, faults>>

\* The review has been watched for an hour.
HourOver ==
    /\ page = "review" /\ review # "none" /\ ~ panel.hour
    /\ panel' = [panel EXCEPT !.hour = TRUE]
    /\ UNCHANGED <<jobs, review, page, ops, calls, faults>>

-----------------------------------------------------------------------------
(* The api's answers *)

\* The actions of a tab are sent one after the other, in the order of their clicks and
\* effects: first those of an earlier page, then the look for a running evaluation.
Turn(c) ==
    /\ c.answer = ""
    /\ \A d \in calls : /\ d.answer = ""
                        /\ d.gone => c.gone
                        /\ c.by = "start" /\ d.by = "resume" => c.gone

Answer(c, a) == calls' = (calls \ {c}) \cup {a}

\* GetJob and GetJobDetail.
GetJob(c) ==
    LET a == IF Live(c.job) THEN "live" ELSE IF Over(c.job) THEN "over" ELSE "error"
    IN  Answer(c, [c EXCEPT !.answer = a]) /\ UNCHANGED jobs

GetOpsStatus(c) == Answer(c, [c EXCEPT !.answer = "ok", !.rows = Listing]) /\ UNCHANGED jobs

RunningEval(j) == Live(j) /\ jobs[j].kind = "eval"

\* The running evaluation, if the list of GetOpsStatus has one.
FindRunningEval(c) ==
    /\ \/ \E j \in Recent : RunningEval(j) /\ Answer(c, [c EXCEPT !.answer = "live", !.job = j])
       \/ (\A j \in Recent : ~ RunningEval(j)) /\ Answer(c, [c EXCEPT !.answer = "over"])
    /\ UNCHANGED jobs

\* RunJob; the bound stops at the last id.
RunJob(c) ==
    \/ \E j \in Ids : StartWithin(c.kind, j) /\ Answer(c, [c EXCEPT !.answer = "ok", !.job = j])
    \/ Busy(c.kind) /\ Answer(c, [c EXCEPT !.answer = "error"]) /\ UNCHANGED jobs

GetJdResult(c) == Answer(c, [c EXCEPT !.answer = review]) /\ UNCHANGED jobs

Serve(c) ==
    /\ Turn(c)
    /\ CASE c.by \in {"job", "detail"} -> GetJob(c)
         [] c.by = "list"   -> GetOpsStatus(c)
         [] c.by = "resume" -> FindRunningEval(c)
         [] c.by = "start"  -> RunJob(c)
         [] c.by = "review" -> GetJdResult(c)
    /\ UNCHANGED <<review, page, panel, ops, faults>>

\* The call is answered with an error or throws; a start may have been carried out.
ServeFails(c) ==
    /\ Turn(c) /\ Fault
    /\ \E a \in {"error", "thrown"} : Answer(c, [c EXCEPT !.answer = a])
    /\ UNCHANGED jobs \/ (c.by = "start" /\ \E j \in Ids : StartWithin(c.kind, j))
    /\ UNCHANGED <<review, page, panel, ops>>

-----------------------------------------------------------------------------
(* The replies *)

Without(c) == calls' = calls \ {c}
Then(c, d) == calls' = (calls \ {c}) \cup {d}

\* start() of the panel and of the evaluation page.  A call that throws leaves the
\* panel starting.
StartReply(c) ==
    /\ panel' = IF c.gone THEN panel
                ELSE CASE c.answer = "ok" -> [panel EXCEPT !.job = c.job, !.shown = "live",
                                                           !.starting = FALSE]
                       [] c.answer = "error" -> [panel EXCEPT !.error = TRUE, !.starting = FALSE]
                       [] OTHER -> [panel EXCEPT !.unseen = TRUE]
    /\ IF c.answer = "ok" /\ ~ c.gone THEN Then(c, PollJob(c.kind, c.job)) ELSE Without(c)
    /\ UNCHANGED ops

\* resume(): anything but a running job is silence.
ResumeReply(c) ==
    /\ IF c.answer = "live"
       THEN /\ panel' = [panel EXCEPT !.job = c.job, !.shown = "live"]
            /\ Then(c, PollJob("eval", c.job))
       ELSE /\ panel' = [panel EXCEPT !.unseen = @ \/ c.answer # "over"]
            /\ Without(c)
    /\ UNCHANGED ops

\* Mutant: a poll that fails is forgotten.
JobReplyQuiet(c) ==
    /\ IF c.answer \in {"live", "over"}
       THEN panel' = [panel EXCEPT !.job = c.job, !.shown = c.answer]
       ELSE UNCHANGED panel
    /\ IF c.answer = "live" THEN Then(c, PollJob(c.kind, c.job)) ELSE Without(c)
    /\ UNCHANGED ops

\* poll(): an error is shown and ends the polling; a throw ends it, and nothing says so.
JobReply(c) ==
    /\ panel' = CASE c.answer \in {"live", "over"} ->
                            [panel EXCEPT !.job = c.job, !.shown = c.answer]
                  [] c.answer = "error" -> [panel EXCEPT !.error = TRUE]
                  [] OTHER -> [panel EXCEPT !.threw = TRUE]
    /\ IF c.answer = "live" THEN Then(c, PollJob(c.kind, c.job)) ELSE Without(c)
    /\ UNCHANGED ops

\* The list is replaced, and the dialog goes with the row it was opened from.
Listed(rows) ==
    IF ops.open # 0 /\ rows[ops.open] = "absent" THEN [NoOps EXCEPT !.list = rows]
    ELSE [ops EXCEPT !.list = rows]

Tick(c) ==
    LET kept == {d \in calls \ {c} : d.by = "detail" => ops'.open # 0}
    IN  calls' = IF AnyRunning(ops'.list) THEN kept \cup {PollList} ELSE kept

\* Mutant: the first failed poll is the last.
ListReplyOnce(c) ==
    /\ ops' = IF c.answer = "ok" THEN Listed(c.rows) ELSE ops
    /\ IF c.answer = "ok" THEN Tick(c) ELSE Without(c)
    /\ UNCHANGED panel

\* A failed poll keeps the rows and tries again, until none of them runs.
ListReply(c) ==
    /\ ops' = IF c.answer = "ok" THEN Listed(c.rows) ELSE ops
    /\ Tick(c)
    /\ UNCHANGED panel

\* The dialog asks again while the job runs, and after a throw; an error ends it.
DetailReply(c) ==
    /\ ops' = IF c.answer = "thrown" THEN ops ELSE [ops EXCEPT !.detail = c.answer]
    /\ IF c.answer \in {"live", "thrown"} THEN Then(c, PollDetail(c.job)) ELSE Without(c)
    /\ UNCHANGED panel

\* The result of a review: a failed poll is said and is the last, and so is the one
\* after an hour.
ReviewReply(c) ==
    /\ panel' = IF c.answer \in {"live", "over"} THEN [panel EXCEPT !.shown = c.answer]
                ELSE [panel EXCEPT !.error = TRUE]
    /\ IF c.answer = "live" /\ ~ panel.hour THEN Then(c, PollReview) ELSE Without(c)
    /\ UNCHANGED ops

Reply(c) ==
    /\ c.answer # ""
    /\ \/ c.by = "start"  /\ StartReply(c)
       \/ c.by = "resume" /\ ResumeReply(c)
       \/ c.by = "job"    /\ JobReply(c)
       \/ c.by = "list"   /\ ListReply(c)
       \/ c.by = "detail" /\ DetailReply(c)
       \/ c.by = "review" /\ ReviewReply(c)
    /\ UNCHANGED <<jobs, review, page, faults>>

-----------------------------------------------------------------------------
(* The work *)

Works(j) ==
    /\ Report(j) \/ Finish(j)
    /\ UNCHANGED <<review, page, panel, ops, calls, faults>>

ReviewEnds ==
    /\ review = "live" /\ review' = "over"
    /\ UNCHANGED <<jobs, page, panel, ops, calls, faults>>

\* The jobs are forgotten; the row of a review under way is failed at boot.
Restart ==
    /\ Forget
    /\ review' = IF review = "live" THEN "over" ELSE review
    /\ UNCHANGED <<page, panel, ops, calls, faults>>

Next ==
    \/ \E p \in Pages : Navigate(p)
    \/ Start \/ CloseDetail \/ SubmitReview \/ HourOver
    \/ \E j \in Ids : OpenDetail(j) \/ Works(j)
    \/ \E c \in calls : Serve(c) \/ ServeFails(c) \/ Reply(c)
    \/ ReviewEnds \/ Restart

\* Timers fire and the queue of the tab serves whoever waits; what was answered is
\* handled.
Fairness ==
    /\ WF_vars(\E c \in calls : Reply(c))
    /\ \A b \in {"start", "resume", "job", "list"} : SF_vars(\E c \in By(b) : Serve(c))

Spec == Init /\ [][Next]_vars /\ Fairness

-----------------------------------------------------------------------------
(* Properties *)

Asking(b, j) == \E c \in By(b) : c.job = j

\* On the operations page nothing freezes, whatever polls failed: while a row runs the
\* list is going to be read again, and the dialog is going to ask again until an answer
\* said that the job is over, or was an error, which it shows (job-list.tsx,
\* job-detail.tsx tick).  The comment at job-detail.tsx:70 promises more, that no
\* failed poll ends the polling: true of one that throws, not of an error answered.
ConsoleKeepsAsking ==
    /\ page = "ops" /\ AnyRunning(ops.list) => Asking("list", 0)
    /\ ops.open # 0 /\ ops.detail \in {"loading", "live"} => Asking("detail", ops.open)

\* The other screens stop asking about work they show under way for these reasons and
\* no others: the panels of the corpus and of evaluations after an error they show, or
\* after a poll that threw, which nothing on them tells; a review after a failed poll,
\* which it says, or after its hour (job-panel.tsx, eval-runner.tsx poll; result.tsx
\* tick).
FreezesAreKnown ==
    /\ page \in {"corpus", "evals"} /\ panel.shown = "live"
          => Asking("job", panel.job) \/ panel.error \/ panel.threw
    /\ page = "review" /\ panel.shown = "live"
          => Asking("review", 0) \/ panel.error \/ panel.hour

\* A timeline that has lost its beginning says so, while the job runs and after the
\* report of its end (jobs/runner.go run, handlers/admin_ops.go GetJobDetail).
TruncationIsTold == \A j \in Remembered : jobs[j].dropped => Truncated(j)

\* The page of an evaluation that runs shows it in the end, also after leaving and
\* coming back, as long as it is among the newest jobs, unless a look for one, a
\* start or a poll failed on this page (eval-runner.tsx resume).  The panel of the
\* corpus says the like (job-panel.tsx:139) and looks for nothing.
RunIsReattached ==
    (page = "evals" /\ \E j \in Recent : RunningEval(j)) ~>
        (\/ page # "evals" \/ \A j \in Recent : ~ RunningEval(j)
         \/ panel.shown = "live" /\ jobs[panel.job].kind = "eval"
         \/ panel.error \/ panel.threw \/ panel.unseen)

\* The operations list catches up with a job that ended or was forgotten, whatever
\* polls failed meanwhile (job-list.tsx tick).
ListCatchesUp ==
    \A j \in Ids : (page = "ops" /\ ops.list[j] = "live" /\ ~ Live(j))
                      ~> (page # "ops" \/ ops.list[j] # "live")
=============================================================================
