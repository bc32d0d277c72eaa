------------------------- MODULE WatchScreensProofs -------------------------
(***************************************************************************)
(* What is proved of the polling screens, for every number of jobs, of     *)
(* calls and of faults, and for every length of a timeline:                *)
(*                                                                         *)
(*   TruncationHolds  a timeline that has lost its beginning says so       *)
(*   ConsoleAsks      the operations page never stops asking about work    *)
(*                    it shows under way                                   *)
(*   OnlyKnownFreezes the other screens stop for three reasons only        *)
(*   TypeCorrect      the jobs and the screens are of their types          *)
(*                                                                         *)
(* The first follows from the jobs alone.  The next two need to know which *)
(* page every call belongs to (AtHome), and that the look for a running    *)
(* evaluation comes before anything else the page is told (ResumeFirst).   *)
(***************************************************************************)
EXTENDS WatchScreens, TLAPS

-----------------------------------------------------------------------------
(* The jobs *)

\* A timeline goes beyond the cap only with the report of the end.
WithinCap == \A j \in Ids : Live(j) => jobs[j].events <= MaxEvents

\* Only a timeline at its cap has lost anything.
CutIsLong == \A j \in Ids : jobs[j].dropped => jobs[j].events >= MaxEvents

JobsInv == jobs \in [Ids -> Job] /\ WithinCap /\ CutIsLong

\* What a step does to the jobs.
JobsMove ==
    \/ UNCHANGED jobs
    \/ \E j \in Ids, kind \in Kinds : StartWithin(kind, j)
    \/ \E j \in Ids : Report(j) \/ Finish(j)
    \/ Forget

\* The fields of a new job.
LEMMA NewJobFields ==
    ASSUME NEW kind \in Kinds, NEW s \in {"none", "live", "over", "forgotten"}
    PROVE  /\ NewJob(kind, s) \in Job
           /\ NewJob(kind, s).status = s
           /\ NewJob(kind, s).events = 0
           /\ ~ NewJob(kind, s).dropped
<1>1. MaxEvents \in Nat \ {0}
  BY JobAssumption
<1> QED
  BY <1>1 DEF NewJob, Job

\* A forgotten job has no timeline.
LEMMA ForgottenFields ==
    Forgotten \in Job /\ Forgotten.status = "forgotten" /\ Forgotten.events = 0 /\ ~ Forgotten.dropped
<1>1. "corpus" \in Kinds
  BY DEF Kinds
<1> QED
  BY <1>1, NewJobFields DEF Forgotten

\* No job has been started.
LEMMA JobsBegin == JobsInit => JobsInv
<1> SUFFICES ASSUME JobsInit
             PROVE  JobsInv
  OBVIOUS
<1> DEFINE none == NewJob("corpus", "none")
<1>1. none \in Job /\ none.status = "none" /\ none.events = 0 /\ ~ none.dropped
  <2>1. "corpus" \in Kinds
    BY DEF Kinds
  <2> QED
    BY <2>1, NewJobFields
<1>2. jobs = [j \in Ids |-> none]
  BY DEF JobsInit
<1> HIDE DEF none
<1> QED
  BY <1>1, <1>2 DEF JobsInv, WithinCap, CutIsLong, Live

\* A new job starts with an empty timeline, and what is forgotten has none.
LEMMA StartKeepsJobs ==
    ASSUME JobsInv, NEW j \in Ids, NEW kind \in Kinds, StartWithin(kind, j)
    PROVE  JobsInv'
<1> DEFINE new == NewJob(kind, "live")
<1>1. new \in Job /\ new.events = 0 /\ ~ new.dropped
  BY NewJobFields
<1>2. MaxEvents \in Nat
  BY JobAssumption
<1>3. PICK old \in SUBSET {i \in Ids : Over(i)} :
        jobs' = [i \in Ids |-> IF i = j THEN new ELSE IF i \in old THEN Forgotten ELSE jobs[i]]
  BY DEF StartWithin
<1> HIDE DEF new
<1>4. \A i \in Ids : jobs'[i] = new \/ jobs'[i] = Forgotten \/ jobs'[i] = jobs[i]
  BY <1>3
<1>5. jobs' \in [Ids -> Job]
  BY <1>1, <1>3, ForgottenFields DEF JobsInv
<1>6. WithinCap'
  BY <1>1, <1>2, <1>4, ForgottenFields DEF JobsInv, WithinCap, Live
<1>7. CutIsLong'
  BY <1>1, <1>2, <1>4, ForgottenFields DEF JobsInv, CutIsLong
<1> QED
  BY <1>5, <1>6, <1>7 DEF JobsInv

\* A report fills the timeline up to its cap, and drops one only there.
LEMMA ReportKeepsJobs ==
    ASSUME JobsInv, NEW j \in Ids, Report(j)
    PROVE  JobsInv'
<1> DEFINE e == IF jobs[j].events < MaxEvents THEN jobs[j].events + 1 ELSE MaxEvents
           d == jobs[j].dropped \/ jobs[j].events >= MaxEvents
           x == [jobs[j] EXCEPT !.events = e, !.dropped = d]
<1>1. MaxEvents \in Nat /\ jobs[j] \in Job /\ jobs[j].events \in Nat /\ Live(j)
  BY JobAssumption DEF JobsInv, Job, Report
<1>2. e \in 0..MaxEvents /\ d \in BOOLEAN /\ (d => e = MaxEvents)
  <2>1. jobs[j].events <= MaxEvents
    BY <1>1 DEF JobsInv, WithinCap
  <2>2. jobs[j].dropped => jobs[j].events >= MaxEvents
    BY DEF JobsInv, CutIsLong
  <2> QED
    BY <1>1, <2>1, <2>2 DEF Job
<1>3. jobs' = [jobs EXCEPT ![j] = x]
  BY DEF Report
<1> HIDE DEF e, d
<1>4. x \in Job /\ x.events = e /\ x.dropped = d
  <2>1. e \in 0..(MaxEvents + 1)
    BY <1>1, <1>2
  <2> QED
    BY <1>1, <1>2, <2>1, Zenon DEF Job
<1> HIDE DEF x
<1>5. jobs' \in [Ids -> Job]
  BY <1>3, <1>4 DEF JobsInv
<1>6. WithinCap'
  BY <1>1, <1>2, <1>3, <1>4 DEF JobsInv, WithinCap, Live
<1>7. CutIsLong'
  BY <1>1, <1>2, <1>3, <1>4 DEF JobsInv, CutIsLong
<1> QED
  BY <1>5, <1>6, <1>7 DEF JobsInv

\* The report of the end goes beyond the cap, and the job is over.
LEMMA FinishKeepsJobs ==
    ASSUME JobsInv, NEW j \in Ids, Finish(j)
    PROVE  JobsInv'
<1> DEFINE e == jobs[j].events + 1
           x == [jobs[j] EXCEPT !.status = "over", !.events = e]
<1>1. MaxEvents \in Nat /\ jobs[j] \in Job /\ jobs[j].events \in Nat /\ Live(j)
  BY JobAssumption DEF JobsInv, Job, Finish
<1>2. e \in 0..(MaxEvents + 1) /\ (jobs[j].dropped => e >= MaxEvents)
  <2>1. jobs[j].events <= MaxEvents
    BY <1>1 DEF JobsInv, WithinCap
  <2>2. jobs[j].dropped => jobs[j].events >= MaxEvents
    BY DEF JobsInv, CutIsLong
  <2> QED
    BY <1>1, <2>1, <2>2 DEF Job
<1>3. jobs' = [jobs EXCEPT ![j] = x]
  BY DEF Finish
<1> HIDE DEF e
<1>4. x \in Job /\ x.status = "over" /\ x.events = e /\ (x.dropped <=> jobs[j].dropped)
  BY <1>1, <1>2 DEF Job
<1> HIDE DEF x
<1>5. jobs' \in [Ids -> Job]
  BY <1>3, <1>4 DEF JobsInv
<1>6. WithinCap'
  BY <1>3, <1>4 DEF JobsInv, WithinCap, Live
<1>7. CutIsLong'
  BY <1>2, <1>3, <1>4 DEF JobsInv, CutIsLong
<1> QED
  BY <1>5, <1>6, <1>7 DEF JobsInv

\* Every move of the jobs keeps what is said of them.
LEMMA MovesKeepJobs == JobsInv /\ JobsMove => JobsInv'
<1> SUFFICES ASSUME JobsInv, JobsMove
             PROVE  JobsInv'
  OBVIOUS
<1>1. CASE UNCHANGED jobs
  BY <1>1 DEF JobsInv, WithinCap, CutIsLong, Live
<1>2. CASE \E j \in Ids, kind \in Kinds : StartWithin(kind, j)
  BY <1>2, StartKeepsJobs
<1>3. CASE \E j \in Ids : Report(j) \/ Finish(j)
  BY <1>3, ReportKeepsJobs, FinishKeepsJobs
<1>4. CASE Forget
  <2>1. \A i \in Ids : jobs'[i] = Forgotten \/ jobs'[i] = jobs[i]
    BY <1>4 DEF Forget
  <2>2. jobs' \in [Ids -> Job]
    BY <1>4, ForgottenFields DEF Forget, JobsInv
  <2>3. MaxEvents \in Nat
    BY JobAssumption
  <2> QED
    BY <2>1, <2>2, <2>3, ForgottenFields DEF JobsInv, WithinCap, CutIsLong, Live
<1> QED
  BY <1>1, <1>2, <1>3, <1>4 DEF JobsMove

-----------------------------------------------------------------------------
(* The screens and their calls *)

\* The type invariant without the bound on the calls.
ScreenOK ==
    /\ review \in {"none", "live", "over"} /\ page \in Pages
    /\ panel \in Panel /\ ops \in Ops /\ calls \subseteq Call

\* A dialog and a review get an answer of their own kind, and only a review that was
\* submitted is asked about.
AnswersFit ==
    \A c \in calls : /\ c.by \in {"detail", "review"} => c.answer # "ok"
                     /\ c.by = "review" => review # "none"

\* A call belongs to the page that is open, unless it is the start of another one;
\* and the dialog asks for the job it shows.
AtHome ==
    \A c \in calls :
        /\ c.gone => c.by = "start"
        /\ c.by = "start" /\ ~ c.gone => page \in {"corpus", "evals"}
        /\ c.by = "job"    => page \in {"corpus", "evals"}
        /\ c.by = "resume" => page = "evals"
        /\ c.by = "list"   => page = "ops" /\ c.job = 0
        /\ c.by = "detail" => page = "ops" /\ c.job = ops.open /\ ops.open # 0
        /\ c.by = "review" => page = "review" /\ c.job = 0

\* While the page looks for a running evaluation it shows none, polls none, and what
\* its button asked for has to wait.
ResumeFirst ==
    \A r \in calls : r.by = "resume" =>
        /\ panel.shown # "live"
        /\ \A c \in calls : /\ c.by # "job"
                            /\ c.by = "resume" => c = r
                            /\ c.by = "start" /\ ~ c.gone => c.answer = ""

\* No screen stops asking but for a reason that is known.
KeepsAsking == ConsoleKeepsAsking /\ FreezesAreKnown

PollInv == ScreenOK /\ AnswersFit /\ AtHome /\ ResumeFirst /\ KeepsAsking

\* A new call of any page.
IsNew(d, by, j) ==
    d \in Call /\ d.by = by /\ d.job = j /\ d.answer = "" /\ ~ d.gone

\* A call begins without an answer.
LEMMA NewCallIsNew ==
    ASSUME NEW by \in {"start", "resume", "job", "list", "detail", "review"},
           NEW kind \in Kinds, NEW j \in {0} \cup Ids
    PROVE  IsNew(NewCall(by, kind, j), by, j)
BY WatchAssumption DEF NewCall, Call, Rows, Empty, IsNew

\* The polls are new calls.
LEMMA PollsAreNew ==
    /\ \A kind \in Kinds, j \in {0} \cup Ids : IsNew(PollJob(kind, j), "job", j)
    /\ \A j \in {0} \cup Ids : IsNew(PollDetail(j), "detail", j)
    /\ IsNew(PollList, "list", 0)
    /\ IsNew(PollReview, "review", 0)
    /\ \A kind \in Kinds : IsNew(NewCall("start", kind, 0), "start", 0)
    /\ IsNew(NewCall("resume", "eval", 0), "resume", 0)
<1>1. "corpus" \in Kinds /\ "eval" \in Kinds
  BY DEF Kinds
<1>2. \A by \in {"start", "resume", "job", "list", "detail", "review"}, kind \in Kinds,
         j \in {0} \cup Ids : IsNew(NewCall(by, kind, j), by, j)
  BY NewCallIsNew
<1> QED
  BY <1>1, <1>2 DEF PollJob, PollDetail, PollList, PollReview

\* The fields of a screen that shows nothing yet.
LEMMA FreshFields ==
    /\ Fresh \in Panel /\ Fresh.shown = "none"
    /\ NoOps \in Ops /\ NoOps.open = 0 /\ ~ AnyRunning(NoOps.list)
    /\ Empty \in Rows
BY DEF Fresh, Panel, NoOps, Ops, Rows, Empty, AnyRunning

\* What the operations page lists has the type of a list.
LEMMA ListingTyped == Listing \in Rows
BY DEF Listing, Rows

\* A tab that has just been opened.
LEMMA PollsBegin == Init => PollInv
BY FreshFields DEF Init, PollInv, ScreenOK, AnswersFit, AtHome, ResumeFirst, KeepsAsking, ConsoleKeepsAsking, FreezesAreKnown, Pages

-----------------------------------------------------------------------------
(* The pages *)

\* The calls that outlive their page are starts, and marked.
LEMMA WaitingFields ==
    ASSUME ScreenOK, NEW c \in Waiting
    PROVE  c \in Call /\ c.by = "start" /\ c.answer = "" /\ c.gone
<1>1. PICK d \in calls : d.by = "start" /\ d.answer = "" /\ c = [d EXCEPT !.gone = TRUE]
  BY DEF Waiting
<1>2. d \in Call
  BY DEF ScreenOK
<1> QED
  BY <1>1, <1>2 DEF Call

\* A page starts from nothing: it shows no work that it does not ask about.
LEMMA NavigateKeeps ==
    ASSUME PollInv, NEW p \in Pages, Navigate(p)
    PROVE  PollInv'
<1>1. page' = p /\ panel' = Fresh /\ review' = review /\ ScreenOK
  BY DEF Navigate, PollInv
<1>2. ops' \in Ops /\ ops'.open = 0 /\ (p # "ops" => ~ AnyRunning(ops'.list))
  <2>1. ASSUME NEW l \in Rows
        PROVE  [NoOps EXCEPT !.list = l] \in Ops /\ [NoOps EXCEPT !.list = l].open = 0
               /\ [NoOps EXCEPT !.list = l].list = l
    BY FreshFields DEF Ops, NoOps
  <2>2. ~ AnyRunning(Empty)
    BY DEF AnyRunning, Empty
  <2> QED
    BY <2>1, <2>2, FreshFields, ListingTyped DEF Navigate
<1>3. PICK left \in SUBSET Waiting : calls' = left \cup Opened(p, ops'.list)
  BY DEF Navigate
<1>4. \A c \in calls' :
        \/ c \in Call /\ c.by = "start" /\ c.answer = "" /\ c.gone
        \/ IsNew(c, "resume", 0) /\ p = "evals" /\ c = NewCall("resume", "eval", 0)
        \/ IsNew(c, "list", 0) /\ p = "ops"
        \/ IsNew(c, "review", 0) /\ p = "review" /\ review # "none"
  BY <1>1, <1>3, WaitingFields, PollsAreNew DEF Opened
<1>5. ScreenOK'
  BY <1>1, <1>2, <1>4, FreshFields DEF ScreenOK, IsNew
<1>6. AnswersFit'
  BY <1>1, <1>4 DEF AnswersFit, IsNew
<1>7. AtHome'
  BY <1>1, <1>4 DEF AtHome, IsNew
<1>8. ResumeFirst'
  BY <1>1, <1>4, FreshFields DEF ResumeFirst, IsNew
<1>9. KeepsAsking'
  <2>1. page' = "ops" /\ AnyRunning(ops'.list) => PollList \in calls'
    BY <1>1, <1>3 DEF Opened
  <2>2. PollList.by = "list" /\ PollList.job = 0
    BY PollsAreNew DEF IsNew
  <2> QED
    BY <1>1, <1>2, <2>1, <2>2, FreshFields DEF KeepsAsking, ConsoleKeepsAsking, FreezesAreKnown, Asking, By
<1> QED
  BY <1>5, <1>6, <1>7, <1>8, <1>9 DEF PollInv

\* The buttons of the panels are closed while a job on the screen looks live.
LEMMA StartKeeps == PollInv /\ Start => PollInv'
<1> SUFFICES ASSUME PollInv, Start
             PROVE  PollInv'
  OBVIOUS
<1> DEFINE kind == IF page = "corpus" THEN "corpus" ELSE "eval"
           e == NewCall("start", kind, 0)
           x == [panel EXCEPT !.error = FALSE, !.starting = (page = "corpus")]
<1>1. UNCHANGED <<review, page, ops>> /\ page \in {"corpus", "evals"} /\ panel.shown # "live"
  BY DEF Start
<1>2. panel' = x /\ x \in Panel /\ x.shown = panel.shown
  <2>1. (page = "corpus") \in BOOLEAN /\ panel \in Panel
    BY DEF PollInv, ScreenOK
  <2> DEFINE b == (page = "corpus")
  <2>2. panel' = [panel EXCEPT !.error = FALSE, !.starting = b]
    BY DEF Start
  <2> HIDE DEF b
  <2> QED
    BY <2>1, <2>2 DEF Panel, Start
<1>3. PICK n \in 0..MaxCalls : calls' = calls \cup {[e EXCEPT !.nr = n]}
  BY DEF Start
<1>4. IsNew(e, "start", 0)
  BY PollsAreNew DEF Kinds
<1> HIDE DEF e, x
<1> DEFINE d == [e EXCEPT !.nr = n]
<1>10. IsNew(d, "start", 0)
  BY <1>4 DEF IsNew, Call
<1>11. calls' = calls \cup {d}
  BY <1>3
<1> HIDE DEF d
<1>5. ScreenOK'
  BY <1>1, <1>2, <1>11, <1>10 DEF PollInv, ScreenOK, IsNew
<1>6. AnswersFit'
  BY <1>1, <1>11, <1>10 DEF PollInv, AnswersFit, IsNew
<1>7. AtHome'
  BY <1>1, <1>11, <1>10 DEF PollInv, AtHome, IsNew
<1>8. ResumeFirst'
  BY <1>2, <1>11, <1>10 DEF PollInv, ResumeFirst, IsNew
<1>9. KeepsAsking'
  BY <1>1, <1>2, <1>11 DEF PollInv, KeepsAsking, ConsoleKeepsAsking, FreezesAreKnown, Asking, By
<1> QED
  BY <1>5, <1>6, <1>7, <1>8, <1>9 DEF PollInv

\* A dialog opens with its poll.
LEMMA OpenDetailKeeps ==
    ASSUME PollInv, NEW j \in Ids, OpenDetail(j)
    PROVE  PollInv'
<1> DEFINE d == PollDetail(j)
           x == [ops EXCEPT !.open = j, !.detail = "loading"]
<1>1. UNCHANGED <<review, page, panel>> /\ page = "ops" /\ ops.open = 0 /\ j # 0
  BY DEF OpenDetail, Ids
<1>2. ops' = x /\ x \in Ops /\ x.list = ops.list /\ x.open = j
  BY DEF OpenDetail, PollInv, ScreenOK, Ops
<1>3. calls' = calls \cup {d}
  BY DEF OpenDetail
<1>4. IsNew(d, "detail", j)
  BY PollsAreNew
<1> HIDE DEF d, x
<1>5. ScreenOK'
  BY <1>1, <1>2, <1>3, <1>4 DEF PollInv, ScreenOK, IsNew
<1>6. AnswersFit'
  BY <1>1, <1>3, <1>4 DEF PollInv, AnswersFit, IsNew
<1>7. AtHome'
  BY <1>1, <1>2, <1>3, <1>4 DEF PollInv, AtHome, IsNew
<1>8. ResumeFirst'
  BY <1>1, <1>3, <1>4 DEF PollInv, ResumeFirst, AtHome, IsNew
<1>9. KeepsAsking'
  BY <1>1, <1>2, <1>3, <1>4 DEF PollInv, KeepsAsking, ConsoleKeepsAsking, FreezesAreKnown, Asking, By, AnyRunning, IsNew
<1> QED
  BY <1>5, <1>6, <1>7, <1>8, <1>9 DEF PollInv

\* A dialog that closes takes its poll with it.
LEMMA CloseDetailKeeps == PollInv /\ CloseDetail => PollInv'
<1> SUFFICES ASSUME PollInv, CloseDetail
             PROVE  PollInv'
  OBVIOUS
<1> DEFINE x == [ops EXCEPT !.open = 0, !.detail = "loading"]
<1>1. UNCHANGED <<review, page, panel>>
  BY DEF CloseDetail
<1>2. ops' = x /\ x \in Ops /\ x.list = ops.list /\ x.open = 0
  BY DEF CloseDetail, PollInv, ScreenOK, Ops
<1>3. calls' = {c \in calls : c.by # "detail"}
  BY DEF CloseDetail
<1> HIDE DEF x
<1>5. ScreenOK'
  BY <1>1, <1>2, <1>3 DEF PollInv, ScreenOK
<1>6. AnswersFit'
  BY <1>1, <1>3 DEF PollInv, AnswersFit
<1>7. AtHome'
  BY <1>1, <1>2, <1>3 DEF PollInv, AtHome
<1>8. ResumeFirst'
  BY <1>1, <1>3 DEF PollInv, ResumeFirst
<1>9. KeepsAsking'
  BY <1>1, <1>2, <1>3 DEF PollInv, KeepsAsking, ConsoleKeepsAsking, FreezesAreKnown, Asking, By, AnyRunning
<1> QED
  BY <1>5, <1>6, <1>7, <1>8, <1>9 DEF PollInv

\* The reply to the form brings the first poll.
LEMMA SubmitReviewKeeps == PollInv /\ SubmitReview => PollInv'
<1> SUFFICES ASSUME PollInv, SubmitReview
             PROVE  PollInv'
  OBVIOUS
<1>1. UNCHANGED <<page, panel, ops>> /\ review' = "live" /\ page = "review"
  BY DEF SubmitReview
<1>3. calls' = calls \cup {PollReview}
  BY DEF SubmitReview
<1>4. IsNew(PollReview, "review", 0)
  BY PollsAreNew
<1>5. ScreenOK'
  BY <1>1, <1>3, <1>4 DEF PollInv, ScreenOK, IsNew
<1>6. AnswersFit'
  BY <1>1, <1>3, <1>4 DEF PollInv, AnswersFit, IsNew
<1>7. AtHome'
  BY <1>1, <1>3, <1>4 DEF PollInv, AtHome, IsNew
<1>8. ResumeFirst'
  BY <1>1, <1>3, <1>4 DEF PollInv, ResumeFirst, AtHome, IsNew
<1>9. KeepsAsking'
  BY <1>1, <1>3 DEF PollInv, KeepsAsking, ConsoleKeepsAsking, FreezesAreKnown, Asking, By
<1> QED
  BY <1>5, <1>6, <1>7, <1>8, <1>9 DEF PollInv

\* The end of the polling budget is remembered.
LEMMA HourOverKeeps == PollInv /\ HourOver => PollInv'
<1> SUFFICES ASSUME PollInv, HourOver
             PROVE  PollInv'
  OBVIOUS
<1> DEFINE x == [panel EXCEPT !.hour = TRUE]
<1>1. UNCHANGED <<review, page, ops, calls>>
  BY DEF HourOver
<1>2. panel' = x /\ x \in Panel /\ x.shown = panel.shown /\ x.job = panel.job
      /\ x.error = panel.error /\ x.threw = panel.threw /\ x.hour
  BY DEF HourOver, PollInv, ScreenOK, Panel
<1> HIDE DEF x
<1>5. ScreenOK'
  BY <1>1, <1>2 DEF PollInv, ScreenOK
<1>6. AnswersFit' /\ AtHome'
  BY <1>1 DEF PollInv, AnswersFit, AtHome
<1>8. ResumeFirst'
  BY <1>1, <1>2 DEF PollInv, ResumeFirst
<1>9. KeepsAsking'
  BY <1>1, <1>2 DEF PollInv, KeepsAsking, ConsoleKeepsAsking, FreezesAreKnown, Asking, By
<1> QED
  BY <1>5, <1>6, <1>8, <1>9 DEF PollInv

-----------------------------------------------------------------------------
(* The answers *)

\* An answer replaces the call it answers, and goes to where it came from.
IsAnswer(c, a) ==
    /\ a \in Call /\ a.by = c.by /\ (a.gone <=> c.gone) /\ a.answer # ""
    /\ c.by \in {"job", "list", "detail", "review"} => a.job = c.job
    /\ c.by \in {"detail", "review"} => a.answer # "ok"
    /\ calls' = (calls \ {c}) \cup {a}

\* An answer that says nothing of the job keeps the job that was asked about.
LEMMA PlainAnswer ==
    ASSUME ScreenOK, NEW c \in calls,
           NEW s \in {"ok", "live", "over", "error", "thrown"},
           c.by \in {"detail", "review"} => s # "ok", Answer(c, [c EXCEPT !.answer = s])
    PROVE  IsAnswer(c, [c EXCEPT !.answer = s])
<1>1. c \in Call
  BY DEF ScreenOK
<1> DEFINE a == [c EXCEPT !.answer = s]
<1>2. a \in Call /\ a.by = c.by /\ (a.gone <=> c.gone) /\ a.answer = s /\ a.job = c.job
  BY <1>1 DEF Call
<1>3. calls' = (calls \ {c}) \cup {a}
  BY DEF Answer
<1> HIDE DEF a
<1>4. IsAnswer(c, a)
  BY <1>2, <1>3 DEF IsAnswer
<1> QED
  BY <1>4 DEF a

\* The api's answer to a call, or its failure.
LEMMA ServeAnswers ==
    ASSUME ScreenOK, AnswersFit, NEW c \in calls, Serve(c) \/ ServeFails(c)
    PROVE  /\ Turn(c) /\ UNCHANGED <<review, page, panel, ops>>
           /\ \E a \in Call : IsAnswer(c, a)
<1>1. c \in Call
  BY DEF ScreenOK
<1>2. Turn(c) /\ UNCHANGED <<review, page, panel, ops>>
  BY DEF Serve, ServeFails
<1> SUFFICES \E a \in Call : IsAnswer(c, a)
  BY <1>2
<1>3. CASE ServeFails(c)
  BY <1>3, PlainAnswer DEF ServeFails, IsAnswer
<1>4. CASE Serve(c)
  <2>1. CASE c.by \in {"job", "detail"}
    <3>1. GetJob(c)
      BY <1>4, <2>1 DEF Serve
    <3>2. \E s \in {"live", "over", "error"} : Answer(c, [c EXCEPT !.answer = s])
      BY <3>1 DEF GetJob
    <3> QED
      BY <3>2, PlainAnswer DEF IsAnswer
  <2>2. CASE c.by = "list"
    <3> DEFINE l == Listing
               a == [c EXCEPT !.answer = "ok", !.rows = l]
    <3>1. calls' = (calls \ {c}) \cup {a}
      BY <1>4, <2>2 DEF Serve, GetOpsStatus, Answer
    <3>2. l \in Rows
      BY ListingTyped
    <3> HIDE DEF l
    <3>3. a \in Call /\ a.by = c.by /\ (a.gone <=> c.gone) /\ a.answer = "ok" /\ a.job = c.job
      BY <1>1, <3>2 DEF Call
    <3> HIDE DEF a
    <3> QED
      BY <2>2, <3>1, <3>3 DEF IsAnswer
  <2>3. CASE c.by = "resume"
    <3>1. FindRunningEval(c)
      BY <1>4, <2>3 DEF Serve
    <3>2. CASE \E j \in Recent : Answer(c, [c EXCEPT !.answer = "live", !.job = j])
      <4>1. PICK j \in Ids : Answer(c, [c EXCEPT !.answer = "live", !.job = j])
        BY <3>2 DEF Recent, Remembered
      <4> DEFINE a == [c EXCEPT !.answer = "live", !.job = j]
      <4>2. a \in Call /\ a.by = c.by /\ (a.gone <=> c.gone) /\ a.answer = "live"
        BY <1>1 DEF Call
      <4>3. calls' = (calls \ {c}) \cup {a}
        BY <4>1 DEF Answer
      <4> HIDE DEF a
      <4> QED
        BY <2>3, <4>2, <4>3 DEF IsAnswer
    <3>3. CASE Answer(c, [c EXCEPT !.answer = "over"])
      BY <3>3, PlainAnswer DEF IsAnswer
    <3> QED
      BY <3>1, <3>2, <3>3 DEF FindRunningEval
  <2>4. CASE c.by = "start"
    <3>1. RunJob(c)
      BY <1>4, <2>4 DEF Serve
    <3>2. CASE \E j \in Ids : Answer(c, [c EXCEPT !.answer = "ok", !.job = j])
      <4>1. PICK j \in Ids : Answer(c, [c EXCEPT !.answer = "ok", !.job = j])
        BY <3>2
      <4> DEFINE a == [c EXCEPT !.answer = "ok", !.job = j]
      <4>2. a \in Call /\ a.by = c.by /\ (a.gone <=> c.gone) /\ a.answer = "ok"
        BY <1>1 DEF Call
      <4>3. calls' = (calls \ {c}) \cup {a}
        BY <4>1 DEF Answer
      <4> HIDE DEF a
      <4> QED
        BY <2>4, <4>2, <4>3 DEF IsAnswer
    <3>3. CASE Answer(c, [c EXCEPT !.answer = "error"])
      BY <3>3, PlainAnswer DEF IsAnswer
    <3> QED
      BY <3>1, <3>2, <3>3 DEF RunJob
  <2>5. CASE c.by = "review"
    <3>1. Answer(c, [c EXCEPT !.answer = review])
      BY <1>4, <2>5 DEF Serve, GetJdResult
    <3>2. review \in {"live", "over"}
      BY <2>5 DEF ScreenOK, AnswersFit
    <3> QED
      BY <3>1, <3>2, PlainAnswer DEF IsAnswer
  <2> QED
    BY <1>1, <2>1, <2>2, <2>3, <2>4, <2>5 DEF Call
<1> QED
  BY <1>2, <1>3, <1>4

\* An answer on its way is as good as the question.
LEMMA ServeKeeps ==
    ASSUME PollInv, NEW c \in calls, Serve(c) \/ ServeFails(c)
    PROVE  PollInv'
<1>1. UNCHANGED <<review, page, panel, ops>> /\ Turn(c)
  BY ServeAnswers DEF PollInv
<1>2. PICK a \in Call : IsAnswer(c, a)
  BY ServeAnswers DEF PollInv
<1>5. ScreenOK'
  BY <1>1, <1>2 DEF PollInv, ScreenOK, IsAnswer
<1>6. AnswersFit'
  BY <1>1, <1>2 DEF PollInv, AnswersFit, IsAnswer
<1>7. AtHome'
  BY <1>1, <1>2 DEF PollInv, AtHome, IsAnswer
<1>8. ResumeFirst'
  <2> SUFFICES ASSUME NEW r \in calls', r.by = "resume"
               PROVE  /\ panel'.shown # "live"
                      /\ \A d \in calls' : /\ d.by # "job"
                                           /\ d.by = "resume" => d = r
                                           /\ d.by = "start" /\ ~ d.gone => d.answer = ""
    BY DEF ResumeFirst
  <2>1. PICK q \in calls : q.by = "resume" /\ (IF r = a THEN q = c ELSE q = r)
    BY <1>2 DEF IsAnswer
  <2>2. /\ panel.shown # "live"
        /\ \A d \in calls : /\ d.by # "job"
                            /\ d.by = "resume" => d = q
                            /\ d.by = "start" /\ ~ d.gone => d.answer = ""
    BY <2>1 DEF PollInv, ResumeFirst
  <2>3. c.by = "start" => c.gone
    BY <1>1, <2>1 DEF Turn
  <2>4. \A d \in calls' : (d \in calls /\ d # c) \/ d = a
    BY <1>2 DEF IsAnswer
  <2>5. a.by = c.by /\ (a.gone <=> c.gone)
    BY <1>2 DEF IsAnswer
  <2> QED
    BY <1>1, <2>1, <2>2, <2>3, <2>4, <2>5
<1>9. KeepsAsking'
  <2>1. ASSUME NEW b \in {"job", "list", "detail", "review"}, NEW j, Asking(b, j)
        PROVE  Asking(b, j)'
    BY <1>2, <2>1 DEF Asking, By, IsAnswer
  <2> QED
    BY <1>1, <2>1 DEF PollInv, KeepsAsking, ConsoleKeepsAsking, FreezesAreKnown, AnyRunning
<1> QED
  BY <1>5, <1>6, <1>7, <1>8, <1>9 DEF PollInv

-----------------------------------------------------------------------------
(* The replies *)

\* The start of a job is followed by its first poll, and by nothing when the page is
\* gone; a start that threw is remembered.
LEMMA StartReplyKeeps ==
    ASSUME PollInv, NEW c \in calls, c.by = "start", c.answer # "", StartReply(c),
           UNCHANGED <<review, page>>
    PROVE  PollInv'
<1>1. c \in Call /\ UNCHANGED ops /\ (~ c.gone => page \in {"corpus", "evals"})
      /\ panel \in Panel
  BY DEF StartReply, PollInv, ScreenOK, AtHome
<1>2. CASE c.gone
  <2>1. panel' = panel /\ calls' = calls \ {c}
    BY <1>2 DEF StartReply, Without
  <2>5. ScreenOK' /\ AnswersFit' /\ AtHome'
    BY <1>1, <2>1 DEF PollInv, ScreenOK, AnswersFit, AtHome
  <2>8. ResumeFirst'
    BY <2>1 DEF PollInv, ResumeFirst
  <2>9. KeepsAsking'
    BY <1>1, <2>1 DEF PollInv, KeepsAsking, ConsoleKeepsAsking, FreezesAreKnown, Asking, By, AnyRunning
  <2> QED
    BY <2>5, <2>8, <2>9 DEF PollInv
<1>3. CASE ~ c.gone /\ c.answer = "ok"
  <2> DEFINE x == [panel EXCEPT !.job = c.job, !.shown = "live", !.starting = FALSE]
             d == PollJob(c.kind, c.job)
  <2>1. panel' = x /\ calls' = (calls \ {c}) \cup {d}
    BY <1>3 DEF StartReply, Then
  <2>2. x \in Panel /\ x.job = c.job /\ x.shown = "live"
    BY <1>1 DEF Panel, Call
  <2>3. IsNew(d, "job", c.job)
    BY <1>1, PollsAreNew DEF Call
  <2> HIDE DEF x, d
  <2>4. \A r \in calls : r.by # "resume"
    BY <1>3 DEF PollInv, ResumeFirst
  <2>5. ScreenOK'
    BY <1>1, <2>1, <2>2, <2>3 DEF PollInv, ScreenOK, IsNew
  <2>6. AnswersFit'
    BY <2>1, <2>3 DEF PollInv, AnswersFit, IsNew
  <2>7. AtHome'
    BY <1>1, <1>3, <2>1, <2>3 DEF PollInv, AtHome, IsNew
  <2>8. ResumeFirst'
    BY <2>1, <2>3, <2>4 DEF ResumeFirst, IsNew
  <2>9. KeepsAsking'
    BY <1>1, <1>3, <2>1, <2>2, <2>3 DEF PollInv, KeepsAsking, ConsoleKeepsAsking, FreezesAreKnown, Asking, By, AnyRunning, IsNew
  <2> QED
    BY <2>5, <2>6, <2>7, <2>8, <2>9 DEF PollInv
<1>4. CASE ~ c.gone /\ c.answer # "ok"
  <2>1. calls' = calls \ {c}
    BY <1>4 DEF StartReply, Without
  <2>2. /\ panel' \in Panel /\ panel'.shown = panel.shown /\ panel'.job = panel.job
        /\ (panel.error => panel'.error) /\ (panel'.threw <=> panel.threw)
    <3>1. \/ panel' = [panel EXCEPT !.error = TRUE, !.starting = FALSE]
          \/ panel' = [panel EXCEPT !.unseen = TRUE]
      BY <1>4 DEF StartReply
    <3> QED
      BY <1>1, <3>1 DEF Panel
  <2>5. ScreenOK' /\ AnswersFit' /\ AtHome'
    BY <1>1, <2>1, <2>2 DEF PollInv, ScreenOK, AnswersFit, AtHome
  <2>8. ResumeFirst'
    BY <2>1, <2>2 DEF PollInv, ResumeFirst
  <2>9. KeepsAsking'
    BY <1>1, <1>4, <2>1, <2>2 DEF PollInv, KeepsAsking, ConsoleKeepsAsking, FreezesAreKnown, Asking, By, AnyRunning
  <2> QED
    BY <2>5, <2>8, <2>9 DEF PollInv
<1> QED
  BY <1>2, <1>3, <1>4

\* A running evaluation that was found is polled; the page showed none before.
LEMMA ResumeReplyKeeps ==
    ASSUME PollInv, NEW c \in calls, c.by = "resume", c.answer # "", ResumeReply(c),
           UNCHANGED <<review, page>>
    PROVE  PollInv'
<1>1. c \in Call /\ UNCHANGED ops /\ page = "evals" /\ panel \in Panel /\ panel.shown # "live"
  BY DEF ResumeReply, PollInv, ScreenOK, AtHome, ResumeFirst
<1>2. \A r \in calls \ {c} : r.by # "resume"
  BY DEF PollInv, ResumeFirst
<1>3. CASE c.answer = "live"
  <2> DEFINE x == [panel EXCEPT !.job = c.job, !.shown = "live"]
             d == PollJob("eval", c.job)
  <2>1. panel' = x /\ calls' = (calls \ {c}) \cup {d}
    BY <1>3 DEF ResumeReply, Then
  <2>2. x \in Panel /\ x.job = c.job /\ x.shown = "live"
    BY <1>1 DEF Panel, Call
  <2>3. IsNew(d, "job", c.job)
    BY <1>1, PollsAreNew DEF Call, Kinds
  <2> HIDE DEF x, d
  <2>5. ScreenOK'
    BY <1>1, <2>1, <2>2, <2>3 DEF PollInv, ScreenOK, IsNew
  <2>6. AnswersFit'
    BY <2>1, <2>3 DEF PollInv, AnswersFit, IsNew
  <2>7. AtHome'
    BY <1>1, <2>1, <2>3 DEF PollInv, AtHome, IsNew
  <2>8. ResumeFirst'
    BY <1>2, <2>1, <2>3 DEF ResumeFirst, IsNew
  <2>9. KeepsAsking'
    BY <1>1, <2>1, <2>2, <2>3 DEF PollInv, KeepsAsking, ConsoleKeepsAsking, FreezesAreKnown, Asking, By, AnyRunning, IsNew
  <2> QED
    BY <2>5, <2>6, <2>7, <2>8, <2>9 DEF PollInv
<1>4. CASE c.answer # "live"
  <2> DEFINE u == panel.unseen \/ c.answer # "over"
             x == [panel EXCEPT !.unseen = u]
  <2>1. panel' = x /\ calls' = calls \ {c}
    BY <1>4 DEF ResumeReply, Without
  <2>2. u \in BOOLEAN
    BY <1>1 DEF Panel
  <2> HIDE DEF u
  <2>3. x \in Panel /\ x.shown = panel.shown
    BY <1>1, <2>2 DEF Panel
  <2> HIDE DEF x
  <2>5. ScreenOK' /\ AnswersFit' /\ AtHome'
    BY <1>1, <2>1, <2>3 DEF PollInv, ScreenOK, AnswersFit, AtHome
  <2>8. ResumeFirst'
    BY <2>1, <2>3 DEF PollInv, ResumeFirst
  <2>9. KeepsAsking'
    BY <1>1, <2>1, <2>3 DEF PollInv, KeepsAsking, ConsoleKeepsAsking, FreezesAreKnown, Asking, By, AnyRunning
  <2> QED
    BY <2>5, <2>8, <2>9 DEF PollInv
<1> QED
  BY <1>3, <1>4

\* A poll that finds the job running is followed by another, and one that fails is
\* said or remembered.
LEMMA JobReplyKeeps ==
    ASSUME PollInv, NEW c \in calls, c.by = "job", c.answer # "", JobReply(c),
           UNCHANGED <<review, page>>
    PROVE  PollInv'
<1>1. c \in Call /\ UNCHANGED ops /\ page \in {"corpus", "evals"} /\ panel \in Panel
  BY DEF JobReply, PollInv, ScreenOK, AtHome
<1>2. \A r \in calls : r.by # "resume"
  BY DEF PollInv, ResumeFirst
<1>3. /\ panel' \in Panel
      /\ \/ panel'.shown = c.answer /\ panel'.job = c.job
         \/ c.answer # "live" /\ (panel'.error \/ panel'.threw)
  <2>1. \/ c.answer \in {"live", "over"} /\ panel' = [panel EXCEPT !.job = c.job, !.shown = c.answer]
        \/ c.answer = "error" /\ panel' = [panel EXCEPT !.error = TRUE]
        \/ c.answer # "live" /\ panel' = [panel EXCEPT !.threw = TRUE]
    BY DEF JobReply
  <2> QED
    BY <1>1, <2>1 DEF Panel, Call
<1>4. CASE c.answer = "live"
  <2> DEFINE d == PollJob(c.kind, c.job)
  <2>1. calls' = (calls \ {c}) \cup {d}
    BY <1>4 DEF JobReply, Then
  <2>3. IsNew(d, "job", c.job)
    BY <1>1, PollsAreNew DEF Call
  <2> HIDE DEF d
  <2>5. ScreenOK'
    BY <1>1, <1>3, <2>1, <2>3 DEF PollInv, ScreenOK, IsNew
  <2>6. AnswersFit'
    BY <2>1, <2>3 DEF PollInv, AnswersFit, IsNew
  <2>7. AtHome'
    BY <1>1, <2>1, <2>3 DEF PollInv, AtHome, IsNew
  <2>8. ResumeFirst'
    BY <1>2, <2>1, <2>3 DEF ResumeFirst, IsNew
  <2>9. KeepsAsking'
    BY <1>1, <1>3, <1>4, <2>1, <2>3 DEF PollInv, KeepsAsking, ConsoleKeepsAsking, FreezesAreKnown, Asking, By, AnyRunning, IsNew
  <2> QED
    BY <2>5, <2>6, <2>7, <2>8, <2>9 DEF PollInv
<1>5. CASE c.answer # "live"
  <2>1. calls' = calls \ {c}
    BY <1>5 DEF JobReply, Without
  <2>5. ScreenOK' /\ AnswersFit' /\ AtHome'
    BY <1>1, <1>3, <2>1 DEF PollInv, ScreenOK, AnswersFit, AtHome
  <2>8. ResumeFirst'
    BY <1>2, <2>1 DEF ResumeFirst
  <2>9. KeepsAsking'
    BY <1>1, <1>3, <1>5, <2>1 DEF PollInv, KeepsAsking, ConsoleKeepsAsking, FreezesAreKnown, Asking, By, AnyRunning
  <2> QED
    BY <2>5, <2>8, <2>9 DEF PollInv
<1> QED
  BY <1>4, <1>5

\* The list ticks for as long as one of its rows runs, whatever the poll came to, and
\* takes the dialog with it only when its row has gone.
LEMMA ListReplyKeeps ==
    ASSUME PollInv, NEW c \in calls, c.by = "list", c.answer # "", ListReply(c),
           UNCHANGED <<review, page>>
    PROVE  PollInv'
<1>1. c \in Call /\ UNCHANGED panel /\ page = "ops" /\ ops \in Ops
  BY DEF ListReply, PollInv, ScreenOK, AtHome
<1>2. /\ ops' \in Ops
      /\ ops'.open = 0 \/ (ops'.open = ops.open /\ ops'.detail = ops.detail)
  <2>1. ASSUME NEW l \in Rows
        PROVE  /\ [NoOps EXCEPT !.list = l] \in Ops /\ [NoOps EXCEPT !.list = l].open = 0
               /\ [ops EXCEPT !.list = l] \in Ops
               /\ [ops EXCEPT !.list = l].open = ops.open
               /\ [ops EXCEPT !.list = l].detail = ops.detail
    BY <1>1, FreshFields DEF Ops, NoOps
  <2>2. c.rows \in Rows
    BY <1>1 DEF Call
  <2> QED
    BY <1>1, <2>1, <2>2 DEF ListReply, Listed
<1>3. /\ \A d \in calls' : \/ d \in calls /\ d # c /\ (d.by = "detail" => ops'.open # 0)
                           \/ IsNew(d, "list", 0)
      /\ \A d \in calls \ {c} : (d.by = "detail" => ops'.open # 0) => d \in calls'
      /\ AnyRunning(ops'.list) => PollList \in calls'
  BY PollsAreNew DEF ListReply, Tick
<1>4. PollList.by = "list" /\ PollList.job = 0
  BY PollsAreNew DEF IsNew
<1>5. ScreenOK'
  BY <1>1, <1>2, <1>3 DEF PollInv, ScreenOK, IsNew
<1>6. AnswersFit'
  BY <1>3 DEF PollInv, AnswersFit, IsNew
<1>7. AtHome'
  BY <1>1, <1>2, <1>3 DEF PollInv, AtHome, IsNew
<1>8. ResumeFirst'
  BY <1>1, <1>3 DEF PollInv, ResumeFirst, AtHome, IsNew
<1>9. KeepsAsking'
  BY <1>1, <1>2, <1>3, <1>4 DEF PollInv, KeepsAsking, ConsoleKeepsAsking, FreezesAreKnown, Asking, By
<1> QED
  BY <1>5, <1>6, <1>7, <1>8, <1>9 DEF PollInv

\* The dialog shows what it was told, and asks again unless that was an end or an
\* error.
LEMMA DetailReplyKeeps ==
    ASSUME PollInv, NEW c \in calls, c.by = "detail", c.answer # "", DetailReply(c),
           UNCHANGED <<review, page>>
    PROVE  PollInv'
<1>1. /\ c \in Call /\ UNCHANGED panel /\ page = "ops" /\ ops \in Ops
      /\ c.job = ops.open /\ c.answer # "ok"
  BY DEF DetailReply, PollInv, ScreenOK, AtHome, AnswersFit
<1>2. /\ ops' \in Ops /\ ops'.list = ops.list /\ ops'.open = ops.open
      /\ c.answer # "thrown" => ops'.detail = c.answer
  BY <1>1 DEF DetailReply, Ops, Call
<1>3. CASE c.answer \in {"live", "thrown"}
  <2> DEFINE d == PollDetail(c.job)
  <2>1. calls' = (calls \ {c}) \cup {d}
    BY <1>3 DEF DetailReply, Then
  <2>3. IsNew(d, "detail", c.job)
    BY <1>1, PollsAreNew DEF Call
  <2> HIDE DEF d
  <2>5. ScreenOK'
    BY <1>1, <1>2, <2>1, <2>3 DEF PollInv, ScreenOK, IsNew
  <2>6. AnswersFit'
    BY <2>1, <2>3 DEF PollInv, AnswersFit, IsNew
  <2>7. AtHome'
    BY <1>1, <1>2, <2>1, <2>3 DEF PollInv, AtHome, IsNew
  <2>8. ResumeFirst'
    BY <1>1, <2>1, <2>3 DEF PollInv, ResumeFirst, AtHome, IsNew
  <2>9. KeepsAsking'
    BY <1>1, <1>2, <2>1, <2>3 DEF PollInv, KeepsAsking, ConsoleKeepsAsking, FreezesAreKnown, Asking, By, AnyRunning, IsNew
  <2> QED
    BY <2>5, <2>6, <2>7, <2>8, <2>9 DEF PollInv
<1>4. CASE c.answer \notin {"live", "thrown"}
  <2>1. calls' = calls \ {c}
    BY <1>4 DEF DetailReply, Without
  <2>2. ops'.detail \notin {"loading", "live"}
    BY <1>1, <1>2, <1>4 DEF Call
  <2>5. ScreenOK' /\ AnswersFit' /\ AtHome'
    BY <1>1, <1>2, <2>1 DEF PollInv, ScreenOK, AnswersFit, AtHome
  <2>8. ResumeFirst'
    BY <1>1, <2>1 DEF PollInv, ResumeFirst
  <2>9. KeepsAsking'
    BY <1>1, <1>2, <2>1, <2>2 DEF PollInv, KeepsAsking, ConsoleKeepsAsking, FreezesAreKnown, Asking, By, AnyRunning
  <2> QED
    BY <2>5, <2>8, <2>9 DEF PollInv
<1> QED
  BY <1>3, <1>4

\* A review that still runs is asked about again, until the budget is spent.
LEMMA ReviewReplyKeeps ==
    ASSUME PollInv, NEW c \in calls, c.by = "review", c.answer # "", ReviewReply(c),
           UNCHANGED <<review, page>>
    PROVE  PollInv'
<1>1. /\ c \in Call /\ UNCHANGED ops /\ page = "review" /\ panel \in Panel
      /\ c.answer # "ok" /\ review # "none"
  BY DEF ReviewReply, PollInv, ScreenOK, AtHome, AnswersFit
<1>2. \A r \in calls : r.by # "resume"
  BY <1>1 DEF PollInv, AtHome
<1>3. /\ panel' \in Panel /\ (panel'.hour <=> panel.hour)
      /\ panel'.shown = c.answer \/ (c.answer # "live" /\ panel'.error)
  <2>1. \/ c.answer \in {"live", "over"} /\ panel' = [panel EXCEPT !.shown = c.answer]
        \/ c.answer \notin {"live", "over"} /\ panel' = [panel EXCEPT !.error = TRUE]
    BY DEF ReviewReply
  <2> QED
    BY <1>1, <2>1 DEF Panel
<1>4. CASE c.answer = "live" /\ ~ panel.hour
  <2>1. calls' = (calls \ {c}) \cup {PollReview}
    BY <1>4 DEF ReviewReply, Then
  <2>3. IsNew(PollReview, "review", 0)
    BY PollsAreNew
  <2>5. ScreenOK'
    BY <1>1, <1>3, <2>1, <2>3 DEF PollInv, ScreenOK, IsNew
  <2>6. AnswersFit'
    BY <1>1, <2>1, <2>3 DEF PollInv, AnswersFit, IsNew
  <2>7. AtHome'
    BY <1>1, <2>1, <2>3 DEF PollInv, AtHome, IsNew
  <2>8. ResumeFirst'
    BY <1>2, <2>1, <2>3 DEF ResumeFirst, IsNew
  <2>9. KeepsAsking'
    BY <1>1, <1>3, <2>1, <2>3 DEF PollInv, KeepsAsking, ConsoleKeepsAsking, FreezesAreKnown, Asking, By, AnyRunning, IsNew
  <2> QED
    BY <2>5, <2>6, <2>7, <2>8, <2>9 DEF PollInv
<1>5. CASE ~ (c.answer = "live" /\ ~ panel.hour)
  <2>1. calls' = calls \ {c}
    BY <1>5 DEF ReviewReply, Without
  <2>5. ScreenOK' /\ AnswersFit' /\ AtHome'
    BY <1>1, <1>3, <2>1 DEF PollInv, ScreenOK, AnswersFit, AtHome
  <2>8. ResumeFirst'
    BY <1>2, <2>1 DEF ResumeFirst
  <2>9. KeepsAsking'
    BY <1>1, <1>3, <1>5, <2>1 DEF PollInv, KeepsAsking, ConsoleKeepsAsking, FreezesAreKnown, Asking, By, AnyRunning
  <2> QED
    BY <2>5, <2>8, <2>9 DEF PollInv
<1> QED
  BY <1>4, <1>5

\* Every reply keeps the screens going.
LEMMA ReplyKeeps ==
    ASSUME PollInv, NEW c \in calls, Reply(c)
    PROVE  PollInv'
<1>1. c.answer # "" /\ UNCHANGED <<review, page>>
  BY DEF Reply
<1>2. CASE c.by = "start" /\ StartReply(c)
  BY <1>1, <1>2, StartReplyKeeps
<1>3. CASE c.by = "resume" /\ ResumeReply(c)
  BY <1>1, <1>3, ResumeReplyKeeps
<1>4. CASE c.by = "job" /\ JobReply(c)
  BY <1>1, <1>4, JobReplyKeeps
<1>5. CASE c.by = "list" /\ ListReply(c)
  BY <1>1, <1>5, ListReplyKeeps
<1>6. CASE c.by = "detail" /\ DetailReply(c)
  BY <1>1, <1>6, DetailReplyKeeps
<1>7. CASE c.by = "review" /\ ReviewReply(c)
  BY <1>1, <1>7, ReviewReplyKeeps
<1> QED
  BY <1>2, <1>3, <1>4, <1>5, <1>6, <1>7 DEF Reply

-----------------------------------------------------------------------------
(* The theorems *)

\* What the jobs and the review's row do by themselves is not seen before a poll.
LEMMA WorkKeeps ==
    ASSUME PollInv, UNCHANGED <<page, panel, ops, calls>>,
           review' = review \/ review' = "over"
    PROVE  PollInv'
<1>1. ScreenOK' /\ AnswersFit'
  BY DEF PollInv, ScreenOK, AnswersFit
<1>2. AtHome' /\ ResumeFirst'
  BY DEF PollInv, AtHome, ResumeFirst
<1>3. KeepsAsking'
  BY DEF PollInv, KeepsAsking, ConsoleKeepsAsking, FreezesAreKnown, Asking, By, AnyRunning
<1> QED
  BY <1>1, <1>2, <1>3 DEF PollInv

\* Every step keeps the screens going.
LEMMA NextKeepsPolls == PollInv /\ [Next]_vars => PollInv'
<1> SUFFICES ASSUME PollInv, [Next]_vars
             PROVE  PollInv'
  OBVIOUS
<1>1. CASE \E p \in Pages : Navigate(p)
  BY <1>1, NavigateKeeps
<1>2. CASE Start \/ CloseDetail \/ SubmitReview \/ HourOver
  BY <1>2, StartKeeps, CloseDetailKeeps, SubmitReviewKeeps, HourOverKeeps
<1>3. CASE \E j \in Ids : OpenDetail(j)
  BY <1>3, OpenDetailKeeps
<1>4. CASE \E j \in Ids : Works(j)
  BY <1>4, WorkKeeps DEF Works
<1>5. CASE \E c \in calls : Serve(c) \/ ServeFails(c)
  BY <1>5, ServeKeeps
<1>6. CASE \E c \in calls : Reply(c)
  BY <1>6, ReplyKeeps
<1>7. CASE ReviewEnds \/ Restart
  BY <1>7, WorkKeeps DEF ReviewEnds, Restart
<1>8. CASE UNCHANGED vars
  BY <1>8, WorkKeeps DEF vars
<1> QED
  BY <1>1, <1>2, <1>3, <1>4, <1>5, <1>6, <1>7, <1>8 DEF Next

\* The list and the dialog of the operations page never freeze: whatever pages were
\* opened, polls failed and jobs were forgotten, the list is going to be read again
\* while a row of it runs, and the dialog is going to ask again until an answer says
\* that the job is over or is an error (job-list.tsx, job-detail.tsx tick).
THEOREM ConsoleAsks == Spec => []ConsoleKeepsAsking
<1>1. PollInv => ConsoleKeepsAsking
  BY DEF PollInv, KeepsAsking
<1> QED
  BY <1>1, PollsBegin, NextKeepsPolls, PTL DEF Spec

\* The other screens do freeze, for three reasons and no others: an error that is
\* shown, a poll that threw, which the two panels do not show, and the hour of a review
\* (job-panel.tsx, eval-runner.tsx poll; result.tsx tick).
THEOREM OnlyKnownFreezes == Spec => []FreezesAreKnown
<1>1. PollInv => FreezesAreKnown
  BY DEF PollInv, KeepsAsking
<1> QED
  BY <1>1, PollsBegin, NextKeepsPolls, PTL DEF Spec

\* The jobs change only by what the runner does to them.
LEMMA NextMovesJobs == ScreenOK /\ [Next]_vars => JobsMove
<1> SUFFICES ASSUME ScreenOK, [Next]_vars
             PROVE  JobsMove
  OBVIOUS
<1>1. \A c \in calls : c.kind \in Kinds
  BY DEF ScreenOK, Call
<1>2. CASE \E c \in calls : Serve(c) \/ ServeFails(c)
  <2>1. PICK c \in calls : Serve(c) \/ ServeFails(c)
    BY <1>2
  <2>2. UNCHANGED jobs \/ \E j \in Ids : StartWithin(c.kind, j)
    <3>1. CASE ServeFails(c)
      BY <3>1 DEF ServeFails
    <3>2. CASE Serve(c)
      <4>1. GetJob(c) \/ GetOpsStatus(c) \/ FindRunningEval(c) \/ RunJob(c) \/ GetJdResult(c)
        <5>1. c \in Call
          BY DEF ScreenOK
        <5> QED
          BY <3>2, <5>1 DEF Serve, Call
      <4> QED
        BY <4>1 DEF GetJob, GetOpsStatus, FindRunningEval, RunJob, GetJdResult
    <3> QED
      BY <2>1, <3>1, <3>2
  <2> QED
    BY <1>1, <2>2 DEF JobsMove
<1>3. CASE \E c \in calls : Reply(c)
  BY <1>3 DEF Reply, JobsMove
<1>4. CASE \E j \in Ids : OpenDetail(j) \/ Works(j)
  BY <1>4 DEF OpenDetail, Works, JobsMove
<1>5. CASE (\E p \in Pages : Navigate(p)) \/ Start \/ CloseDetail \/ SubmitReview \/ HourOver
  BY <1>5 DEF Navigate, Start, CloseDetail, SubmitReview, HourOver, JobsMove
<1>6. CASE ReviewEnds \/ Restart \/ UNCHANGED vars
  BY <1>6 DEF ReviewEnds, Restart, vars, JobsMove
<1> QED
  BY <1>2, <1>3, <1>4, <1>5, <1>6 DEF Next

\* The jobs of the runner and everything on the screens are of their types; only the
\* bound on the calls of the tab is left to the model checker.
THEOREM TypeCorrect == Spec => [](jobs \in [Ids -> Job] /\ ScreenOK)
<1>1. Init => JobsInv
  BY JobsBegin DEF Init
<1>2. JobsInv /\ PollInv /\ [Next]_vars => JobsInv'
  BY NextMovesJobs, MovesKeepJobs DEF PollInv
<1>3. JobsInv /\ PollInv => jobs \in [Ids -> Job] /\ ScreenOK
  BY DEF JobsInv, PollInv
<1> QED
  BY <1>1, <1>2, <1>3, PollsBegin, NextKeepsPolls, PTL DEF Spec

\* A timeline that has lost its beginning says so, while the job runs and after the
\* report of its end, for every length of a timeline (jobs/runner.go run,
\* handlers/admin_ops.go GetJobDetail).
THEOREM TruncationHolds == Spec => []TruncationIsTold
<1>1. Init => JobsInv
  BY JobsBegin DEF Init
<1>2. JobsInv /\ PollInv /\ [Next]_vars => JobsInv'
  BY NextMovesJobs, MovesKeepJobs DEF PollInv
<1>3. JobsInv => TruncationIsTold
  BY DEF JobsInv, CutIsLong, TruncationIsTold, Truncated, Remembered
<1> QED
  BY <1>1, <1>2, <1>3, PollsBegin, NextKeepsPolls, PTL DEF Spec
=============================================================================
