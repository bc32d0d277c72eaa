----------------------------- MODULE JdPipeline -----------------------------
(***************************************************************************)
(* The job-description pipeline of the api: a posting is submitted or      *)
(* re-scored, a goroutine runs it through the one pipeline slot, writes    *)
(* the outcome on the submission's row and mails it.                       *)
(*                                                                         *)
(* Every statement on the row is a step of its own.  Of a row's data the   *)
(* model keeps which run wrote it: two runs of one submission write the    *)
(* same row, and what a reader must never see is half of each.             *)
(***************************************************************************)
EXTENDS Naturals, FiniteSets

CONSTANTS
    Subs,           \* the submissions that may come to exist
    MaxRuns,        \* bound: runs ever started
    Slots,          \* PipelineConcurrency
    Limit,          \* the member's submissions a day (one member, one day)
    Reqs,           \* request goroutines of the api
    MaxFaults,      \* bound: statements that fail
    MaxCrashes      \* bound: times the api stops

ASSUME JdAssumption ==
    /\ Subs # {} /\ MaxRuns \in Nat /\ Slots \in Nat \ {0} /\ Limit \in Nat
    /\ MaxFaults \in Nat /\ MaxCrashes \in Nat

VARIABLES
    row,        \* jd_submissions
    run,        \* the runs: the goroutine (pc) and its jd_runs record
    slots,      \* the runs in the slots channel
    mail,       \* history: the last outcome mailed, or to be mailed, about a submission
    req,        \* requests of the admin and of members, between their statements
    up,         \* the api is running
    wired,      \* it found a model at boot and has a scorer
    cut,        \* history: submissions with a run that died with the api
    faults, crashes

jdVars == <<row, run, slots, mail, req, up, wired, cut, faults, crashes>>

Runs == 1..MaxRuns

Terminal == {"ready", "below_threshold", "failed", "not_a_posting"}
Live     == {"received", "scoring", "generating"}

\* Whose score, and which: the weighted one, or the retrieval pre-score kept with
\* a failure or an empty corpus.
Score   == [by : Runs, of : {"match", "retrieval"}] \cup [by : {0}, of : {"none"}]
NoScore == [by |-> 0, of |-> "none"]

Row   == [status : {"none"} \cup Live \cup Terminal, score : Score,
          assessment : {0} \cup Runs, resume : {0} \cup Runs, pdf : {0} \cup Runs]
NoRow == [status |-> "none", score |-> NoScore, assessment |-> 0, resume |-> 0,
          pdf |-> 0]

\* The steps of scoreAndPersist that hold the slot, and those that do not.
AtWork == {"retrieve", "assess", "gate", "write", "pdf", "release"}
Steps  == {"start", "mark", "queued", "notify", "send", "close"} \cup AtWork

\* An outcome that is mailed, and what becomes of the mail: overtaken is one that was
\* sent after the row had changed, lost one that could not be made or sent.
Mailed  == {"ready", "below_threshold", "failed"}
Outcome == [status : Mailed, score : Score]
Nothing == [status |-> "none", score |-> NoScore]
Mail    == [says : Outcome \cup {Nothing}, fate : {"none", "sent", "overtaken", "lost"}]
NoMail  == [says |-> Nothing, fate |-> "none"]

\* The outcome a row shows.
Shown(w) == [status |-> w.status, score |-> w.score]

\* status and finished are the record's; logged says the record could be opened.
\* says is the mail being made, and seen, history, what the row showed at that moment.
\* lost is history: a statement of the run failed, since the api started or earlier,
\* or its assessment was never stored.
Run == [pc : {"none", "done"} \cup Steps, sub : Subs, found : {"", "fit", "short", "broken"},
        out : {"failed", "not_a_posting", "below_threshold", "generating", "ready"},
        logged : BOOLEAN, finished : BOOLEAN,
        status : {"running", "generating"} \cup Terminal,
        says : Outcome \cup {Nothing}, seen : Outcome \cup {Nothing},
        lost : SUBSET {"statement", "earlier", "assessment"}]

NotRun == [pc |-> "none", sub |-> CHOOSE s \in Subs : TRUE, found |-> "",
           out |-> "failed", logged |-> FALSE, finished |-> FALSE, status |-> "running",
           says |-> Nothing, seen |-> Nothing, lost |-> {}]

Request == [op : {"idle", "admitted", "rescore"}, sub : Subs]
Idle    == [op |-> "idle", sub |-> CHOOSE s \in Subs : TRUE]

\* The runs whose goroutine is alive.
InFlight    == {r \in Runs : run[r].pc \in Steps}
Of(s)       == {r \in InFlight : run[r].sub = s}
\* No run of s is going on, and none died with the api since s was last started.
AtRest(s)   == Of(s) = {} /\ s \notin cut
Used        == Cardinality({s \in Subs : row[s].status # "none"})

\* Rows, runs, mails and requests hold what their columns and fields admit.
JdTypeOK ==
    /\ row \in [Subs -> Row] /\ run \in [Runs -> Run]
    /\ slots \subseteq Runs
    /\ mail \in [Subs -> Mail]
    /\ req \in [Reqs -> Request]
    /\ up \in BOOLEAN /\ wired \in BOOLEAN /\ cut \subseteq Subs
    /\ faults \in 0..MaxFaults /\ crashes \in 0..MaxCrashes

JdInit ==
    /\ row = [s \in Subs |-> NoRow] /\ run = [r \in Runs |-> NotRun]
    /\ slots = {} /\ mail = [s \in Subs |-> NoMail] /\ req = [q \in Reqs |-> Idle]
    /\ up = TRUE /\ wired \in BOOLEAN /\ cut = {} /\ faults = 0 /\ crashes = 0

-----------------------------------------------------------------------------
(* The repository's statements *)

UpdateJdScoring(s, status, score) ==
    row' = [row EXCEPT ![s].status = status, ![s].score = score]

Fault == faults < MaxFaults /\ faults' = faults + 1

\* The run moves on to pc, deciding out: its statement goes through, or it fails,
\* which the code only logs.
Goes(r, pc, out, write) ==
    \/ /\ write /\ UNCHANGED faults
       /\ run' = [run EXCEPT ![r].pc = pc, ![r].found = "", ![r].out = out]
    \/ /\ Fault /\ UNCHANGED row
       /\ run' = [run EXCEPT ![r].pc = pc, ![r].found = "", ![r].out = out,
                       ![r].lost = @ \cup {"statement"}]

To(r, pc) == run' = [run EXCEPT ![r].pc = pc]

\* A goroutine for a new run of s.
Spawned(s) == \E r \in Runs :
    /\ run[r].pc = "none" /\ \A i \in 1..(r - 1) : run[i].pc # "none"
    /\ run' = [run EXCEPT ![r].pc = "start", ![r].sub = s]

-----------------------------------------------------------------------------
(* Requests *)

\* The bound leaves a run for every request under way.
RunLeft ==
    Cardinality({q \in Reqs : req[q].op # "idle"}) < Cardinality({r \in Runs : run[r].pc = "none"})

\* SubmitJd counts what the member has sent, then inserts: two statements.
Admit(q) ==
    /\ up /\ req[q].op = "idle" /\ RunLeft /\ Used < Limit
    /\ req' = [req EXCEPT ![q].op = "admitted"]
    /\ UNCHANGED <<row, run, slots, mail, up, wired, cut, faults, crashes>>

\* The row is inserted and its pipeline started; without a scorer it stays received.
Accept(q, s) ==
    /\ up /\ req[q].op = "admitted" /\ row[s].status = "none"
    /\ row' = [row EXCEPT ![s].status = "received"]
    /\ IF wired THEN Spawned(s) ELSE UNCHANGED run
    /\ req' = [req EXCEPT ![q] = Idle]
    /\ UNCHANGED <<slots, mail, up, wired, cut, faults, crashes>>

\* RescoreJd reads the row and refuses one that is scoring ...
AskRescore(q, s) ==
    /\ up /\ wired /\ req[q].op = "idle" /\ RunLeft
    /\ row[s].status \notin {"none", "scoring"}
    /\ req' = [req EXCEPT ![q] = [op |-> "rescore", sub |-> s]]
    /\ UNCHANGED <<row, run, slots, mail, up, wired, cut, faults, crashes>>

\* ... then marks it and starts the pipeline.
Rescore(q) ==
    /\ up /\ req[q].op = "rescore"
    /\ UpdateJdScoring(req[q].sub, "scoring", NoScore)
    /\ Spawned(req[q].sub)
    /\ req' = [req EXCEPT ![q] = Idle] /\ cut' = cut \ {req[q].sub}
    /\ UNCHANGED <<slots, mail, up, wired, faults, crashes>>

\* The mark could not be written, and the admin is told so.
RescoreRefused(q) ==
    /\ up /\ req[q].op = "rescore" /\ Fault
    /\ req' = [req EXCEPT ![q] = Idle]
    /\ UNCHANGED <<row, run, slots, mail, up, wired, cut, crashes>>

-----------------------------------------------------------------------------
(* scoreAndPersist.  A step names the statement or the call that ends it. *)

Rest == UNCHANGED <<mail, req, up, wired, cut, crashes>>
Sub(r) == run[r].sub
At(r, pc) == run[r].pc = pc

Failed(r, score) == UpdateJdScoring(Sub(r), "failed", score)
Below(r, kind) == UpdateJdScoring(Sub(r), "below_threshold", [by |-> r, of |-> kind])

\* StartJdRun, without which a run goes on unrecorded.
Start(r) ==
    /\ At(r, "start")
    /\ \/ /\ run' = [run EXCEPT ![r].pc = "mark", ![r].logged = TRUE]
          /\ UNCHANGED faults
       \/ To(r, "mark") /\ Fault
    /\ UNCHANGED <<row, slots>> /\ Rest

\* The row reads scoring, unless the statement fails.
MarkScoring(r) ==
    /\ At(r, "mark")
    /\ \/ /\ UpdateJdScoring(Sub(r), "scoring", NoScore)
          /\ To(r, "queued") /\ UNCHANGED faults
       \/ /\ run' = [run EXCEPT ![r].pc = "queued", ![r].lost = @ \cup {"statement"}]
          /\ Fault /\ UNCHANGED row
    /\ UNCHANGED slots /\ Rest

\* Mutant: pipelines are not serialised.
AcquireAny(r) ==
    /\ At(r, "queued")
    /\ slots' = slots \cup {r} /\ To(r, "retrieve")
    /\ UNCHANGED <<row, faults>> /\ Rest

Acquire(r) ==
    /\ At(r, "queued") /\ Cardinality(slots) < Slots
    /\ slots' = slots \cup {r} /\ To(r, "retrieve")
    /\ UNCHANGED <<row, faults>> /\ Rest

\* maxQueueWait is over: the row is failed without the slot ever having been held.
GiveUp(r) ==
    /\ At(r, "queued") /\ Cardinality(slots) >= Slots
    /\ Goes(r, "notify", "failed", Failed(r, NoScore))
    /\ UNCHANGED slots /\ Rest

\* CheckPosting, then Score: not a posting; an error, the pipeline timeout among
\* them; an empty corpus; or hits to judge by.
Retrieve(r) ==
    /\ At(r, "retrieve")
    /\ \/ Goes(r, "release", "not_a_posting",
               UpdateJdScoring(Sub(r), "not_a_posting", NoScore))
       \/ Goes(r, "release", "failed", Failed(r, NoScore))
       \/ Goes(r, "release", "below_threshold", Below(r, "retrieval"))
       \/ To(r, "assess") /\ UNCHANGED <<row, faults>>
    /\ UNCHANGED slots /\ Rest

\* Assess: the fit clears the gate or does not, or the model breaks.  Whatever it
\* says is stored by SetJdAssessment.
Assess(r) ==
    /\ At(r, "assess")
    /\ \E f \in {"fit", "short", "broken"} :
        \/ /\ run' = [run EXCEPT ![r].pc = "gate", ![r].found = f]
           /\ row' = [row EXCEPT ![Sub(r)].assessment = r]
           /\ UNCHANGED faults
        \/ /\ run' = [run EXCEPT ![r].pc = "gate", ![r].found = f,
                            ![r].lost = @ \cup {"assessment"}]
           /\ Fault /\ UNCHANGED row
    /\ UNCHANGED slots /\ Rest

\* The status flip.  A run that clears the gate goes on; if its flip is lost it
\* leaves, deciding a status the row never had.
Gate(r) ==
    /\ At(r, "gate")
    /\ CASE run[r].found = "fit" ->
              \/ /\ run' = [run EXCEPT ![r].pc = "write", ![r].found = "", ![r].out = "generating"]
                 /\ UpdateJdScoring(Sub(r), "generating", [by |-> r, of |-> "match"])
                 /\ UNCHANGED faults
              \/ Goes(r, "release", "generating", FALSE)
         [] run[r].found = "short" ->
              Goes(r, "release", "below_threshold", Below(r, "match"))
         [] OTHER ->
              Goes(r, "release", "failed", Failed(r, [by |-> r, of |-> "retrieval"]))
    /\ UNCHANGED slots /\ Rest

\* The model writes the résumé, or does not.  SetJdResume makes the row ready; if it
\* is lost the run ends as generating.
WriteResume(r) ==
    /\ At(r, "write")
    /\ \/ Goes(r, "release", "failed", Failed(r, [by |-> r, of |-> "match"]))
       \/ /\ run' = [run EXCEPT ![r].pc = "pdf", ![r].out = "ready"] /\ UNCHANGED faults
          /\ row' = [row EXCEPT ![Sub(r)].status = "ready", ![Sub(r)].resume = r]
       \/ Goes(r, "release", "generating", FALSE)
    /\ UNCHANGED slots /\ Rest

\* The PDF is optional: not rendered or not stored, the row stays ready.
KeepPdf(r) ==
    /\ At(r, "pdf") /\ To(r, "release")
    /\ row' = [row EXCEPT ![Sub(r)].pdf = r] \/ UNCHANGED row
    /\ UNCHANGED <<slots, faults>> /\ Rest

\* Mutant: the slot is only given back by a run that wrote its outcome.
KeepSlot(r) ==
    /\ At(r, "release")
    /\ slots' = IF run[r].out = "failed" THEN slots ELSE slots \ {r}
    /\ To(r, "notify")
    /\ UNCHANGED <<row, faults>> /\ Rest

(* The deferred calls, last registered first. *)
Release(r) ==
    /\ At(r, "release")
    /\ slots' = slots \ {r} /\ To(r, "notify")
    /\ UNCHANGED <<row, faults>> /\ Rest

\* The mail of run r is not made, or not sent.
MailLost(r) ==
    /\ Fault
    /\ run' = [run EXCEPT ![r].pc = "close", ![r].says = Nothing, ![r].seen = Nothing]
    /\ mail' = [mail EXCEPT ![Sub(r)].fate = "lost"]

\* Mutant: the mail says what the run decided.
ReadDecided(r) ==
    LET w == row[Sub(r)] IN
    /\ At(r, "notify")
    /\ run' = IF w.status \in Mailed /\ run[r].out \in Mailed
              THEN [run EXCEPT ![r].pc = "send", ![r].seen = Shown(w),
                               ![r].says = [status |-> run[r].out, score |-> w.score]]
              ELSE [run EXCEPT ![r].pc = "close"]
    /\ UNCHANGED <<row, slots, mail, req, up, wired, cut, faults, crashes>>

\* Mutant: whatever the row says is mailed.
ReadAny(r) ==
    LET w == row[Sub(r)] IN
    /\ At(r, "notify")
    /\ run' = [run EXCEPT ![r].pc = "send", ![r].says = Shown(w), ![r].seen = Shown(w)]
    /\ UNCHANGED <<row, slots, mail, req, up, wired, cut, faults, crashes>>

\* The row is read back, and may be unreadable; only an outcome is mailed.
ReadOutcome(r) ==
    LET w == row[Sub(r)] IN
    /\ At(r, "notify")
    /\ \/ /\ run' = IF w.status \in Mailed
                    THEN [run EXCEPT ![r].pc = "send", ![r].says = Shown(w), ![r].seen = Shown(w)]
                    ELSE [run EXCEPT ![r].pc = "close"]
          /\ UNCHANGED <<mail, faults>>
       \/ MailLost(r)
    /\ UNCHANGED <<row, slots, req, up, wired, cut, crashes>>

\* What was read is sent, whatever the row says by now.
SendMail(r) ==
    /\ At(r, "send")
    /\ \/ /\ mail' = [mail EXCEPT ![Sub(r)] =
                       [says |-> run[r].says,
                        fate |-> IF run[r].seen = Shown(row[Sub(r)]) THEN "sent" ELSE "overtaken"]]
          /\ run' = [run EXCEPT ![r].pc = "close", ![r].says = Nothing, ![r].seen = Nothing]
          /\ UNCHANGED faults
       \/ MailLost(r)
    /\ UNCHANGED <<row, slots, req, up, wired, cut, crashes>>

\* FinishJdRun closes the record, if there is one.
Close(r) ==
    /\ At(r, "close")
    /\ \/ /\ run' = [run EXCEPT ![r].pc = "done", ![r].finished = run[r].logged,
                         ![r].status = IF run[r].logged THEN run[r].out ELSE @]
          /\ UNCHANGED faults
       \/ /\ run[r].logged /\ Fault
          /\ run' = [run EXCEPT ![r].pc = "done", ![r].lost = @ \cup {"statement"}]
    /\ UNCHANGED <<row, slots>> /\ Rest

Step(r) ==
    \/ Start(r) \/ MarkScoring(r) \/ Acquire(r) \/ GiveUp(r)
    \/ Retrieve(r) \/ Assess(r) \/ Gate(r) \/ WriteResume(r) \/ KeepPdf(r)
    \/ Release(r) \/ ReadOutcome(r) \/ SendMail(r) \/ Close(r)

-----------------------------------------------------------------------------
(* The process *)

\* Every goroutine is gone; what they wrote stays.
Crash ==
    /\ up /\ crashes < MaxCrashes
    /\ up' = FALSE /\ crashes' = crashes + 1
    /\ run' = [r \in Runs |->
                  IF r \in InFlight
                  THEN [run[r] EXCEPT !.pc = "done", !.found = "", !.says = Nothing, !.seen = Nothing]
                  ELSE run[r]]
    /\ slots' = {} /\ req' = [q \in Reqs |-> Idle]
    /\ cut' = cut \cup {Sub(r) : r \in InFlight}
    /\ UNCHANGED <<row, mail, wired, faults>>

\* Mutant: only a run that looks like one in progress is closed.
StrandedRunning(x) == x.logged /\ x.status = "running" /\ ~ x.finished

\* Mutant: a row that was being written is not looked for.
StrandedScoring(w) == w.status = "scoring"

\* FailStrandedJd and FailStrandedRuns, before the api serves anything.
StrandedRow(w) == w.status \in {"scoring", "generating"}
StrandedRun(x) == x.logged /\ x.status \notin Terminal

\* Both are logged when they fail, and what they would have closed stays as it is.
Boot ==
    /\ ~ up /\ up' = TRUE /\ wired' \in BOOLEAN
    /\ \E rows, records \in BOOLEAN :
        LET swept(r) == rows \/ ~ StrandedRow(row[Sub(r)])
            ended(r) == records /\ StrandedRun(run[r])
        IN
        /\ IF rows /\ records THEN UNCHANGED faults ELSE Fault
        /\ row' = [s \in Subs |-> IF rows /\ StrandedRow(row[s])
                                  THEN [row[s] EXCEPT !.status = "failed"] ELSE row[s]]
        /\ run' = [r \in Runs |->
               [run[r] EXCEPT !.status = IF ended(r) THEN "failed" ELSE @,
                              !.finished = @ \/ ended(r),
                              !.lost = IF run[r].pc = "none" THEN @
                                       ELSE IF ~ swept(r) \/ (StrandedRun(run[r]) /\ ~ records)
                                       THEN @ \cup {"statement"}
                                       ELSE IF "statement" \in @ THEN (@ \ {"statement"}) \cup {"earlier"}
                                       ELSE @]]
    /\ cut' = cut \cup {s \in Subs : StrandedRow(row[s])}
    /\ UNCHANGED <<slots, mail, req, crashes>>

Serve(q) ==
    \/ Admit(q) \/ Rescore(q) \/ RescoreRefused(q)
    \/ \E s \in Subs : Accept(q, s) \/ AskRescore(q, s)

JdNext == Crash \/ Boot \/ (\E q \in Reqs : Serve(q)) \/ \E r \in Runs : Step(r)

\* The Go scheduler runs every goroutine, a call ends or meets the pipeline
\* timeout, the queue wait ends after three hours, and the container is restarted.
JdFairness ==
    /\ WF_jdVars(Boot)
    /\ \A q \in Reqs : WF_jdVars(Serve(q) /\ req[q].op # "idle")
    /\ \A r \in Runs : WF_jdVars(Step(r))

JdSpec == JdInit /\ [][JdNext]_jdVars /\ JdFairness

-----------------------------------------------------------------------------
(* Properties *)

\* A pipeline step is only taken by a run that holds a slot, at most Slots do, and
\* every slot is held by a run that will give it back: no way out of
\* scoreAndPersist keeps one (scorer.go acquire, release and its eleven returns).
SlotsHeldByWorkers ==
    /\ slots = {r \in Runs : run[r].pc \in AtWork}
    /\ Cardinality(slots) <= Slots

\* When the last run of a submission is over, the assessment on the row is the one
\* its match score was computed from, whatever re-scores overlapped: assessing and
\* publishing happen under one slot (scorer.go, users/jd_submissions.go
\* SetJdAssessment).  A statement that failed may leave the halves of two runs.
ScoreIsExplained ==
    \A s \in Subs : LET w == row[s] IN
        AtRest(s) /\ w.score.of = "match" =>
            \/ w.assessment = w.score.by
            \/ \E r \in {w.assessment, w.score.by} \ {0} : run[r].lost # {}

\* When the last run of a submission is over, the last mail about it says what the
\* row says, however the writes, the marks and the mails of overlapping runs
\* interleaved, with two exceptions: a mail that could not be made or sent, and one
\* that another run overtook between reading the row and sending (jd/notify.go
\* notifyOutcome).
LastMailIsTrue ==
    \A s \in Subs :
        row[s].status \in Mailed /\ AtRest(s) =>
            mail[s].says = Shown(row[s]) \/ mail[s].fate \in {"overtaken", "lost"}

\* jd_runs never says that work goes on when nothing does, which at "running" would
\* pause the chat warmer for good: a record without a terminal status is of a run in
\* flight, or of one that lost a statement since the api started (users/jd_runs.go
\* JDRunInProgress, FailStrandedRuns).
RunRecordsAreTrue ==
    \A r \in Runs : up /\ run[r].logged /\ run[r].status \notin Terminal
                        => r \in InFlight \/ "statement" \in run[r].lost

\* A review that started ends: a row that reads scoring or generating comes to rest,
\* across restarts, unless the database refused a statement of its run.
ReviewsEnd ==
    \A s \in Subs :
        row[s].status \in {"scoring", "generating"} ~>
            \/ row[s].status \in Terminal
            \/ \E r \in Runs : run[r].sub = s /\ "statement" \in run[r].lost

\* The pipeline implements the line for the slot, its liveness included.
Line == INSTANCE SlotLine WITH
    waiting <- {r \in InFlight : run[r].pc \in {"start", "mark", "queued"}},
    working <- {r \in Runs : run[r].pc \in AtWork},
    over    <- {r \in Runs : run[r].pc \in {"notify", "send", "close", "done"}}
RunsTakeTurns == Line!LineSpec

-----------------------------------------------------------------------------
(* Statements of the repository that the code does not keep *)

\* docs/jd-submitter-workflow.md says that a run closed at startup gets its submitter
\* a failure mail instead of silence: a row that reads failed has been mailed of, or
\* is going to be, unless it is run again.
RestartIsMailed ==
    \A s \in Subs : row[s].status = "failed" ~> (mail[s].says.status = "failed" \/ row[s].status # "failed")
=============================================================================
