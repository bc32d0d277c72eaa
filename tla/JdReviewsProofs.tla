-------------------------- MODULE JdReviewsProofs --------------------------
(***************************************************************************)
(* What a review leaves behind, for any submissions, requests, runs,       *)
(* faults and crashes: its record (jd_runs), the submission's row and the  *)
(* last mail about it.                                                     *)
(***************************************************************************)
EXTENDS JdPipelineProofs

-----------------------------------------------------------------------------
(* The shape of a step *)

\* A run is a function of its fields' names, whatever their types.
Fields == {"pc", "sub", "found", "out", "logged", "finished", "status", "says", "seen", "lost"}

LEMMA RunIs ==
  ASSUME NEW x \in Run
  PROVE  x = [f \in Fields |-> x[f]] /\ DOMAIN x = Fields
  BY DEF Run, Fields

\* A goroutine's record after its step to pc.  Whose it is never changes.
RunGoes(r, pc, out, lost) ==
    /\ \A i \in Runs : i # r => run'[i] = run[i]
    /\ run'[r].pc = pc /\ run'[r].out = out /\ run'[r].lost = lost
    /\ run'[r].sub = run[r].sub

SameRecord(r) == run'[r].status = run[r].status /\ (run'[r].logged <=> run[r].logged)

\* What the row of s reads after a write, of what the properties compare.
RowGets(s, status, score, assessment) ==
    /\ \A t \in Subs : t # s => row'[t] = row[t]
    /\ row'[s].status = status /\ row'[s].score = score /\ row'[s].assessment = assessment

Opens(r) ==     \* Start, MarkScoring
    \/ /\ run[r].pc = "start" /\ run'[r].status = run[r].status
       /\ RunGoes(r, "mark", run[r].out, run[r].lost) /\ row' = row
    \/ /\ run[r].pc = "mark" /\ SameRecord(r)
       /\ \/ /\ RunGoes(r, "queued", run[r].out, run[r].lost)
             /\ RowGets(Sub(r), "scoring", NoScore, row[Sub(r)].assessment)
          \/ /\ RunGoes(r, "queued", run[r].out, run[r].lost \cup {"statement"})
             /\ row' = row
MovesOn(r) ==   \* Acquire, Retrieve's hits, Release
    /\ \/ run[r].pc = "queued" /\ RunGoes(r, "retrieve", run[r].out, run[r].lost)
       \/ run[r].pc = "retrieve" /\ RunGoes(r, "assess", run[r].out, run[r].lost)
       \/ run[r].pc = "release" /\ RunGoes(r, "notify", run[r].out, run[r].lost)
    /\ SameRecord(r) /\ row' = row
Judges(r) ==    \* Assess
    /\ run[r].pc = "assess" /\ SameRecord(r)
    /\ \/ /\ RunGoes(r, "gate", run[r].out, run[r].lost)
          /\ RowGets(Sub(r), row[Sub(r)].status, row[Sub(r)].score, r)
       \/ /\ RunGoes(r, "gate", run[r].out, run[r].lost \cup {"assessment"})
          /\ row' = row
\* GiveUp, Retrieve, Gate and WriteResume, where they decide an outcome: it is on the
\* row, or its statement is lost.
Decides(r) ==
    /\ run[r].pc \in Steps /\ SameRecord(r)
    /\ \E pc \in {"release", "notify"}, out \in Outcomes :
        \/ /\ RunGoes(r, pc, out, run[r].lost) /\ out \in Terminal
           /\ \E score \in Score :
                /\ RowGets(Sub(r), out, score, row[Sub(r)].assessment)
                /\ score.of = "match" => score.by = r /\ run[r].pc \in {"gate", "write"}
        \/ RunGoes(r, pc, out, run[r].lost \cup {"statement"}) /\ row' = row
Clears(r) ==    \* Gate, when the fit clears it
    /\ run[r].pc = "gate" /\ SameRecord(r)
    /\ RunGoes(r, "write", "generating", run[r].lost)
    /\ RowGets(Sub(r), "generating", [by |-> r, of |-> "match"], row[Sub(r)].assessment)
Readies(r) ==   \* WriteResume
    /\ run[r].pc = "write" /\ SameRecord(r)
    /\ RunGoes(r, "pdf", "ready", run[r].lost)
    /\ RowGets(Sub(r), "ready", row[Sub(r)].score, row[Sub(r)].assessment)
Keeps(r) ==     \* KeepPdf
    /\ run[r].pc = "pdf" /\ SameRecord(r)
    /\ RunGoes(r, "release", run[r].out, run[r].lost)
    /\ RowGets(Sub(r), row[Sub(r)].status, row[Sub(r)].score, row[Sub(r)].assessment)
Closes(r) ==    \* Close
    /\ run[r].pc = "close" /\ row' = row
    /\ (run'[r].logged <=> run[r].logged)
    /\ \/ /\ RunGoes(r, "done", run[r].out, run[r].lost)
          /\ run[r].logged => run'[r].status = run[r].out
       \/ RunGoes(r, "done", run[r].out, run[r].lost \cup {"statement"})
\* ReadOutcome and SendMail: what is read is what will be told; nothing is to be
\* told; the mail is lost; or it is sent.
Tells(r) ==
    \/ run'[r].pc = "send" /\ run'[r].says = run'[r].seen /\ mail' = mail
    \/ row[Sub(r)].status \notin Mailed /\ mail' = mail /\ run'[r].pc = "close"
    \/ mail' = [mail EXCEPT ![Sub(r)].fate = "lost"] /\ run'[r].pc = "close"
    \/ /\ run[r].pc = "send" /\ run'[r].pc = "close"
       /\ mail' = [mail EXCEPT ![Sub(r)] =
                      [says |-> run[r].says,
                       fate |-> IF run[r].seen = Shown(row[Sub(r)]) THEN "sent" ELSE "overtaken"]]
Notifies(r) ==
    /\ run[r].pc \in {"notify", "send"} /\ SameRecord(r) /\ row' = row
    /\ \E pc \in {"send", "close"} : RunGoes(r, pc, run[r].out, run[r].lost)
    /\ Tells(r)

RunStep(r) ==
    /\ \/ Opens(r) \/ MovesOn(r) \/ Judges(r) \/ Decides(r) \/ Clears(r) \/ Readies(r)
       \/ Keeps(r) \/ Closes(r)
    /\ mail' = mail

\* Every place of a goroutine that is alive.
LEMMA StepsAre ==
  Steps = {"start", "mark", "queued", "retrieve", "assess", "gate", "write", "pdf", "release",
           "notify", "send", "close"}
  BY DEF Steps, AtWork

\* A statement on the row writes the status and the score, and nothing else.
LEMMA ScoringWritten ==
  ASSUME JdTypeOK, NEW s \in Subs, NEW status, NEW score, UpdateJdScoring(s, status, score)
  PROVE  RowGets(s, status, score, row[s].assessment)
<1>1. row \in [Subs -> Row]
  BY DEF JdTypeOK
<1> QED BY <1>1 DEF UpdateJdScoring, RowGets, Row

\* A run that decides an outcome: its statement went through, or it is lost.
LEMMA GoesWritten ==
  ASSUME JdTypeOK, NEW r \in Runs, NEW pc, NEW out, NEW ACTION write, Goes(r, pc, out, write)
  PROVE  /\ SameRecord(r)
         /\ \/ write /\ RunGoes(r, pc, out, run[r].lost)
            \/ row' = row /\ RunGoes(r, pc, out, run[r].lost \cup {"statement"})
<1>1. run \in [Runs -> Run]
  BY DEF JdTypeOK
<1> DEFINE lost == run[r].lost \cup {"statement"}
           x == [run[r] EXCEPT !.pc = pc, !.found = "", !.out = out]
           y == [run[r] EXCEPT !.pc = pc, !.found = "", !.out = out, !.lost = lost]
<1>2. \/ write /\ run' = [run EXCEPT ![r] = x]
      \/ row' = row /\ run' = [run EXCEPT ![r] = y]
  BY DEF Goes
<1> HIDE DEF lost
<1>3. /\ x.pc = pc /\ x.out = out /\ x.lost = run[r].lost /\ x.sub = run[r].sub
      /\ x.status = run[r].status /\ (x.logged <=> run[r].logged)
  BY <1>1, RunIs DEF Fields
<1>4. /\ y.pc = pc /\ y.out = out /\ y.lost = lost /\ y.sub = run[r].sub
      /\ y.status = run[r].status /\ (y.logged <=> run[r].logged)
  BY <1>1, RunIs DEF Fields
<1> HIDE DEF x, y
<1>5. CASE write /\ run' = [run EXCEPT ![r] = x]
  BY <1>1, <1>3, <1>5 DEF SameRecord, RunGoes
<1>6. CASE row' = row /\ run' = [run EXCEPT ![r] = y]
  BY <1>1, <1>4, <1>6 DEF SameRecord, RunGoes, lost
<1> QED BY <1>2, <1>5, <1>6

\* A run that only moves on.
LEMMA ToWritten ==
  ASSUME JdTypeOK, NEW r \in Runs, NEW pc, To(r, pc)
  PROVE  SameRecord(r) /\ RunGoes(r, pc, run[r].out, run[r].lost)
<1>1. run \in [Runs -> Run]
  BY DEF JdTypeOK
<1> QED BY <1>1, RunIs DEF To, SameRecord, RunGoes, Fields

\* The statement that opens the record leaves it running.
LEMMA StartOpens ==
  ASSUME JdTypeOK, NEW r \in Runs, Start(r)
  PROVE  Opens(r)
<1>1. run \in [Runs -> Run]
  BY DEF JdTypeOK
<1>2. CASE run' = [run EXCEPT ![r].pc = "mark", ![r].logged = TRUE]
  <2>1. RunGoes(r, "mark", run[r].out, run[r].lost) /\ run'[r].status = run[r].status
    BY <1>1, <1>2, RunIs DEF RunGoes, Fields
  <2> QED BY <2>1 DEF Start, At, Opens
<1>3. CASE To(r, "mark")
  BY <1>3, ToWritten DEF Start, At, Opens, SameRecord
<1> QED BY <1>2, <1>3 DEF Start

\* The mark is made or lost.
LEMMA MarkOpens ==
  ASSUME JdTypeOK, NEW r \in Runs, MarkScoring(r)
  PROVE  Opens(r)
<1>1. run \in [Runs -> Run] /\ Sub(r) \in Subs
  BY DEF JdTypeOK, Sub, Run
<1>2. CASE UpdateJdScoring(Sub(r), "scoring", NoScore) /\ To(r, "queued")
  BY <1>1, <1>2, ToWritten, ScoringWritten DEF MarkScoring, At, Opens
<1>3. CASE /\ run' = [run EXCEPT ![r].pc = "queued", ![r].lost = @ \cup {"statement"}]
           /\ UNCHANGED row
  <2> DEFINE lost == run[r].lost \cup {"statement"}
  <2>1. run' = [run EXCEPT ![r].pc = "queued", ![r].lost = lost]
    BY <1>3
  <2>2. SameRecord(r) /\ RunGoes(r, "queued", run[r].out, lost)
    <3> HIDE DEF lost
    <3> QED BY <1>1, <2>1, RunIs DEF SameRecord, RunGoes, Fields
  <2> QED BY <1>3, <2>2 DEF MarkScoring, At, Opens
<1> QED BY <1>2, <1>3 DEF MarkScoring

\* The outcomes that a statement of the run writes on its row.
LEMMA GoesDecides ==
  ASSUME JdTypeOK, NEW r \in Runs, NEW pc \in {"release", "notify"}, NEW out \in Outcomes,
         NEW score \in Score, NEW ACTION write, run[r].pc \in Steps,
         write => /\ out \in Terminal /\ UpdateJdScoring(Sub(r), out, score)
                  /\ score.of = "match" => score.by = r /\ run[r].pc \in {"gate", "write"},
         Goes(r, pc, out, write)
  PROVE  Decides(r)
<1>1. Sub(r) \in Subs
  BY DEF JdTypeOK, Sub, Run
<1>2. /\ SameRecord(r)
      /\ \/ write /\ RunGoes(r, pc, out, run[r].lost)
         \/ row' = row /\ RunGoes(r, pc, out, run[r].lost \cup {"statement"})
  BY GoesWritten
<1>3. write => RowGets(Sub(r), out, score, row[Sub(r)].assessment)
  BY <1>1, ScoringWritten
<1> QED BY <1>2, <1>3 DEF Decides

\* The scores, and what they are of.
LEMMA ScoresOf ==
  ASSUME NEW r \in Runs
  PROVE  /\ NoScore.of = "none"
         /\ [by |-> r, of |-> "match"].of = "match" /\ [by |-> r, of |-> "match"].by = r
         /\ [by |-> r, of |-> "retrieval"].of = "retrieval"
  BY DEF NoScore

\* A run that gives up decides that it failed, or loses that statement.
LEMMA GiveUpDecides ==
  ASSUME JdTypeOK, NEW r \in Runs, GiveUp(r)
  PROVE  Decides(r)
<1>1. Goes(r, "notify", "failed", Failed(r, NoScore))
  BY DEF GiveUp
<1> QED BY <1>1, GoesDecides, StepsAre, ScoresTyped, ScoresOf DEF GiveUp, At, Failed, Outcomes, Terminal

\* Each stage of a run has its shape: retrieval,
LEMMA RetrieveShape ==
  ASSUME JdTypeOK, NEW r \in Runs, Retrieve(r)
  PROVE  Decides(r) \/ MovesOn(r)
<1>1. CASE Goes(r, "release", "not_a_posting",
                UpdateJdScoring(Sub(r), "not_a_posting", NoScore))
  BY <1>1, GoesDecides, StepsAre, ScoresTyped, ScoresOf DEF Retrieve, At, Outcomes, Terminal
<1>2. CASE Goes(r, "release", "failed", Failed(r, NoScore))
  BY <1>2, GoesDecides, StepsAre, ScoresTyped, ScoresOf DEF Retrieve, At, Failed, Outcomes, Terminal
<1>3. CASE Goes(r, "release", "below_threshold", Below(r, "retrieval"))
  BY <1>3, GoesDecides, StepsAre, ScoresTyped, ScoresOf DEF Retrieve, At, Below, Outcomes, Terminal
<1>4. CASE To(r, "assess") /\ UNCHANGED <<row, faults>>
  BY <1>4, ToWritten DEF Retrieve, At, MovesOn
<1> QED BY <1>1, <1>2, <1>3, <1>4 DEF Retrieve

\* assessment, which alone writes a score,
LEMMA AssessJudges ==
  ASSUME JdTypeOK, NEW r \in Runs, Assess(r)
  PROVE  Judges(r)
<1>1. run \in [Runs -> Run] /\ Sub(r) \in Subs /\ row \in [Subs -> Row]
  BY DEF JdTypeOK, Sub, Run
<1>2. PICK f \in {"fit", "short", "broken"} :
        \/ /\ run' = [run EXCEPT ![r].pc = "gate", ![r].found = f]
           /\ row' = [row EXCEPT ![Sub(r)].assessment = r]
        \/ /\ run' = [run EXCEPT ![r].pc = "gate", ![r].found = f,
                            ![r].lost = @ \cup {"assessment"}]
           /\ row' = row
  BY DEF Assess
<1>3. CASE /\ run' = [run EXCEPT ![r].pc = "gate", ![r].found = f]
           /\ row' = [row EXCEPT ![Sub(r)].assessment = r]
  <2>1. SameRecord(r) /\ RunGoes(r, "gate", run[r].out, run[r].lost)
    BY <1>1, <1>3, RunIs DEF SameRecord, RunGoes, Fields
  <2>2. RowGets(Sub(r), row[Sub(r)].status, row[Sub(r)].score, r)
    BY <1>1, <1>3 DEF RowGets, Row
  <2> QED BY <2>1, <2>2 DEF Assess, At, Judges
<1>4. CASE /\ run' = [run EXCEPT ![r].pc = "gate", ![r].found = f,
                            ![r].lost = @ \cup {"assessment"}]
           /\ row' = row
  <2> DEFINE lost == run[r].lost \cup {"assessment"}
  <2>1. run' = [run EXCEPT ![r].pc = "gate", ![r].found = f, ![r].lost = lost]
    BY <1>4
  <2>2. SameRecord(r) /\ RunGoes(r, "gate", run[r].out, lost)
    <3> HIDE DEF lost
    <3> QED BY <1>1, <2>1, RunIs DEF SameRecord, RunGoes, Fields
  <2> QED BY <1>4, <2>2 DEF Assess, At, Judges
<1> QED BY <1>2, <1>3, <1>4

\* the gate,
LEMMA GateShape ==
  ASSUME JdTypeOK, NEW r \in Runs, Gate(r)
  PROVE  Decides(r) \/ Clears(r)
<1>1. run \in [Runs -> Run] /\ Sub(r) \in Subs /\ At(r, "gate")
  BY DEF JdTypeOK, Sub, Run, Gate
<1>2. \/ /\ run' = [run EXCEPT ![r].pc = "write", ![r].found = "", ![r].out = "generating"]
         /\ UpdateJdScoring(Sub(r), "generating", [by |-> r, of |-> "match"])
      \/ Goes(r, "release", "generating", FALSE)
      \/ Goes(r, "release", "below_threshold", Below(r, "match"))
      \/ Goes(r, "release", "failed", Failed(r, [by |-> r, of |-> "retrieval"]))
  BY DEF Gate
<1>3. CASE /\ run' = [run EXCEPT ![r].pc = "write", ![r].found = "", ![r].out = "generating"]
           /\ UpdateJdScoring(Sub(r), "generating", [by |-> r, of |-> "match"])
  <2>1. SameRecord(r) /\ RunGoes(r, "write", "generating", run[r].lost)
    <3> DEFINE x == [run[r] EXCEPT !.pc = "write", !.found = "", !.out = "generating"]
    <3>1. /\ x.pc = "write" /\ x.out = "generating" /\ x.lost = run[r].lost
          /\ x.sub = run[r].sub /\ x.status = run[r].status /\ (x.logged <=> run[r].logged)
      BY <1>1, RunIs DEF Fields
    <3>2. run' = [run EXCEPT ![r] = x]
      BY <1>3
    <3> HIDE DEF x
    <3> QED BY <1>1, <3>1, <3>2 DEF SameRecord, RunGoes
  <2> QED BY <1>1, <1>3, <2>1, ScoringWritten DEF At, Clears
<1>4. CASE Goes(r, "release", "generating", FALSE)
  BY <1>1, <1>4, GoesDecides, StepsAre, ScoresTyped DEF At, Outcomes
<1>5. CASE Goes(r, "release", "below_threshold", Below(r, "match"))
  BY <1>1, <1>5, GoesDecides, StepsAre, ScoresTyped, ScoresOf DEF At, Below, Outcomes, Terminal
<1>6. CASE Goes(r, "release", "failed", Failed(r, [by |-> r, of |-> "retrieval"]))
  BY <1>1, <1>6, GoesDecides, StepsAre, ScoresTyped, ScoresOf DEF At, Failed, Outcomes, Terminal
<1> QED BY <1>2, <1>3, <1>4, <1>5, <1>6

\* the resume,
LEMMA WriteResumeShape ==
  ASSUME JdTypeOK, NEW r \in Runs, WriteResume(r)
  PROVE  Decides(r) \/ Readies(r)
<1>1. /\ run \in [Runs -> Run] /\ Sub(r) \in Subs /\ row \in [Subs -> Row] /\ At(r, "write")
  BY DEF JdTypeOK, Sub, Run, WriteResume
<1>2. CASE Goes(r, "release", "failed", Failed(r, [by |-> r, of |-> "match"]))
  BY <1>1, <1>2, GoesDecides, StepsAre, ScoresTyped, ScoresOf DEF At, Failed, Outcomes, Terminal
<1>3. CASE Goes(r, "release", "generating", FALSE)
  BY <1>1, <1>3, GoesDecides, StepsAre, ScoresTyped DEF At, Outcomes
<1>4. CASE /\ run' = [run EXCEPT ![r].pc = "pdf", ![r].out = "ready"]
           /\ row' = [row EXCEPT ![Sub(r)].status = "ready", ![Sub(r)].resume = r]
  <2>1. SameRecord(r) /\ RunGoes(r, "pdf", "ready", run[r].lost)
    BY <1>1, <1>4, RunIs DEF SameRecord, RunGoes, Fields
  <2>2. RowGets(Sub(r), "ready", row[Sub(r)].score, row[Sub(r)].assessment)
    BY <1>1, <1>4 DEF RowGets, Row
  <2> QED BY <1>1, <2>1, <2>2 DEF At, Readies
<1> QED BY <1>2, <1>3, <1>4 DEF WriteResume

\* the copy of the pdf,
LEMMA KeepPdfKeeps ==
  ASSUME JdTypeOK, NEW r \in Runs, KeepPdf(r)
  PROVE  Keeps(r)
<1>1. Sub(r) \in Subs /\ row \in [Subs -> Row]
  BY DEF JdTypeOK, Sub, Run
<1>2. RowGets(Sub(r), row[Sub(r)].status, row[Sub(r)].score, row[Sub(r)].assessment)
  BY <1>1 DEF KeepPdf, RowGets, Row
<1> QED BY <1>2, ToWritten DEF KeepPdf, At, Keeps

\* and the close, which alone ends a run well.
LEMMA CloseCloses ==
  ASSUME JdTypeOK, NEW r \in Runs, Close(r)
  PROVE  Closes(r)
<1>1. run \in [Runs -> Run]
  BY DEF JdTypeOK
<1>2. CASE run' = [run EXCEPT ![r].pc = "done", ![r].finished = run[r].logged,
                         ![r].status = IF run[r].logged THEN run[r].out ELSE @]
  <2> DEFINE status == IF run[r].logged THEN run[r].out ELSE run[r].status
             x == [run[r] EXCEPT !.pc = "done", !.finished = run[r].logged, !.status = status]
  <2>0. run' = [run EXCEPT ![r] = x]
    BY <1>2
  <2>s. /\ x.pc = "done" /\ x.out = run[r].out /\ x.lost = run[r].lost /\ x.sub = run[r].sub
        /\ (x.logged <=> run[r].logged) /\ x.status = status
    <3> HIDE DEF status
    <3> QED BY <1>1, RunIs DEF Fields
  <2> HIDE DEF x
  <2>1. /\ run'[r].logged <=> run[r].logged
        /\ RunGoes(r, "done", run[r].out, run[r].lost)
        /\ run[r].logged => run'[r].status = run[r].out
    BY <1>1, <2>0, <2>s DEF RunGoes
  <2> QED BY <2>1 DEF Close, At, Closes
<1>3. CASE run' = [run EXCEPT ![r].pc = "done", ![r].lost = @ \cup {"statement"}]
  <2> DEFINE lost == run[r].lost \cup {"statement"}
  <2>1. run' = [run EXCEPT ![r].pc = "done", ![r].lost = lost]
    BY <1>3
  <2>2. (run'[r].logged <=> run[r].logged) /\ RunGoes(r, "done", run[r].out, lost)
    <3> HIDE DEF lost
    <3> QED BY <1>1, <2>1, RunIs DEF RunGoes, Fields
  <2> QED BY <2>2 DEF Close, At, Closes
<1> QED BY <1>2, <1>3 DEF Close

\* The read-back of the row, the mail and its loss.
LEMMA MailNotifies ==
  ASSUME JdTypeOK, NEW r \in Runs, ReadOutcome(r) \/ SendMail(r)
  PROVE  Notifies(r)
<1>0. run \in [Runs -> Run]
  BY DEF JdTypeOK
<1>1. ASSUME NEW pc \in {"send", "close"}, NEW says, NEW seen,
             run' = [run EXCEPT ![r].pc = pc, ![r].says = says, ![r].seen = seen]
      PROVE  /\ SameRecord(r) /\ RunGoes(r, pc, run[r].out, run[r].lost)
             /\ run'[r].says = says /\ run'[r].seen = seen
  BY <1>0, <1>1, RunIs DEF SameRecord, RunGoes, Fields
<1>2. row' = row /\ run[r].pc \in {"notify", "send"}
  BY DEF ReadOutcome, SendMail, At
<1>3. CASE MailLost(r)
  <2>1. SameRecord(r) /\ RunGoes(r, "close", run[r].out, run[r].lost)
    BY <1>1, <1>3 DEF MailLost
  <2>2. run'[r].pc = "close"
    BY <2>1 DEF RunGoes
  <2>3. Tells(r)
    BY <1>3, <2>2 DEF MailLost, Tells
  <2> QED BY <1>2, <2>1, <2>3 DEF Notifies
<1>4. CASE ReadOutcome(r) /\ ~ MailLost(r)
  <2> DEFINE w == Shown(row[Sub(r)])
  <2>1. CASE run' = [run EXCEPT ![r].pc = "send", ![r].says = w, ![r].seen = w]
    <3> HIDE DEF w
    <3>1. SameRecord(r) /\ RunGoes(r, "send", run[r].out, run[r].lost)
      BY <1>1, <2>1
    <3>2. run'[r].pc = "send" /\ run'[r].says = run'[r].seen
      BY <1>1, <2>1, <3>1 DEF RunGoes
    <3>3. Tells(r)
      BY <1>4, <3>2 DEF ReadOutcome, Tells
    <3> QED BY <1>2, <3>1, <3>3 DEF Notifies
  <2>2. CASE row[Sub(r)].status \notin Mailed /\ To(r, "close")
    <3>1. SameRecord(r) /\ RunGoes(r, "close", run[r].out, run[r].lost)
      BY <2>2, ToWritten
    <3>2. Tells(r)
      BY <1>4, <2>2, <3>1 DEF ReadOutcome, Tells, RunGoes
    <3> QED BY <1>2, <3>1, <3>2 DEF Notifies
  <2> QED BY <1>4, <2>1, <2>2 DEF ReadOutcome, To
<1>5. CASE SendMail(r) /\ ~ MailLost(r)
  <2>1. SameRecord(r) /\ RunGoes(r, "close", run[r].out, run[r].lost)
    BY <1>1, <1>5 DEF SendMail
  <2>2. run'[r].pc = "close"
    BY <2>1 DEF RunGoes
  <2>3. Tells(r)
    BY <1>5, <2>2 DEF SendMail, At, Tells
  <2> QED BY <1>2, <2>1, <2>3 DEF Notifies
<1> QED BY <1>3, <1>4, <1>5

\* Every step of scoreAndPersist has one of the shapes.
LEMMA StepShape ==
  ASSUME JdTypeOK, NEW r \in Runs, Step(r)
  PROVE  /\ RunStep(r) \/ Notifies(r)
         /\ UNCHANGED <<up, cut>>
<1>1. UNCHANGED <<up, cut>>
  BY DEF Step, Start, MarkScoring, Acquire, GiveUp, Retrieve, Assess, Gate, WriteResume, KeepPdf,
         Release, ReadOutcome, SendMail, Close, Rest
<1>2. CASE ReadOutcome(r) \/ SendMail(r)
  BY <1>1, <1>2, MailNotifies
<1>3. CASE ~ (ReadOutcome(r) \/ SendMail(r))
  <2>1. mail' = mail
    BY <1>3 DEF Step, Start, MarkScoring, Acquire, GiveUp, Retrieve, Assess, Gate, WriteResume,
                KeepPdf, Release, Close, Rest
  <2>2. ASSUME Acquire(r) \/ Release(r) PROVE MovesOn(r)
    BY <2>2, ToWritten DEF Acquire, Release, At, MovesOn
  <2> QED BY <1>1, <1>3, <2>1, <2>2, StartOpens, MarkOpens, GiveUpDecides, RetrieveShape,
             AssessJudges, GateShape, WriteResumeShape, KeepPdfKeeps, CloseCloses DEF Step, RunStep
<1> QED BY <1>2, <1>3

-----------------------------------------------------------------------------
(* Requests and the process *)

\* A new run of s.
Starts(s) == \E r \in Runs :
    /\ run[r].pc = "none" /\ \A i \in Runs : i # r => run'[i] = run[i]
    /\ run'[r].pc = "start" /\ run'[r].sub = s /\ run'[r].out = run[r].out
    /\ run'[r].lost = run[r].lost /\ SameRecord(r)

Inserts(s) ==   \* Accept
    /\ RowGets(s, "received", row[s].score, row[s].assessment)
    /\ run' = run \/ Starts(s)
    /\ cut' = cut
Rescores(s) ==  \* Rescore
    /\ RowGets(s, "scoring", NoScore, row[s].assessment) /\ Starts(s)
    /\ cut' = cut \ {s}
Serves ==
    /\ (\E s \in Subs : Inserts(s) \/ Rescores(s)) \/ UNCHANGED <<row, run, cut>>
    /\ up /\ up' = up /\ mail' = mail
Dies ==         \* Crash
    /\ \A r \in Runs :
          /\ run'[r].pc = IF run[r].pc \in Steps THEN "done" ELSE run[r].pc
          /\ run'[r].sub = run[r].sub /\ run'[r].out = run[r].out
          /\ run'[r].lost = run[r].lost /\ SameRecord(r)
          /\ run'[r].pc # "send"
    /\ cut' = cut \cup {Sub(r) : r \in InFlight}
    /\ ~ up' /\ row' = row /\ mail' = mail
\* Boot: what the sweeps do not close has lost a statement, and what they fail was cut.
Revives ==
    /\ \A r \in Runs :
          /\ run'[r].pc = run[r].pc /\ run'[r].sub = run[r].sub /\ run'[r].out = run[r].out
          /\ (run'[r].logged <=> run[r].logged)
          /\ run[r].lost # {} => run'[r].lost # {}
          /\ run'[r].says = run[r].says /\ run'[r].seen = run[r].seen
          /\ run[r].pc # "none" /\ run[r].logged /\ run'[r].status \notin Terminal
                => "statement" \in run'[r].lost
    /\ \A s \in Subs :
          /\ row'[s].score = row[s].score /\ row'[s].assessment = row[s].assessment
          /\ row'[s].status = row[s].status \/ s \in cut'
    /\ cut \subseteq cut' /\ ~ up /\ mail' = mail

\* A spawned worker begins the pipeline from its first stage.
LEMMA SpawnedStarts ==
  ASSUME JdTypeOK, NEW s \in Subs, Spawned(s)
  PROVE  Starts(s)
<1>1. run \in [Runs -> Run]
  BY DEF JdTypeOK
<1>2. PICK r \in Runs : /\ run[r].pc = "none"
                        /\ run' = [run EXCEPT ![r].pc = "start", ![r].sub = s]
  BY DEF Spawned
<1> DEFINE x == [run[r] EXCEPT !.pc = "start", !.sub = s]
<1>3. /\ x.pc = "start" /\ x.sub = s /\ x.out = run[r].out /\ x.lost = run[r].lost
      /\ x.status = run[r].status /\ (x.logged <=> run[r].logged)
  BY <1>1, RunIs DEF Fields
<1>4. run' = [run EXCEPT ![r] = x]
  BY <1>2
<1> HIDE DEF x
<1> QED BY <1>1, <1>2, <1>3, <1>4 DEF Starts, SameRecord

\* Submitting, asking again, and the owner's decision.
LEMMA ServeShape ==
  ASSUME JdTypeOK, NEW q \in Reqs, Serve(q)
  PROVE  Serves
<1>1. row \in [Subs -> Row] /\ req[q].sub \in Subs
  BY DEF JdTypeOK, Request
<1>2. CASE Admit(q) \/ RescoreRefused(q) \/ \E s \in Subs : AskRescore(q, s)
  BY <1>2 DEF Admit, RescoreRefused, AskRescore, Serves
<1>3. CASE Rescore(q)
  BY <1>1, <1>3, ScoringWritten, SpawnedStarts DEF Rescore, Rescores, Serves
<1>4. ASSUME NEW s \in Subs, Accept(q, s) PROVE Serves
  <2>1. RowGets(s, "received", row[s].score, row[s].assessment)
    BY <1>1, <1>4 DEF Accept, RowGets, Row
  <2> QED BY <1>4, <2>1, SpawnedStarts DEF Accept, Inserts, Serves
<1> QED BY <1>2, <1>3, <1>4 DEF Serve

\* A crash ends every run and every worker.
LEMMA CrashDies ==
  ASSUME JdTypeOK, Crash
  PROVE  Dies
<1>1. run \in [Runs -> Run]
  BY DEF JdTypeOK
<1>2. ASSUME NEW r \in Runs
      PROVE  /\ run'[r].pc = IF run[r].pc \in Steps THEN "done" ELSE run[r].pc
             /\ run'[r].sub = run[r].sub /\ run'[r].out = run[r].out
             /\ run'[r].lost = run[r].lost /\ SameRecord(r)
             /\ run'[r].pc # "send"
  <2> DEFINE x == [run[r] EXCEPT !.pc = "done", !.found = "", !.says = Nothing, !.seen = Nothing]
  <2>1. run'[r] = IF run[r].pc \in Steps THEN x ELSE run[r]
    BY DEF Crash, InFlight
  <2>2. /\ x.pc = "done" /\ x.sub = run[r].sub /\ x.out = run[r].out /\ x.lost = run[r].lost
        /\ x.status = run[r].status /\ (x.logged <=> run[r].logged)
    BY <1>1, RunIs DEF Fields
  <2> HIDE DEF x
  <2> QED BY <2>1, <2>2, StepsAre DEF SameRecord
<1> QED BY <1>2 DEF Crash, Dies

\* Boot puts back what the crash left running.
LEMMA BootRevives ==
  ASSUME JdTypeOK, Boot
  PROVE  Revives
<1>1. run \in [Runs -> Run] /\ row \in [Subs -> Row]
  BY DEF JdTypeOK
<1>2. PICK rows \in BOOLEAN, records \in BOOLEAN :
        /\ IF rows /\ records THEN UNCHANGED faults ELSE Fault
        /\ row' = [s \in Subs |-> IF rows /\ StrandedRow(row[s])
                                  THEN [row[s] EXCEPT !.status = "failed"] ELSE row[s]]
        /\ run' = [r \in Runs |->
             [run[r] EXCEPT
                !.status = IF records /\ StrandedRun(run[r]) THEN "failed" ELSE @,
                !.finished = @ \/ (records /\ StrandedRun(run[r])),
                !.lost = IF run[r].pc = "none" THEN @
                         ELSE IF ~ (rows \/ ~ StrandedRow(row[Sub(r)]))
                                 \/ (StrandedRun(run[r]) /\ ~ records)
                         THEN @ \cup {"statement"}
                         ELSE IF "statement" \in @ THEN (@ \ {"statement"}) \cup {"earlier"}
                         ELSE @]]
  BY DEF Boot
<1>3. ASSUME NEW s \in Subs
      PROVE  /\ row'[s].score = row[s].score /\ row'[s].assessment = row[s].assessment
             /\ row'[s].status = row[s].status \/ s \in cut'
  <2>1. row'[s] = IF rows /\ StrandedRow(row[s])
                  THEN [row[s] EXCEPT !.status = "failed"] ELSE row[s]
    BY <1>2
  <2>2. StrandedRow(row[s]) => s \in cut'
    BY DEF Boot
  <2> HIDE <1>2
  <2> QED BY <1>1, <2>1, <2>2 DEF Row
<1>4. ASSUME NEW r \in Runs
      PROVE  /\ run'[r].pc = run[r].pc /\ run'[r].sub = run[r].sub /\ run'[r].out = run[r].out
             /\ (run'[r].logged <=> run[r].logged)
             /\ run[r].lost # {} => run'[r].lost # {}
             /\ run'[r].says = run[r].says /\ run'[r].seen = run[r].seen
             /\ run[r].pc # "none" /\ run[r].logged /\ run'[r].status \notin Terminal
                   => "statement" \in run'[r].lost
  <2> DEFINE x == run[r]
             ended == records /\ StrandedRun(x)
             unswept == ~ (rows \/ ~ StrandedRow(row[Sub(r)])) \/ (StrandedRun(x) /\ ~ records)
             status == IF ended THEN "failed" ELSE x.status
             finished == x.finished \/ ended
             lost == IF x.pc = "none" THEN x.lost
                     ELSE IF unswept THEN x.lost \cup {"statement"}
                     ELSE IF "statement" \in x.lost
                     THEN (x.lost \ {"statement"}) \cup {"earlier"} ELSE x.lost
             y == [x EXCEPT !.status = status, !.finished = finished, !.lost = lost]
  <2>1. run'[r] = y
    BY <1>2
  <2>2. x.lost # {} => lost # {}
    <3> HIDE DEF unswept, x
    <3> QED OBVIOUS
  <2>3. x.pc # "none" /\ x.logged /\ status \notin Terminal => "statement" \in lost
    BY DEF StrandedRun, Terminal
  <2>4. /\ y.pc = x.pc /\ y.sub = x.sub /\ y.out = x.out /\ (y.logged <=> x.logged)
        /\ y.lost = lost /\ y.status = status /\ y.says = x.says /\ y.seen = x.seen
    <3> HIDE DEF status, finished, lost
    <3> QED BY <1>1, RunIs DEF Fields
  <2> HIDE DEF y, status, lost
  <2> QED BY <2>1, <2>2, <2>3, <2>4
<1> QED BY <1>3, <1>4 DEF Boot, Revives

\* Every step of the system, by what it leaves of runs, rows and mails.
LEMMA NextShape ==
  ASSUME JdTypeOK, [JdNext]_jdVars
  PROVE  \/ \E r \in Runs : (RunStep(r) \/ Notifies(r)) /\ UNCHANGED <<up, cut>>
         \/ Serves \/ Dies \/ Revives
         \/ UNCHANGED <<row, run, mail, up, cut>>
  BY StepShape, ServeShape, CrashDies, BootRevives DEF JdNext, jdVars

-----------------------------------------------------------------------------
(* The records *)

\* What is known of a run before its record says it: a record is only opened by a
\* goroutine that started, one about to be closed has a decided outcome or a lost
\* statement, and no goroutine outlives the process.
RunInv(r) ==
    /\ run[r].logged => run[r].pc \notin {"none", "start"}
    /\ run[r].pc = "pdf" => run[r].out = "ready"
    /\ run[r].pc \in {"release", "notify", "send", "close"} /\ run[r].out \notin Terminal
          => "statement" \in run[r].lost
    /\ up /\ run[r].logged /\ run[r].status \notin Terminal
          => run[r].pc \in Steps \/ "statement" \in run[r].lost
    /\ ~ up => run[r].pc \notin Steps

RecordInv == \A r \in Runs : RunInv(r)

\* A goroutine's own step.
LEMMA RecordRunStep ==
  ASSUME NEW r \in Runs, RunStep(r) \/ Notifies(r), up' = up, RunInv(r)
  PROVE  RunInv(r)'
<1>1. CASE Opens(r)
  BY <1>1, StepsAre DEF Opens, RunGoes, RunInv
<1>2. CASE MovesOn(r)
  BY <1>2, StepsAre DEF MovesOn, RunGoes, SameRecord, RunInv
<1>3. CASE Judges(r)
  BY <1>3, StepsAre DEF Judges, RunGoes, SameRecord, RunInv
<1>4. CASE Decides(r)
  <2>1. PICK pc \in {"release", "notify"}, out \in Outcomes :
          \/ RunGoes(r, pc, out, run[r].lost) /\ out \in Terminal
          \/ RunGoes(r, pc, out, run[r].lost \cup {"statement"})
    BY <1>4 DEF Decides
  <2>2. run'[r].pc = pc /\ run'[r].out = out /\ pc \in Steps
    BY <2>1, StepsAre DEF RunGoes
  <2>3. up'
    BY <1>4 DEF Decides, RunInv
  <2>5. out \in Terminal \/ "statement" \in run'[r].lost
    BY <2>1 DEF RunGoes
  <2>6. pc \notin {"none", "start", "pdf"}
    BY <2>1
  <2> QED BY <2>2, <2>3, <2>5, <2>6 DEF RunInv
<1>5. CASE Clears(r)
  BY <1>5, StepsAre DEF Clears, RunGoes, SameRecord, RunInv
<1>6. CASE Readies(r)
  BY <1>6, StepsAre DEF Readies, RunGoes, SameRecord, RunInv
<1>7. CASE Keeps(r)
  BY <1>7, StepsAre DEF Keeps, RunGoes, SameRecord, RunInv, Terminal
<1>8. CASE Closes(r)
  BY <1>8, StepsAre DEF Closes, RunGoes, RunInv
<1>9. CASE Notifies(r)
  <2>1. PICK pc \in {"send", "close"} : RunGoes(r, pc, run[r].out, run[r].lost)
    BY <1>9 DEF Notifies
  <2> QED BY <1>9, <2>1, StepsAre DEF Notifies, RunGoes, SameRecord, RunInv
<1> QED BY <1>1, <1>2, <1>3, <1>4, <1>5, <1>6, <1>7, <1>8, <1>9 DEF RunStep

\* A step of another goroutine.
LEMMA OtherRunStep ==
  ASSUME NEW r \in Runs, RunStep(r) \/ Notifies(r), NEW i \in Runs, i # r
  PROVE  run'[i] = run[i]
  BY DEF RunStep, Notifies, Opens, MovesOn, Judges, Decides, Clears, Readies, Keeps, Closes, RunGoes

\* A request starts one new run, and leaves the others.
LEMMA ServedRuns ==
  ASSUME Serves, NEW i \in Runs
  PROVE  \/ run'[i] = run[i]
         \/ /\ run[i].pc = "none" /\ run'[i].pc = "start"
            /\ run'[i].lost = run[i].lost /\ SameRecord(i)
  BY DEF Serves, Inserts, Rescores, Starts

\* RecordInv is inductive.
LEMMA RecordStep ==
  ASSUME JdTypeOK, [JdNext]_jdVars, RecordInv
  PROVE  RecordInv'
<1> SUFFICES ASSUME NEW i \in Runs, RunInv(i) PROVE RunInv(i)'
  BY DEF RecordInv
<1>1. ASSUME NEW r \in Runs, RunStep(r) \/ Notifies(r), up' = up PROVE RunInv(i)'
  <2>1. CASE i = r
    BY <1>1, <2>1, RecordRunStep
  <2>2. CASE i # r
    <3>1. run'[i] = run[i]
      BY <1>1, <2>2, OtherRunStep
    <3> QED BY <1>1, <3>1 DEF RunInv
  <2> QED BY <2>1, <2>2
<1>2. CASE Serves
  BY <1>2, ServedRuns, StepsAre DEF Serves, SameRecord, RunInv
<1>3. CASE Dies
  BY <1>3, StepsAre DEF Dies, SameRecord, RunInv
<1>4. CASE Revives
  BY <1>4, StepsAre DEF Revives, RunInv
<1>5. CASE UNCHANGED <<row, run, mail, up, cut>>
  BY <1>5 DEF RunInv
<1> QED BY <1>1, <1>2, <1>3, <1>4, <1>5, NextShape

\* A record without a terminal status is of a run in flight, or of one that lost a
\* statement since the api started: whatever fails and whenever the process stops, the
\* chat warmer never waits for a run that nothing will end (users/jd_runs.go).
THEOREM RecordsAreTrue == JdSpec => []RunRecordsAreTrue
<1>1. JdInit => RecordInv
  <2> SUFFICES ASSUME JdInit, NEW r \in Runs PROVE RunInv(r)
    BY DEF RecordInv
  <2>1. run[r].pc = "none" /\ run[r].logged = FALSE /\ up
    BY DEF JdInit, NotRun
  <2> QED BY <2>1 DEF RunInv
<1>2. RecordInv => RunRecordsAreTrue
  BY DEF RecordInv, RunInv, RunRecordsAreTrue, InFlight
<1> QED BY <1>1, <1>2, RecordStep, JdTypeCorrect, PTL DEF JdSpec

-----------------------------------------------------------------------------
(* The mail *)

\* The last mail about s is what its row says, was lost or was overtaken, or a run
\* that has yet to send will mail it, unless the row was cut off.
MailTold(s) ==
    row[s].status \in Mailed /\ s \notin cut =>
        \/ mail[s].says = Shown(row[s]) \/ mail[s].fate \in {"overtaken", "lost"}
        \/ \E r \in Runs : run[r].pc \in Steps \ {"close"} /\ run[r].sub = s

\* A mail about to be sent says what was read.
Faithful(r) == run[r].pc = "send" => run[r].says = run[r].seen

MailInv == (\A s \in Subs : MailTold(s)) /\ \A r \in Runs : Faithful(r)

\* A stage of a run says nothing in a mail but its end.
LEMMA MailRunStep ==
  ASSUME JdTypeOK, NEW r \in Runs, RunStep(r), cut' = cut, NEW s \in Subs, MailTold(s)
  PROVE  MailTold(s)'
<1>1. /\ mail' = mail /\ \A i \in Runs : i # r => run'[i] = run[i]
      /\ run'[r].sub = run[r].sub /\ Sub(r) \in Subs
  BY OtherRunStep DEF RunStep, Opens, MovesOn, Judges, Decides, Clears, Readies, Keeps, Closes,
                      RunGoes, JdTypeOK, Sub, Run
<1>2. CASE run'[r].pc \in Steps \ {"close"} /\ s = Sub(r)
  BY <1>1, <1>2 DEF MailTold, Sub
<1>3. CASE s # Sub(r)
  <2>1. row'[s] = row[s]
    BY <1>3 DEF RunStep, Opens, MovesOn, Judges, Decides, Clears, Readies, Keeps, Closes, RowGets
  <2> QED BY <1>1, <1>3, <2>1 DEF MailTold, Sub
<1>4. CASE run'[r].pc \notin Steps \ {"close"}
  <2>1. Closes(r)
    BY <1>4, StepsAre DEF RunStep, Opens, MovesOn, Judges, Decides, Clears, Readies, Keeps, RunGoes
  <2>2. row' = row /\ run[r].pc = "close"
    BY <2>1 DEF Closes
  <2> QED BY <1>1, <2>2 DEF MailTold
<1> QED BY <1>2, <1>3, <1>4

\* The mail repeats the outcome the row has when it is made, or it is overtaken.
LEMMA MailNotifyStep ==
  ASSUME JdTypeOK, NEW r \in Runs, Notifies(r), cut' = cut, Faithful(r), NEW s \in Subs,
         MailTold(s)
  PROVE  MailTold(s)'
<1>1. /\ row' = row /\ \A i \in Runs : i # r => run'[i] = run[i]
      /\ run'[r].sub = run[r].sub /\ Sub(r) \in Subs
      /\ mail \in [Subs -> Mail]
  BY DEF Notifies, RunGoes, JdTypeOK, Sub, Run
<1>2. CASE run'[r].pc = "send" /\ mail' = mail
  <2>1. CASE s = Sub(r)
    BY <1>1, <1>2, <2>1, StepsAre DEF MailTold, Sub
  <2>2. CASE s # Sub(r)
    BY <1>1, <1>2, <2>2 DEF MailTold, Sub
  <2> QED BY <2>1, <2>2
<1>3. CASE row[Sub(r)].status \notin Mailed /\ mail' = mail
  <2>1. CASE s = Sub(r)
    BY <1>1, <1>3, <2>1 DEF MailTold
  <2>2. CASE s # Sub(r)
    BY <1>1, <1>3, <2>2 DEF MailTold, Sub
  <2> QED BY <2>1, <2>2
<1>4. CASE mail' = [mail EXCEPT ![Sub(r)].fate = "lost"]
  <2>1. CASE s = Sub(r)
    <3>1. mail'[s].fate = "lost"
      BY <1>1, <1>4, <2>1 DEF Mail
    <3> QED BY <3>1 DEF MailTold
  <2>2. CASE s # Sub(r)
    <3>1. mail'[s] = mail[s]
      BY <1>1, <1>4, <2>2
    <3> QED BY <1>1, <2>2, <3>1 DEF MailTold, Sub
  <2> QED BY <2>1, <2>2
<1>5. CASE /\ run[r].pc = "send"
           /\ mail' = [mail EXCEPT ![Sub(r)] =
                 [says |-> run[r].says,
                  fate |-> IF run[r].seen = Shown(row[Sub(r)]) THEN "sent" ELSE "overtaken"]]
  <2>1. CASE s = Sub(r)
    <3>1. mail'[s].says = Shown(row[s]) \/ mail'[s].fate = "overtaken"
      BY <1>1, <1>5, <2>1 DEF Faithful
    <3>2. Shown(row[s])' = Shown(row[s])
      BY <1>1 DEF Shown
    <3> QED BY <3>1, <3>2 DEF MailTold
  <2>2. CASE s # Sub(r)
    <3>1. mail'[s] = mail[s]
      BY <1>1, <1>5, <2>2
    <3> QED BY <1>1, <2>2, <3>1 DEF MailTold, Sub
  <2> QED BY <2>1, <2>2
<1> QED BY <1>2, <1>3, <1>4, <1>5 DEF Notifies, Tells

\* Only the read-back makes a mail.
LEMMA FaithfulStep ==
  ASSUME NEW r \in Runs, RunStep(r) \/ Notifies(r), NEW i \in Runs, Faithful(i)
  PROVE  Faithful(i)'
<1>1. CASE i # r
  BY <1>1, OtherRunStep DEF Faithful
<1>2. CASE i = r /\ RunStep(r)
  <2>1. run'[r].pc # "send"
    BY <1>2 DEF RunStep, Opens, MovesOn, Judges, Decides, Clears, Readies, Keeps, Closes, RunGoes
  <2> QED BY <1>2, <2>1 DEF Faithful
<1>3. CASE i = r /\ Notifies(r)
  BY <1>3 DEF Notifies, Tells, Faithful
<1> QED BY <1>1, <1>2, <1>3

\* MailInv is inductive.
LEMMA MailStep ==
  ASSUME JdTypeOK, [JdNext]_jdVars, MailInv
  PROVE  MailInv'
<1>1. ASSUME NEW r \in Runs, RunStep(r) \/ Notifies(r), cut' = cut PROVE MailInv'
  BY <1>1, MailRunStep, MailNotifyStep, FaithfulStep DEF MailInv
<1>2. CASE Serves
  <2>1. \A i \in Runs : run[i].pc \in Steps => run'[i] = run[i]
    BY <1>2, ServedRuns, StepsAre
  <2>2. mail' = mail
    BY <1>2 DEF Serves
  <2>3. ASSUME NEW s \in Subs PROVE MailTold(s)'
    <3>1. \/ row'[s] = row[s] /\ (s \in cut => s \in cut')
          \/ row'[s].status \in {"received", "scoring"}
      BY <1>2 DEF Serves, Inserts, Rescores, RowGets
    <3> QED BY <2>1, <2>2, <3>1 DEF MailInv, MailTold, Mailed, Shown
  <2>4. ASSUME NEW r \in Runs PROVE Faithful(r)'
    <3>1. run'[r] = run[r] \/ run'[r].pc = "start"
      BY <1>2, ServedRuns
    <3> QED BY <3>1 DEF MailInv, Faithful
  <2> QED BY <2>3, <2>4 DEF MailInv
<1>3. CASE Dies
  <2>1. ASSUME NEW s \in Subs PROVE MailTold(s)'
    BY <1>3 DEF Dies, MailInv, MailTold, InFlight, Sub, Shown
  <2>2. ASSUME NEW r \in Runs PROVE Faithful(r)'
    BY <1>3 DEF Dies, Faithful
  <2> QED BY <2>1, <2>2 DEF MailInv
<1>4. CASE Revives
  <2>1. ASSUME NEW s \in Subs PROVE MailTold(s)'
    BY <1>4 DEF Revives, MailInv, MailTold, Shown
  <2>2. ASSUME NEW r \in Runs PROVE Faithful(r)'
    BY <1>4 DEF Revives, MailInv, Faithful
  <2> QED BY <2>1, <2>2 DEF MailInv
<1>5. CASE UNCHANGED <<row, run, mail, up, cut>>
  BY <1>5 DEF MailInv, MailTold, Faithful, Shown
<1> QED BY <1>1, <1>2, <1>3, <1>4, <1>5, NextShape

\* When the last run of a submission is over, the last mail about it says what the row
\* says, for any interleaving of the writes, read-backs and sendings of overlapping
\* runs, except a mail that could not be made or sent, and one that another run
\* overtook between the read-back and the sending (jd/notify.go).
THEOREM LastMailHolds == JdSpec => []LastMailIsTrue
<1>1. JdInit => MailInv
  <2>1. NotRun.pc = "none" /\ NoRow.status = "none"
    BY DEF NotRun, NoRow
  <2> QED BY <2>1 DEF JdInit, Mailed, MailInv, MailTold, Faithful
<1>2. MailInv => LastMailIsTrue
  BY DEF MailInv, MailTold, LastMailIsTrue, AtRest, Of, InFlight
<1> QED BY <1>1, <1>2, MailStep, JdTypeCorrect, PTL DEF JdSpec

-----------------------------------------------------------------------------
(* The score and the assessment *)

\* A score and an assessment belong together, or one of their runs lost a statement.
Whole(s) ==
    \/ row[s].assessment = row[s].score.by
    \/ \E r \in {row[s].assessment, row[s].score.by} \ {0} : run[r].lost # {}

\* A run past its assessment has stored it, or lost something.
Stored(r) ==
    run[r].pc \in {"gate", "write"} => row[Sub(r)].assessment = r \/ run[r].lost # {}

\* Between its assessment and its verdict a run may leave another's score beside it.
Between(s) == \E r \in Runs : run[r].pc = "gate" /\ run[r].sub = s /\ row[s].assessment = r

Scored(s) == row[s].score.of = "match" => Whole(s) \/ s \in cut \/ Between(s)

ScoreInv == (\A r \in Runs : Stored(r)) /\ (\A s \in Subs : Scored(s))

\* The one slot keeps everyone else out while a run assesses and publishes.
LEMMA Alone ==
  ASSUME Slots = 1, JdTypeOK, SlotsHeldByWorkers,
         NEW r \in Runs, run[r].pc \in AtWork, NEW i \in Runs, i # r
  PROVE  run[i].pc \notin AtWork
<1> SUFFICES ASSUME run[i].pc \in AtWork PROVE FALSE
  OBVIOUS
<1>1. {r, i} \subseteq slots
  BY DEF SlotsHeldByWorkers
<1>2. IsFiniteSet(slots)
  <2>1. IsFiniteSet(Runs)
    BY JdAssumption, FS_Interval DEF Runs
  <2> QED BY <2>1, FS_Subset DEF JdTypeOK
<1>3. Cardinality({r, i}) <= Cardinality(slots)
  BY <1>1, <1>2, FS_Subset
<1>4. Cardinality({r}) = 1 /\ IsFiniteSet({r})
  BY FS_Singleton
<1>5. Cardinality({r} \cup {i}) = Cardinality({r}) + 1
  BY <1>4, FS_AddElement
<1>6. {r} \cup {i} = {r, i}
  OBVIOUS
<1>7. Cardinality(slots) <= 1 /\ Cardinality(slots) \in Nat
  BY <1>2, FS_CardinalityType DEF SlotsHeldByWorkers
<1> QED BY <1>3, <1>4, <1>5, <1>6, <1>7

\* What a step of r does to the rows, as the invariant sees it.
LEMMA RowsAfter ==
  ASSUME JdTypeOK, NEW r \in Runs, RunStep(r) \/ Notifies(r)
  PROVE  /\ Sub(r) \in Subs /\ run'[r].sub = run[r].sub
         /\ \A i \in Runs : i # r => run'[i] = run[i]
         /\ run[r].lost \subseteq run'[r].lost
         /\ \A t \in Subs : t # Sub(r) => row'[t] = row[t]
         /\ ~ Judges(r) => row'[Sub(r)].assessment = row[Sub(r)].assessment
<1>1. Sub(r) \in Subs
  BY DEF JdTypeOK, Sub, Run
<1> QED BY <1>1 DEF RunStep, Notifies, Opens, MovesOn, Judges, Decides, Clears, Readies, Keeps,
                    Closes, RunGoes, RowGets

\* A stage of a run keeps what is stored consistent with the scorer's record.
LEMMA StoredRunStep ==
  ASSUME Slots = 1, JdTypeOK, SlotsHeldByWorkers, NEW r \in Runs, RunStep(r) \/ Notifies(r),
         \A i \in Runs : Stored(i), NEW i \in Runs
  PROVE  Stored(i)'
<1>1. CASE i = r
  <2>1. CASE Judges(r)
    BY <1>1, <2>1 DEF Judges, RunGoes, RowGets, Stored, Sub
  <2>2. CASE Clears(r)
    BY <1>1, <2>2, RowsAfter DEF Clears, Judges, RunGoes, RowGets, Stored, Sub
  <2>3. CASE ~ Judges(r) /\ ~ Clears(r)
    <3>1. run'[r].pc \notin {"gate", "write"}
      BY <2>3 DEF RunStep, Notifies, Opens, MovesOn, Decides, Readies, Keeps, Closes, RunGoes
    <3> QED BY <1>1, <3>1 DEF Stored
  <2> QED BY <2>1, <2>2, <2>3
<1>2. CASE i # r
  <2>1. run'[i] = run[i] /\ Sub(i) \in Subs
    BY <1>2, RowsAfter DEF JdTypeOK, Sub, Run
  <2>2. Judges(r) => run[i].pc \notin {"gate", "write"}
    BY <1>2, Alone DEF Judges, AtWork
  <2>3. ~ Judges(r) => row'[Sub(i)].assessment = row[Sub(i)].assessment
    BY <2>1, RowsAfter
  <2> QED BY <2>1, <2>2, <2>3 DEF Stored, Sub
<1> QED BY <1>1, <1>2

\* A row whose score and assessment a step leaves is explained as it was.
LEMMA KeptScored ==
  ASSUME NEW r \in Runs, \A i \in Runs : i # r => run'[i] = run[i],
         run[r].lost \subseteq run'[r].lost, cut' = cut,
         NEW s \in Subs, row'[s].score = row[s].score, row'[s].assessment = row[s].assessment,
         row[s].assessment \in {0} \cup Runs, row[s].score.by \in {0} \cup Runs,
         run[r].pc = "gate" => run'[r].lost # {},
         Scored(s)
  PROVE  Scored(s)'
<1>1. \A i \in Runs : run[i].lost # {} => run'[i].lost # {}
  OBVIOUS
<1>2. CASE Whole(s)
  BY <1>1, <1>2 DEF Whole, Scored
<1>3. CASE Between(s)
  <2>1. PICK i \in Runs : run[i].pc = "gate" /\ run[i].sub = s /\ row[s].assessment = i
    BY <1>3 DEF Between
  <2>2. CASE i = r
    <3>1. r # 0
      BY DEF Runs
    <3> QED BY <2>1, <2>2, <3>1 DEF Whole, Scored
  <2>3. CASE i # r
    BY <2>1, <2>3 DEF Between, Scored
  <2> QED BY <2>2, <2>3
<1> QED BY <1>2, <1>3 DEF Scored

\* The by of every score is a run, or none.
LEMMA ScoreBy ==
  ASSUME JdTypeOK, NEW s \in Subs
  PROVE  row[s].assessment \in {0} \cup Runs /\ row[s].score.by \in {0} \cup Runs
<1>1. row[s].assessment \in {0} \cup Runs /\ row[s].score \in Score
  BY DEF JdTypeOK, Row
<1> QED BY <1>1 DEF Score

\* A run that publishes its match score has stored its assessment, or lost it.
LEMMA PublishedScored ==
  ASSUME NEW r \in Runs, Stored(r), run[r].pc \in {"gate", "write"}, NEW s \in Subs, s = Sub(r),
         run[r].lost \subseteq run'[r].lost, row'[s].assessment = row[s].assessment,
         row'[s].score.by = r
  PROVE  Scored(s)'
<1>1. r # 0
  BY DEF Runs
<1> QED BY <1>1 DEF Stored, Whole, Scored

\* ... and a score with the run that wrote it.
LEMMA ScoredRunStep ==
  ASSUME JdTypeOK, NEW r \in Runs, RunStep(r) \/ Notifies(r), cut' = cut,
         Stored(r), NEW s \in Subs, Scored(s)
  PROVE  Scored(s)'
<1>1. /\ \A i \in Runs : i # r => run'[i] = run[i]
      /\ run[r].lost \subseteq run'[r].lost
      /\ row[s].assessment \in {0} \cup Runs /\ row[s].score.by \in {0} \cup Runs
      /\ Sub(r) \in Subs
  BY RowsAfter, ScoreBy
<1>2. ASSUME row'[s].score = row[s].score, row'[s].assessment = row[s].assessment,
             run[r].pc = "gate" => run'[r].lost # {}
      PROVE  Scored(s)'
  BY <1>1, <1>2, KeptScored
<1>3. CASE s # Sub(r)
  <2>1. row'[s] = row[s]
    BY <1>3, RowsAfter
  <2> QED BY <1>1, <1>3, <2>1 DEF Scored, Whole, Between, Sub
<1>4. CASE s = Sub(r)
  <2>1. CASE Opens(r)
    <3>1. CASE row' = row
      BY <1>2, <2>1, <3>1 DEF Opens
    <3>2. CASE row' # row
      BY <1>4, <2>1, <3>2, ScoresOf DEF Opens, RowGets, Scored
    <3> QED BY <3>1, <3>2
  <2>2. CASE MovesOn(r) \/ Closes(r) \/ Notifies(r)
    BY <1>2, <2>2 DEF MovesOn, Closes, Notifies
  <2>3. CASE Readies(r) \/ Keeps(r)
    BY <1>2, <1>4, <2>3 DEF Readies, Keeps, RowGets
  <2>4. CASE Judges(r)
    <3>1. CASE row' = row
      BY <1>2, <2>4, <3>1 DEF Judges
    <3>2. CASE row' # row
      <4>1. run'[r].pc = "gate" /\ run'[r].sub = s /\ row'[s].assessment = r
        BY <1>4, <2>4, <3>2 DEF Judges, RunGoes, RowGets, Sub
      <4> QED BY <4>1 DEF Scored, Between
    <3> QED BY <3>1, <3>2
  <2>5. CASE Clears(r)
    BY <1>1, <1>4, <2>5, ScoresOf, PublishedScored DEF Clears, RowGets
  <2>6. CASE Decides(r)
    <3>1. PICK pc \in {"release", "notify"}, out \in Outcomes :
            \/ \E score \in Score :
                  /\ RowGets(Sub(r), out, score, row[Sub(r)].assessment)
                  /\ score.of = "match" => score.by = r /\ run[r].pc \in {"gate", "write"}
            \/ RunGoes(r, pc, out, run[r].lost \cup {"statement"}) /\ row' = row
      BY <2>6 DEF Decides
    <3>2. CASE RunGoes(r, pc, out, run[r].lost \cup {"statement"}) /\ row' = row
      BY <1>2, <3>2 DEF RunGoes
    <3>3. ASSUME NEW score \in Score, RowGets(Sub(r), out, score, row[Sub(r)].assessment),
                 score.of = "match" => score.by = r /\ run[r].pc \in {"gate", "write"}
          PROVE  Scored(s)'
      <4>1. CASE score.of = "match"
        BY <1>1, <1>4, <3>3, <4>1, PublishedScored DEF RowGets
      <4>2. CASE score.of # "match"
        BY <1>4, <3>3, <4>2 DEF RowGets, Scored
      <4> QED BY <4>1, <4>2
    <3> QED BY <3>1, <3>2, <3>3
  <2> QED BY <2>1, <2>2, <2>3, <2>4, <2>5, <2>6 DEF RunStep
<1> QED BY <1>3, <1>4

\* ScoreInv is inductive when one run holds the only slot.
LEMMA ScoreStep ==
  ASSUME Slots = 1, JdTypeOK, SlotsHeldByWorkers, [JdNext]_jdVars, ScoreInv
  PROVE  ScoreInv'
<1>1. ASSUME NEW r \in Runs, RunStep(r) \/ Notifies(r), cut' = cut PROVE ScoreInv'
  BY <1>1, StoredRunStep, ScoredRunStep DEF ScoreInv
<1>s. \A r \in Runs : Sub(r) \in Subs
  BY DEF JdTypeOK, Sub, Run
<1>b. \A s \in Subs : row[s].assessment \in {0} \cup Runs /\ row[s].score.by \in {0} \cup Runs
  BY ScoreBy
<1>2. CASE Serves
  <2>1. \A i \in Runs : \/ run'[i] = run[i]
                        \/ /\ run[i].pc = "none" /\ run'[i].pc = "start"
                           /\ run'[i].lost = run[i].lost
    BY <1>2, ServedRuns
  <2>2. \A s \in Subs : /\ row'[s].assessment = row[s].assessment
                        /\ \/ row'[s].score = row[s].score /\ (s \in cut => s \in cut')
                           \/ row'[s].score.of = "none"
    BY <1>2 DEF Serves, Inserts, Rescores, RowGets, NoScore
  <2>3. ASSUME NEW r \in Runs PROVE Stored(r)'
    BY <1>s, <2>1, <2>2 DEF ScoreInv, Stored, Sub
  <2>4. ASSUME NEW s \in Subs PROVE Scored(s)'
    <3>1. CASE row'[s].score.of = "none"
      BY <3>1 DEF Scored
    <3>2. CASE Whole(s) /\ row'[s].score = row[s].score
      <4>1. \A i \in Runs : run'[i].lost = run[i].lost
        BY <2>1
      <4> QED BY <1>b, <2>2, <3>2, <4>1 DEF Scored, Whole
    <3>3. CASE Between(s) /\ row'[s].score = row[s].score
      <4>1. PICK i \in Runs : run[i].pc = "gate" /\ run[i].sub = s /\ row[s].assessment = i
        BY <3>3 DEF Between
      <4>2. run'[i] = run[i]
        BY <2>1, <4>1
      <4> QED BY <2>2, <4>1, <4>2 DEF Scored, Between
    <3> QED BY <2>2, <3>1, <3>2, <3>3 DEF ScoreInv, Scored
  <2> QED BY <2>3, <2>4 DEF ScoreInv
<1>3. CASE Dies
  <2>1. ASSUME NEW r \in Runs PROVE Stored(r)'
    BY <1>3, StepsAre DEF Dies, ScoreInv, Stored, Sub
  <2>2. ASSUME NEW s \in Subs PROVE Scored(s)'
    <3>1. CASE Between(s)
      <4>1. s \in cut'
        BY <1>3, <3>1, StepsAre DEF Dies, Between, InFlight, Sub
      <4> QED BY <4>1 DEF Scored
    <3>2. CASE ~ Between(s)
      BY <1>3, <1>b, <3>2 DEF Dies, ScoreInv, Scored, Whole
    <3> QED BY <3>1, <3>2
  <2> QED BY <2>1, <2>2 DEF ScoreInv
<1>4. CASE Revives
  <2>1. ASSUME NEW r \in Runs PROVE Stored(r)'
    BY <1>4, <1>s DEF Revives, ScoreInv, Stored, Sub
  <2>2. ASSUME NEW s \in Subs PROVE Scored(s)'
    BY <1>4, <1>b DEF Revives, ScoreInv, Scored, Whole, Between
  <2> QED BY <2>1, <2>2 DEF ScoreInv
<1>5. CASE UNCHANGED <<row, run, mail, up, cut>>
  BY <1>5 DEF ScoreInv, Stored, Scored, Whole, Between, Sub
<1> QED BY <1>1, <1>2, <1>3, <1>4, <1>5, NextShape

\* With one pipeline slot, as scorer.go has it, the assessment on a row that came to
\* rest is the one its match score was computed from, whatever re-scores overlapped,
\* unless a statement failed: assessing and publishing happen under the slot.
THEOREM ScoreHolds == ASSUME Slots = 1 PROVE JdSpec => []ScoreIsExplained
<1>1. JdInit => ScoreInv
  <2>1. NotRun.pc = "none" /\ NoRow.score.of = "none"
    BY DEF NotRun, NoRow, NoScore
  <2>2. JdInit => /\ \A r \in Runs : run[r].pc = "none"
                  /\ \A s \in Subs : row[s].score.of = "none"
    BY <2>1 DEF JdInit
  <2> QED BY <2>2 DEF ScoreInv, Stored, Scored
<1>2. ScoreInv => ScoreIsExplained
  BY StepsAre DEF ScoreInv, Scored, Whole, Between, ScoreIsExplained, AtRest, Of, InFlight
<1>3. JdTypeOK /\ SlotsHeldByWorkers /\ [JdNext]_jdVars /\ ScoreInv => ScoreInv'
  BY ScoreStep
<1> QED BY <1>1, <1>2, <1>3, JdTypeCorrect, SlotsHeld, PTL DEF JdSpec
=============================================================================
