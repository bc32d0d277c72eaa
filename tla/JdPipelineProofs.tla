-------------------------- MODULE JdPipelineProofs --------------------------
(***************************************************************************)
(* Theorems about JdPipeline, for any submissions and requests, any number *)
(* of runs, slots, faults and crashes.                                     *)
(***************************************************************************)
EXTENDS JdPipeline, FiniteSetTheorems, TLAPS

-----------------------------------------------------------------------------
(* Type correctness *)

\* Idle and NotRun name some submission.
LEMMA SomeSub == (CHOOSE s \in Subs : TRUE) \in Subs
  BY JdAssumption

\* Nothing has been submitted yet, and that is well typed.
LEMMA InitTyped == JdInit => JdTypeOK
<1> SUFFICES ASSUME JdInit PROVE JdTypeOK
  OBVIOUS
<1>1. row \in [Subs -> Row]
  BY DEF JdInit, NoRow, Row, Score, NoScore
<1>2. run \in [Runs -> Run]
  BY SomeSub DEF JdInit, NotRun, Run
<1>3. mail \in [Subs -> Mail]
  BY DEF JdInit, NoMail, Mail
<1>4. req \in [Reqs -> Request]
  BY SomeSub DEF JdInit, Idle, Request
<1> QED
  BY <1>1, <1>2, <1>3, <1>4, JdAssumption DEF JdInit, JdTypeOK

\* UpdateJdScoring writes a status and a score of their types.
LEMMA ScoringTyped ==
  ASSUME row \in [Subs -> Row], NEW s \in Subs,
         NEW status \in Live \cup Terminal, NEW score \in Score,
         UpdateJdScoring(s, status, score)
  PROVE  row' \in [Subs -> Row]
  BY DEF UpdateJdScoring, Row

\* A fault is within its bound.
LEMMA FaultTyped ==
  faults \in 0..MaxFaults /\ (Fault \/ UNCHANGED faults) => faults' \in 0..MaxFaults
  BY JdAssumption DEF Fault

\* The types of the fields of a run.
Outcomes == {"failed", "not_a_posting", "below_threshold", "generating", "ready"}
Places   == {"none", "done"} \cup Steps
Founds   == {"", "fit", "short", "broken"}
Losses   == SUBSET {"statement", "earlier", "assessment"}
Statuses == {"running", "generating"} \cup Terminal
Contents == Outcome \cup {Nothing}

\* Whatever of a run is replaced by something of its type, a run it stays.
LEMMA RunFields ==
  ASSUME NEW x \in Run
  PROVE  /\ \A pc \in Places : [x EXCEPT !.pc = pc] \in Run
         /\ \A s \in Subs : [x EXCEPT !.sub = s] \in Run
         /\ \A found \in Founds : [x EXCEPT !.found = found] \in Run
         /\ \A out \in Outcomes : [x EXCEPT !.out = out] \in Run
         /\ \A logged \in BOOLEAN : [x EXCEPT !.logged = logged] \in Run
         /\ \A finished \in BOOLEAN : [x EXCEPT !.finished = finished] \in Run
         /\ \A status \in Statuses : [x EXCEPT !.status = status] \in Run
         /\ \A lost \in Losses : [x EXCEPT !.lost = lost] \in Run
         /\ \A says \in Contents : [x EXCEPT !.says = says] \in Run
         /\ \A seen \in Contents : [x EXCEPT !.seen = seen] \in Run
<1>1. \A pc \in Places : [x EXCEPT !.pc = pc] \in Run
  BY DEF Run, Places
<1>2. \A s \in Subs : [x EXCEPT !.sub = s] \in Run
  BY DEF Run
<1>3. \A found \in Founds : [x EXCEPT !.found = found] \in Run
  BY DEF Run, Founds
<1>4. \A out \in Outcomes : [x EXCEPT !.out = out] \in Run
  BY DEF Run, Outcomes
<1>5. \A logged \in BOOLEAN : [x EXCEPT !.logged = logged] \in Run
  BY DEF Run
<1>6. \A finished \in BOOLEAN : [x EXCEPT !.finished = finished] \in Run
  BY DEF Run
<1>7. \A status \in Statuses : [x EXCEPT !.status = status] \in Run
  BY DEF Run, Statuses
<1>8. \A lost \in Losses : [x EXCEPT !.lost = lost] \in Run
  BY DEF Run, Losses
<1>9. \A says \in Contents : [x EXCEPT !.says = says] \in Run
  BY DEF Run, Contents
<1>10. \A seen \in Contents : [x EXCEPT !.seen = seen] \in Run
  BY DEF Run, Contents
<1> QED BY <1>1, <1>2, <1>3, <1>4, <1>5, <1>6, <1>7, <1>8, <1>9, <1>10

\* Only what is written to pc changes it.
LEMMA PcKept ==
  ASSUME NEW x \in Run
  PROVE  /\ \A pc : [x EXCEPT !.pc = pc].pc = pc
         /\ \A found : [x EXCEPT !.found = found].pc = x.pc
         /\ \A out : [x EXCEPT !.out = out].pc = x.pc
         /\ \A logged : [x EXCEPT !.logged = logged].pc = x.pc
         /\ \A finished : [x EXCEPT !.finished = finished].pc = x.pc
         /\ \A status : [x EXCEPT !.status = status].pc = x.pc
         /\ \A lost : [x EXCEPT !.lost = lost].pc = x.pc
         /\ \A says : [x EXCEPT !.says = says].pc = x.pc
         /\ \A seen : [x EXCEPT !.seen = seen].pc = x.pc
  BY DEF Run

\* The goroutine of r goes to the step pc, and no other goes anywhere.
Walks(r, pc) == \A i \in Runs : run'[i].pc = IF i = r THEN pc ELSE run[i].pc

\* The step of r to pc leaves runs, and is of nobody else.
Takes(r, pc) == run' \in [Runs -> Run] /\ Walks(r, pc)

\* Replacing one run by a run at pc is such a step.
LEMMA Replaced ==
  ASSUME run \in [Runs -> Run], NEW r \in Runs, NEW x \in Run, run' = [run EXCEPT ![r] = x],
         NEW pc, x.pc = pc
  PROVE  Takes(r, pc)
  BY DEF Takes, Walks

\* A run that only moves on is a run.
LEMMA ToTyped ==
  ASSUME run \in [Runs -> Run], NEW r \in Runs, NEW pc \in Places, To(r, pc)
  PROVE  Takes(r, pc)
<1> DEFINE a == [run[r] EXCEPT !.pc = pc]
<1>1. a \in Run /\ a.pc = pc
  BY RunFields, PcKept
<1>2. run' = [run EXCEPT ![r] = a]
  BY DEF To
<1> HIDE DEF a
<1> QED BY <1>1, <1>2, Replaced

\* So is one that decides an outcome on the way.
LEMMA DecidedTyped ==
  ASSUME run \in [Runs -> Run], NEW r \in Runs, NEW pc \in Places, NEW out \in Outcomes,
         run' = [run EXCEPT ![r].pc = pc, ![r].out = out]
  PROVE  Takes(r, pc)
<1> DEFINE a == [run[r] EXCEPT !.pc = pc]
           b == [a EXCEPT !.out = out]
<1>1. a \in Run /\ a.pc = pc
  BY RunFields, PcKept
<1>2. b \in Run /\ b.pc = pc
  BY <1>1, RunFields, PcKept
<1>3. run' = [run EXCEPT ![r] = b]
  OBVIOUS
<1> HIDE DEF b
<1> QED BY <1>2, <1>3, Replaced

\* So is one that ends without its record being closed.
LEMMA LosesTyped ==
  ASSUME run \in [Runs -> Run], NEW r \in Runs, NEW pc \in Places, NEW lost \in Losses,
         run' = [run EXCEPT ![r].pc = pc, ![r].lost = lost]
  PROVE  Takes(r, pc)
<1> DEFINE a == [run[r] EXCEPT !.pc = pc]
           b == [a EXCEPT !.lost = lost]
<1>1. a \in Run /\ a.pc = pc
  BY RunFields, PcKept
<1>2. b \in Run /\ b.pc = pc
  BY <1>1, RunFields, PcKept
<1>3. run' = [run EXCEPT ![r] = b]
  OBVIOUS
<1> HIDE DEF b
<1> QED BY <1>2, <1>3, Replaced

\* Whether its statement went through or not, the run that goes on is a run.
LEMMA GoneTyped ==
  ASSUME run \in [Runs -> Run], NEW r \in Runs, NEW pc \in Places, NEW out \in Outcomes,
         \/ run' = [run EXCEPT ![r].pc = pc, ![r].found = "", ![r].out = out]
         \/ run' = [run EXCEPT ![r].pc = pc, ![r].found = "", ![r].out = out,
                               ![r].lost = @ \cup {"statement"}]
  PROVE  Takes(r, pc)
<1> DEFINE lost == run[r].lost \cup {"statement"}
           a == [run[r] EXCEPT !.pc = pc]
           b == [a EXCEPT !.found = ""]
           c == [b EXCEPT !.out = out]
           d == [c EXCEPT !.lost = lost]
<1>1. "" \in Founds /\ lost \in Losses
  BY DEF Founds, Run, Losses
<1>2. run' = [run EXCEPT ![r] = c] \/ run' = [run EXCEPT ![r] = d]
  OBVIOUS
<1> HIDE DEF lost
<1>3. a \in Run /\ a.pc = pc
  BY RunFields, PcKept
<1>4. b \in Run /\ b.pc = pc
  BY <1>1, <1>3, RunFields, PcKept
<1>5. c \in Run /\ c.pc = pc
  BY <1>4, RunFields, PcKept
<1>6. d \in Run /\ d.pc = pc
  BY <1>1, <1>5, RunFields, PcKept
<1> HIDE DEF c, d
<1> QED BY <1>2, <1>5, <1>6, Replaced

\* So is a run with an assessment, stored or lost.
LEMMA AssessedTyped ==
  ASSUME run \in [Runs -> Run], NEW r \in Runs, NEW found \in Founds, NEW lost \in Losses,
         \/ run' = [run EXCEPT ![r].pc = "gate", ![r].found = found]
         \/ run' = [run EXCEPT ![r].pc = "gate", ![r].found = found, ![r].lost = lost]
  PROVE  Takes(r, "gate")
<1> DEFINE a == [run[r] EXCEPT !.pc = "gate"]
           b == [a EXCEPT !.found = found]
           c == [b EXCEPT !.lost = lost]
<1>0. "gate" \in Places
  BY DEF Places, Steps, AtWork
<1>1. a \in Run /\ a.pc = "gate"
  BY <1>0, RunFields, PcKept
<1>2. b \in Run /\ b.pc = "gate"
  BY <1>1, RunFields, PcKept
<1>3. c \in Run /\ c.pc = "gate"
  BY <1>2, RunFields, PcKept
<1>4. run' = [run EXCEPT ![r] = b] \/ run' = [run EXCEPT ![r] = c]
  OBVIOUS
<1> HIDE DEF b, c
<1> QED BY <1>2, <1>3, <1>4, Replaced

\* So is the run whose record was opened.
LEMMA OpenedTyped ==
  ASSUME run \in [Runs -> Run], NEW r \in Runs,
         run' = [run EXCEPT ![r].pc = "mark", ![r].logged = TRUE]
  PROVE  Takes(r, "mark")
<1> DEFINE a == [run[r] EXCEPT !.pc = "mark"]
           b == [a EXCEPT !.logged = TRUE]
<1>0. "mark" \in Places
  BY DEF Places, Steps
<1>1. a \in Run /\ a.pc = "mark"
  BY <1>0, RunFields, PcKept
<1>2. b \in Run /\ b.pc = "mark"
  BY <1>1, RunFields, PcKept
<1>3. run' = [run EXCEPT ![r] = b]
  OBVIOUS
<1> HIDE DEF b
<1> QED BY <1>2, <1>3, Replaced

\* So is the run whose mail is made, sent or given up.
LEMMA ToldTyped ==
  ASSUME run \in [Runs -> Run], NEW r \in Runs, NEW pc \in {"send", "close"},
         NEW says \in Contents, NEW seen \in Contents,
         run' = [run EXCEPT ![r].pc = pc, ![r].says = says, ![r].seen = seen]
  PROVE  Takes(r, pc)
<1> DEFINE a == [run[r] EXCEPT !.pc = pc]
           b == [a EXCEPT !.says = says]
           c == [b EXCEPT !.seen = seen]
<1>0. pc \in Places
  BY DEF Places, Steps
<1>1. a \in Run /\ a.pc = pc
  BY <1>0, RunFields, PcKept
<1>2. b \in Run /\ b.pc = pc
  BY <1>1, RunFields, PcKept
<1>3. c \in Run /\ c.pc = pc
  BY <1>2, RunFields, PcKept
<1>4. run' = [run EXCEPT ![r] = c]
  OBVIOUS
<1> HIDE DEF c
<1> QED BY <1>3, <1>4, Replaced

\* And the run whose record is closed.
LEMMA ClosedTyped ==
  ASSUME run \in [Runs -> Run], NEW r \in Runs, NEW finished \in BOOLEAN,
         NEW status \in Statuses,
         run' = [run EXCEPT ![r].pc = "done", ![r].finished = finished, ![r].status = status]
  PROVE  Takes(r, "done")
<1> DEFINE a == [run[r] EXCEPT !.pc = "done"]
           b == [a EXCEPT !.finished = finished]
           c == [b EXCEPT !.status = status]
<1>0. "done" \in Places
  BY DEF Places
<1>1. a \in Run /\ a.pc = "done"
  BY <1>0, RunFields, PcKept
<1>2. b \in Run /\ b.pc = "done"
  BY <1>1, RunFields, PcKept
<1>3. c \in Run /\ c.pc = "done"
  BY <1>2, RunFields, PcKept
<1>4. run' = [run EXCEPT ![r] = c]
  OBVIOUS
<1> HIDE DEF c
<1> QED BY <1>3, <1>4, Replaced

\* The scores a step of r may write.
LEMMA ScoresTyped ==
  ASSUME NEW r \in Runs
  PROVE  /\ NoScore \in Score
         /\ [by |-> r, of |-> "match"] \in Score
         /\ [by |-> r, of |-> "retrieval"] \in Score
  BY DEF Score, NoScore

\* What else of the type invariant a step of a run can disturb.
Moved == /\ row' \in [Subs -> Row]
         /\ mail' \in [Subs -> Mail]
         /\ faults' \in 0..MaxFaults

\* Where a step takes the goroutine, and what it does to the slots.
Ends == {"notify", "send", "close", "done"}

StepWalks(r) ==
    \/ run[r].pc = "start" /\ Takes(r, "mark") /\ slots' = slots
    \/ run[r].pc = "mark" /\ Takes(r, "queued") /\ slots' = slots
    \/ run[r].pc = "queued" /\ Takes(r, "notify") /\ slots' = slots
    \/ /\ run[r].pc = "queued" /\ Takes(r, "retrieve")
       /\ Cardinality(slots) < Slots /\ slots' = slots \cup {r}
    \/ run[r].pc \in AtWork /\ (\E pc \in AtWork : Takes(r, pc)) /\ slots' = slots
    \/ run[r].pc \in AtWork /\ Takes(r, "notify") /\ slots' = slots \ {r}
    \/ run[r].pc \in Ends /\ (\E pc \in Ends : Takes(r, pc)) /\ slots' = slots

\* A step of scoreAndPersist keeps the types and walks the run on.
LEMMA StepTyped ==
  ASSUME JdTypeOK, NEW r \in Runs, Step(r)
  PROVE  Moved /\ StepWalks(r)
<1> USE DEF At, Rest, Moved
<1>0. /\ row \in [Subs -> Row] /\ run \in [Runs -> Run]
      /\ mail \in [Subs -> Mail] /\ faults \in 0..MaxFaults
  BY DEF JdTypeOK
<1>s. Sub(r) \in Subs
  BY <1>0 DEF Sub, Run
<1>f. (Fault \/ UNCHANGED faults) => faults' \in 0..MaxFaults
  BY <1>0, FaultTyped
<1>u. \A st \in Live \cup Terminal, sc \in Score :
        UpdateJdScoring(Sub(r), st, sc) => row' \in [Subs -> Row]
  BY <1>0, <1>s, ScoringTyped
<1>w. {"retrieve", "assess", "gate", "write", "pdf", "release"} = AtWork
  BY DEF AtWork
<1>p. /\ {"mark", "queued", "retrieve", "assess", "gate", "write", "pdf", "release", "notify", "send",
          "close", "done"} \subseteq Places
      /\ {"failed", "not_a_posting", "below_threshold", "scoring", "generating"}
            \subseteq Live \cup Terminal
      /\ {"failed", "not_a_posting", "below_threshold", "generating", "ready"} = Outcomes
  BY DEF Places, Steps, AtWork, Live, Terminal, Outcomes
<1>g. ASSUME NEW pc \in Places, NEW out \in Outcomes, NEW ACTION write, Goes(r, pc, out, write)
      PROVE  Takes(r, pc) /\ faults' \in 0..MaxFaults /\ (write \/ UNCHANGED row)
  BY <1>0, <1>f, <1>g, GoneTyped DEF Goes
<1>1. CASE Start(r)
  <2>1. Takes(r, "mark")
    BY <1>0, <1>1, <1>p, OpenedTyped, ToTyped DEF Start
  <2> QED BY <1>0, <1>1, <1>f, <2>1 DEF Start, StepWalks
<1>12. CASE MarkScoring(r)
  <2> DEFINE lost == run[r].lost \cup {"statement"}
  <2>1. lost \in Losses
    BY <1>0 DEF Run, Losses
  <2>2. \/ To(r, "queued")
        \/ run' = [run EXCEPT ![r].pc = "queued", ![r].lost = lost]
    BY <1>12 DEF MarkScoring
  <2>3. Takes(r, "queued")
    <3> HIDE DEF lost
    <3> QED BY <1>0, <1>p, <2>1, <2>2, ToTyped, LosesTyped
  <2>4. row' \in [Subs -> Row]
    BY <1>0, <1>12, <1>u, <1>p, ScoresTyped DEF MarkScoring
  <2> QED BY <1>0, <1>12, <1>f, <2>3, <2>4 DEF MarkScoring, StepWalks
<1>2. CASE Acquire(r)
  <2>1. Takes(r, "retrieve")
    BY <1>2, <1>0, <1>p, ToTyped DEF Acquire
  <2> QED BY <1>2, <1>0, <2>1 DEF Acquire, StepWalks
<1>3. CASE GiveUp(r)
  <2>1. Goes(r, "notify", "failed", Failed(r, NoScore))
    BY <1>3 DEF GiveUp
  <2>2. row' \in [Subs -> Row]
    BY <1>0, <1>u, <1>p, <2>1, ScoresTyped DEF Goes, Failed
  <2>3. Takes(r, "notify") /\ faults' \in 0..MaxFaults
    BY <1>p, <1>g, <2>1
  <2> QED BY <1>0, <1>3, <2>2, <2>3 DEF GiveUp, StepWalks
<1>4. CASE Retrieve(r)
  <2>1. \/ Goes(r, "release", "not_a_posting",
                UpdateJdScoring(Sub(r), "not_a_posting", NoScore))
        \/ Goes(r, "release", "failed", Failed(r, NoScore))
        \/ Goes(r, "release", "below_threshold", Below(r, "retrieval"))
        \/ To(r, "assess") /\ UNCHANGED <<row, faults>>
    BY <1>4 DEF Retrieve
  <2>2. row' \in [Subs -> Row]
    BY <1>0, <1>u, <1>p, <2>1, ScoresTyped DEF Goes, Failed, Below
  <2>3. (Takes(r, "release") \/ Takes(r, "assess")) /\ faults' \in 0..MaxFaults
    BY <1>0, <1>p, <1>g, <2>1, ToTyped
  <2> QED BY <1>0, <1>4, <1>w, <2>2, <2>3 DEF Retrieve, StepWalks
<1>5. CASE Assess(r)
  <2>1. PICK f \in {"fit", "short", "broken"} :
           \/ /\ run' = [run EXCEPT ![r].pc = "gate", ![r].found = f]
              /\ row' = [row EXCEPT ![Sub(r)].assessment = r]
              /\ UNCHANGED faults
           \/ /\ run' = [run EXCEPT ![r].pc = "gate", ![r].found = f,
                               ![r].lost = @ \cup {"assessment"}]
              /\ Fault /\ UNCHANGED row
    BY <1>5 DEF Assess
  <2>2. row' \in [Subs -> Row]
    <3>1. [row EXCEPT ![Sub(r)].assessment = r] \in [Subs -> Row]
      BY <1>0, <1>s DEF Row
    <3> QED BY <1>0, <2>1, <3>1
  <2>3. Takes(r, "gate")
    <3> DEFINE lost == run[r].lost \cup {"assessment"}
    <3>1. lost \in Losses /\ f \in Founds
      BY <1>0 DEF Run, Losses, Founds
    <3>2. \/ run' = [run EXCEPT ![r].pc = "gate", ![r].found = f]
          \/ run' = [run EXCEPT ![r].pc = "gate", ![r].found = f, ![r].lost = lost]
      BY <2>1
    <3> HIDE DEF lost
    <3> QED BY <1>0, <3>1, <3>2, AssessedTyped
  <2> QED BY <1>0, <1>5, <1>f, <1>w, <2>1, <2>2, <2>3 DEF Assess, StepWalks
<1>6. CASE Gate(r)
  <2>1. \/ /\ run' = [run EXCEPT ![r].pc = "write", ![r].found = "", ![r].out = "generating"]
           /\ UpdateJdScoring(Sub(r), "generating", [by |-> r, of |-> "match"])
           /\ UNCHANGED faults
        \/ Goes(r, "release", "generating", FALSE)
        \/ Goes(r, "release", "below_threshold", Below(r, "match"))
        \/ Goes(r, "release", "failed", Failed(r, [by |-> r, of |-> "retrieval"]))
    BY <1>6 DEF Gate
  <2>2. row' \in [Subs -> Row]
    BY <1>0, <1>u, <1>p, <2>1, ScoresTyped DEF Goes, Below, Failed
  <2>3. (Takes(r, "write") \/ Takes(r, "release")) /\ faults' \in 0..MaxFaults
    <3>1. CASE run' = [run EXCEPT ![r].pc = "write", ![r].found = "", ![r].out = "generating"]
               /\ UNCHANGED faults
      BY <1>0, <1>p, <3>1, GoneTyped
    <3> QED BY <1>p, <1>g, <2>1, <3>1
  <2> QED BY <1>0, <1>6, <1>w, <2>2, <2>3 DEF Gate, StepWalks
<1>7. CASE WriteResume(r)
  <2>1. \/ Goes(r, "release", "failed", Failed(r, [by |-> r, of |-> "match"]))
        \/ /\ run' = [run EXCEPT ![r].pc = "pdf", ![r].out = "ready"] /\ UNCHANGED faults
           /\ row' = [row EXCEPT ![Sub(r)].status = "ready", ![Sub(r)].resume = r]
        \/ Goes(r, "release", "generating", FALSE)
    BY <1>7 DEF WriteResume
  <2>2. row' \in [Subs -> Row]
    <3>1. [row EXCEPT ![Sub(r)].status = "ready", ![Sub(r)].resume = r] \in [Subs -> Row]
      BY <1>0, <1>s DEF Row, Terminal
    <3> QED BY <1>0, <1>u, <1>p, <2>1, <3>1, ScoresTyped DEF Goes, Failed
  <2>3. (Takes(r, "pdf") \/ Takes(r, "release")) /\ faults' \in 0..MaxFaults
    BY <1>0, <1>p, <1>g, <2>1, DecidedTyped
  <2> QED BY <1>0, <1>7, <1>w, <2>2, <2>3 DEF WriteResume, StepWalks
<1>8. CASE KeepPdf(r)
  <2>1. row' \in [Subs -> Row]
    BY <1>8, <1>0, <1>s DEF KeepPdf, Row
  <2>2. Takes(r, "release")
    BY <1>8, <1>0, <1>p, ToTyped DEF KeepPdf
  <2> QED BY <1>8, <1>0, <1>w, <2>1, <2>2 DEF KeepPdf, StepWalks
<1>9. CASE Release(r)
  <2>1. Takes(r, "notify")
    BY <1>9, <1>0, <1>p, ToTyped DEF Release
  <2> QED BY <1>9, <1>0, <1>w, <2>1 DEF Release, StepWalks
<1>m. MailLost(r) => Takes(r, "close") /\ mail' \in [Subs -> Mail] /\ faults' \in 0..MaxFaults
  <2>1. Nothing \in Contents
    BY DEF Contents
  <2> SUFFICES ASSUME MailLost(r)
               PROVE  Takes(r, "close") /\ mail' \in [Subs -> Mail] /\ faults' \in 0..MaxFaults
    OBVIOUS
  <2>2. Takes(r, "close")
    BY <1>0, <2>1, ToldTyped DEF MailLost
  <2>3. mail' \in [Subs -> Mail]
    BY <1>0, <1>s DEF MailLost, Mail
  <2> QED BY <1>f, <2>2, <2>3 DEF MailLost
<1>10. CASE ReadOutcome(r)
  <2> DEFINE w == row[Sub(r)]
  <2>1. w.status \in Mailed => Shown(w) \in Contents
    BY <1>0, <1>s DEF Row, Shown, Outcome, Contents
  <2>2. \/ /\ w.status \in Mailed
           /\ run' = [run EXCEPT ![r].pc = "send", ![r].says = Shown(w), ![r].seen = Shown(w)]
           /\ UNCHANGED <<mail, faults>>
        \/ To(r, "close") /\ UNCHANGED <<mail, faults>>
        \/ MailLost(r)
    BY <1>10 DEF ReadOutcome, To
  <2>3. (\E pc \in Ends : Takes(r, pc)) /\ mail' \in [Subs -> Mail] /\ faults' \in 0..MaxFaults
    <3> HIDE DEF w
    <3> QED BY <1>0, <1>m, <1>p, <2>1, <2>2, ToldTyped, ToTyped DEF Ends
  <2> QED BY <1>10, <1>0, <2>3 DEF ReadOutcome, StepWalks, Ends
<1>13. CASE SendMail(r)
  <2>1. run[r].says \in Contents /\ Nothing \in Contents
    BY <1>0 DEF Run, Contents
  <2>2. \/ /\ Takes(r, "close") /\ UNCHANGED faults
           /\ mail' = [mail EXCEPT ![Sub(r)] =
                [says |-> run[r].says,
                 fate |-> IF run[r].seen = Shown(row[Sub(r)]) THEN "sent" ELSE "overtaken"]]
        \/ MailLost(r)
    BY <1>0, <1>13, <2>1, ToldTyped DEF SendMail
  <2>3. mail' \in [Subs -> Mail] /\ Takes(r, "close") /\ faults' \in 0..MaxFaults
    BY <1>0, <1>m, <1>s, <2>1, <2>2 DEF Mail, Contents
  <2> QED BY <1>13, <1>0, <2>3 DEF SendMail, StepWalks, Ends
<1>11. CASE Close(r)
  <2> DEFINE status == IF run[r].logged THEN run[r].out ELSE run[r].status
             lost == run[r].lost \cup {"statement"}
  <2>1. /\ run[r].logged \in BOOLEAN /\ status \in Statuses /\ lost \in Losses
    BY <1>0 DEF Run, Losses, Statuses, Terminal
  <2>2. \/ /\ run' = [run EXCEPT ![r].pc = "done", ![r].finished = run[r].logged,
                            ![r].status = status]
           /\ UNCHANGED faults
        \/ Fault /\ run' = [run EXCEPT ![r].pc = "done", ![r].lost = lost]
    BY <1>11 DEF Close
  <2>3. Takes(r, "done")
    <3> HIDE DEF status, lost
    <3>1. CASE run' = [run EXCEPT ![r].pc = "done", ![r].finished = run[r].logged,
                            ![r].status = status]
      BY <1>0, <2>1, <3>1, ClosedTyped
    <3>2. CASE run' = [run EXCEPT ![r].pc = "done", ![r].lost = lost]
      BY <1>0, <1>p, <2>1, <3>2, LosesTyped
    <3> QED BY <2>2, <3>1, <3>2
  <2> QED BY <1>0, <1>11, <1>f, <2>2, <2>3 DEF Close, StepWalks, Ends
<1> QED
  BY <1>1, <1>2, <1>3, <1>4, <1>5, <1>6, <1>7, <1>8, <1>9, <1>10, <1>11,
     <1>12, <1>13 DEF Step

\* A goroutine is started for a run there was not.
Spawns == \E r \in Runs : run[r].pc = "none" /\ Takes(r, "start")

\* A new goroutine is a run.
LEMMA SpawnedTyped ==
  ASSUME run \in [Runs -> Run], NEW s \in Subs, Spawned(s)
  PROVE  run' \in [Runs -> Run] /\ Spawns
<1>1. PICK r \in Runs : /\ run[r].pc = "none"
                        /\ run' = [run EXCEPT ![r].pc = "start", ![r].sub = s]
  BY DEF Spawned
<1> DEFINE a == [run[r] EXCEPT !.pc = "start"]
           b == [a EXCEPT !.sub = s]
<1>2. "start" \in Places
  BY DEF Places, Steps
<1>3. a \in Run /\ a.pc = "start"
  BY <1>2, RunFields, PcKept
<1>4. b \in Run /\ b.pc = "start"
  <2>1. b.pc = a.pc
    BY <1>3 DEF Run
  <2> QED BY <1>3, <2>1, RunFields
<1>5. run' = [run EXCEPT ![r] = b]
  BY <1>1
<1> HIDE DEF b
<1>6. Takes(r, "start")
  BY <1>4, <1>5, Replaced
<1> QED BY <1>1, <1>6 DEF Takes, Spawns

\* Requests keep the types.
LEMMA ServeTyped ==
  ASSUME JdTypeOK, NEW q \in Reqs, Serve(q)
  PROVE  JdTypeOK'
<1>0. /\ row \in [Subs -> Row] /\ run \in [Runs -> Run] /\ req \in [Reqs -> Request]
      /\ faults \in 0..MaxFaults
  BY DEF JdTypeOK
<1>1. Idle \in Request
  BY SomeSub DEF Idle, Request
<1>2. CASE Admit(q)
  <2>1. req' \in [Reqs -> Request]
    BY <1>0, <1>2 DEF Admit, Request
  <2> QED BY <1>2, <2>1 DEF Admit, JdTypeOK
<1>3. CASE Rescore(q)
  <2>1. req[q].sub \in Subs
    BY <1>0 DEF Request
  <2>2. row' \in [Subs -> Row]
    BY <1>0, <1>3, <2>1, ScoringTyped DEF Rescore, Live, Score, NoScore
  <2>3. run' \in [Runs -> Run]
    BY <1>0, <1>3, <2>1, SpawnedTyped DEF Rescore
  <2>4. req' \in [Reqs -> Request]
    BY <1>0, <1>1, <1>3 DEF Rescore
  <2> QED BY <1>3, <2>2, <2>3, <2>4 DEF Rescore, JdTypeOK
<1>4. CASE RescoreRefused(q)
  <2>1. req' \in [Reqs -> Request] /\ faults' \in 0..MaxFaults
    BY <1>0, <1>1, <1>4, FaultTyped DEF RescoreRefused
  <2> QED BY <1>4, <2>1 DEF RescoreRefused, JdTypeOK
<1>5. ASSUME NEW s \in Subs, Accept(q, s)
      PROVE  JdTypeOK'
  <2>1. row' \in [Subs -> Row]
    BY <1>0, <1>5 DEF Accept, Row, Live
  <2>2. run' \in [Runs -> Run]
    BY <1>0, <1>5, SpawnedTyped DEF Accept
  <2>3. req' \in [Reqs -> Request]
    BY <1>0, <1>1, <1>5 DEF Accept
  <2> QED BY <1>5, <2>1, <2>2, <2>3 DEF Accept, JdTypeOK
<1>6. ASSUME NEW s \in Subs, AskRescore(q, s)
      PROVE  JdTypeOK'
  <2>1. req' \in [Reqs -> Request]
    BY <1>0, <1>6 DEF AskRescore, Request
  <2> QED BY <1>6, <2>1 DEF AskRescore, JdTypeOK
<1> QED
  BY <1>2, <1>3, <1>4, <1>5, <1>6 DEF Serve

\* So does the end of the process.
LEMMA CrashTyped == JdTypeOK /\ Crash => JdTypeOK'
<1> SUFFICES ASSUME JdTypeOK, Crash PROVE JdTypeOK'
  OBVIOUS
<1>1. run' \in [Runs -> Run]
  <2>1. ASSUME NEW r \in Runs
        PROVE  /\ [run[r] EXCEPT !.pc = "done", !.found = "", !.says = Nothing,
                                  !.seen = Nothing] \in Run
               /\ run[r] \in Run
    <3> DEFINE a == [run[r] EXCEPT !.pc = "done"]
               b == [a EXCEPT !.found = ""]
               c == [b EXCEPT !.says = Nothing]
               d == [c EXCEPT !.seen = Nothing]
    <3>1. run[r] \in Run /\ "done" \in Places /\ "" \in Founds /\ Nothing \in Contents
      BY DEF JdTypeOK, Places, Founds, Contents
    <3>2. a \in Run
      BY <3>1, RunFields
    <3>3. b \in Run
      BY <3>1, <3>2, RunFields
    <3>4. c \in Run
      BY <3>1, <3>3, RunFields
    <3>5. d \in Run
      BY <3>1, <3>4, RunFields
    <3> QED BY <3>1, <3>5
  <2>2. \A r \in Runs : run'[r] \in Run
    BY <2>1 DEF Crash
  <2>3. run' = [r \in Runs |-> run'[r]]
    BY DEF Crash
  <2> QED BY <2>2, <2>3
<1>2. req' \in [Reqs -> Request]
  BY SomeSub DEF Crash, Idle, Request
<1>3. cut' \subseteq Subs
  <2>1. \A r \in Runs : run[r].sub \in Subs
    BY DEF JdTypeOK, Run
  <2>2. cut \subseteq Subs
    BY DEF JdTypeOK
  <2> QED BY <2>1, <2>2 DEF Crash, InFlight, Sub
<1>4. crashes' \in 0..MaxCrashes
  <2>1. crashes \in 0..MaxCrashes
    BY DEF JdTypeOK
  <2>2. crashes < MaxCrashes /\ crashes' = crashes + 1
    BY DEF Crash
  <2> QED BY <2>1, <2>2, JdAssumption
<1> QED
  BY <1>1, <1>2, <1>3, <1>4 DEF Crash, JdTypeOK

\* And its boot, which moves no run.
LEMMA BootTyped == JdTypeOK /\ Boot => JdTypeOK' /\ \A i \in Runs : run'[i].pc = run[i].pc
<1> SUFFICES ASSUME JdTypeOK, Boot PROVE JdTypeOK' /\ \A i \in Runs : run'[i].pc = run[i].pc
  OBVIOUS
<1>1. PICK rows \in BOOLEAN, records \in BOOLEAN :
        /\ IF rows /\ records THEN UNCHANGED faults ELSE Fault
        /\ row' = [s \in Subs |-> IF rows /\ StrandedRow(row[s])
                                  THEN [row[s] EXCEPT !.status = "failed"] ELSE row[s]]
        /\ run' = [r \in Runs |->
             [run[r] EXCEPT
                !.status = IF records /\ StrandedRun(run[r]) THEN "failed" ELSE @,
                !.finished = @ \/ (records /\ StrandedRun(run[r])),
                !.lost = IF run[r].pc = "none" THEN @
                         ELSE IF ~ (rows \/ ~ StrandedRow(row[Sub(r)]))
                                 \/ (StrandedRun(run[r]) /\ ~ records)
                         THEN @ \cup {"statement"}
                         ELSE IF "statement" \in @ THEN (@ \ {"statement"}) \cup {"earlier"}
                         ELSE @]]
  BY DEF Boot
<1>2. faults' \in 0..MaxFaults
  BY <1>1, FaultTyped DEF JdTypeOK
<1>3. row' \in [Subs -> Row]
  BY <1>1 DEF JdTypeOK, Row, Terminal
<1>4. run' \in [Runs -> Run] /\ \A i \in Runs : run'[i].pc = run[i].pc
  <2>1. ASSUME NEW r \in Runs
        PROVE  run'[r] \in Run /\ run'[r].pc = run[r].pc
    <3> DEFINE x == run[r]
               ended == records /\ StrandedRun(x)
               unswept == ~ (rows \/ ~ StrandedRow(row[Sub(r)])) \/ (StrandedRun(x) /\ ~ records)
               status == IF ended THEN "failed" ELSE x.status
               finished == x.finished \/ ended
               lost == IF x.pc = "none" THEN x.lost
                       ELSE IF unswept THEN x.lost \cup {"statement"}
                       ELSE IF "statement" \in x.lost
                       THEN (x.lost \ {"statement"}) \cup {"earlier"} ELSE x.lost
               a == [x EXCEPT !.status = status]
               b == [a EXCEPT !.finished = finished]
               c == [b EXCEPT !.lost = lost]
    <3>1. x \in Run
      BY DEF JdTypeOK
    <3>2. status \in Statuses
      <4> HIDE DEF ended
      <4> QED BY <3>1 DEF Run, Statuses, Terminal
    <3>3. finished \in BOOLEAN
      <4>1. x.finished \in BOOLEAN
        BY <3>1 DEF Run
      <4> QED OBVIOUS
    <3>4. lost \in Losses
      <4> HIDE DEF unswept
      <4> QED BY <3>1 DEF Run, Losses
    <3>5. run'[r] = c
      BY <1>1
    <3> HIDE DEF status, finished, lost
    <3>6. a \in Run /\ a.pc = x.pc
      BY <3>1, <3>2, RunFields, PcKept
    <3>7. b \in Run /\ b.pc = x.pc
      BY <3>3, <3>6, RunFields, PcKept
    <3>8. c \in Run /\ c.pc = x.pc
      BY <3>4, <3>7, RunFields, PcKept
    <3> QED BY <3>5, <3>8
  <2>2. run' = [r \in Runs |-> run'[r]]
    BY <1>1
  <2> QED BY <2>1, <2>2
<1>5. cut' \subseteq Subs
  BY DEF Boot, JdTypeOK
<1> QED
  BY <1>2, <1>3, <1>4, <1>5 DEF Boot, JdTypeOK

\* Type correctness: rows, records, mails and requests only ever hold what their
\* columns admit, whatever runs, faults and crashes interleave.
THEOREM JdTypeCorrect == JdSpec => []JdTypeOK
<1>1. JdTypeOK /\ [JdNext]_jdVars => JdTypeOK'
  <2> SUFFICES ASSUME JdTypeOK, [JdNext]_jdVars PROVE JdTypeOK'
    OBVIOUS
  <2>1. ASSUME NEW r \in Runs, Step(r) PROVE JdTypeOK'
    <3>1. /\ Moved /\ run' \in [Runs -> Run]
          /\ slots' \in {slots, slots \cup {r}, slots \ {r}}
      BY <2>1, StepTyped DEF StepWalks, Takes
    <3>2. UNCHANGED <<req, up, wired, cut, crashes>>
      BY <2>1 DEF Step, Start, MarkScoring, Acquire, GiveUp, Retrieve, Assess, Gate, WriteResume,
                  KeepPdf, Release, ReadOutcome, SendMail, Close, Rest
    <3> QED BY <3>1, <3>2 DEF Moved, JdTypeOK
  <2>2. CASE UNCHANGED jdVars
    BY <2>2 DEF jdVars, JdTypeOK
  <2> QED
    BY <2>1, <2>2, ServeTyped, CrashTyped, BootTyped DEF JdNext
<1> QED
  BY <1>1, InitTyped, PTL DEF JdSpec

-----------------------------------------------------------------------------
(* The slots *)

\* Where the runs and the slots are after a step of the system: one run has taken a
\* step or been started, all have died, or none has moved.
Moves ==
    \/ \E r \in Runs : StepWalks(r)
    \/ slots' = slots /\ Spawns
    \/ /\ slots' = {}
       /\ \A i \in Runs : run'[i].pc = IF run[i].pc \in Steps THEN "done" ELSE run[i].pc
    \/ slots' = slots /\ \A i \in Runs : run'[i].pc = run[i].pc

\* Nothing else moves a run or a slot.
LEMMA NextMoves ==
  ASSUME JdTypeOK, [JdNext]_jdVars
  PROVE  Moves
<1>0. run \in [Runs -> Run] /\ req \in [Reqs -> Request]
  BY DEF JdTypeOK
<1>1. CASE Crash
  <2>1. ASSUME NEW i \in Runs
        PROVE  run'[i].pc = IF run[i].pc \in Steps THEN "done" ELSE run[i].pc
    <3> DEFINE a == [run[i] EXCEPT !.pc = "done"]
    <3>1. a \in Run /\ a.pc = "done"
      BY <1>0, RunFields, PcKept DEF Places
    <3> DEFINE b == [a EXCEPT !.found = "", !.says = Nothing, !.seen = Nothing]
    <3>2. b.pc = "done"
      BY <3>1 DEF Run
    <3>3. run'[i] = IF run[i].pc \in Steps THEN b ELSE run[i]
      BY <1>1 DEF Crash, InFlight
    <3> HIDE DEF b
    <3> QED BY <3>2, <3>3
  <2> QED BY <1>1, <2>1 DEF Crash, Moves
<1>2. CASE Boot
  <2>1. ASSUME NEW i \in Runs
        PROVE  run'[i].pc = run[i].pc
    BY <1>2, BootTyped
  <2> QED BY <1>2, <2>1 DEF Boot, Moves
<1>3. ASSUME NEW q \in Reqs, Serve(q)
      PROVE  Moves
  <2>1. CASE Admit(q) \/ RescoreRefused(q) \/ \E s \in Subs : AskRescore(q, s)
    BY <2>1 DEF Admit, RescoreRefused, AskRescore, Moves
  <2>2. CASE Rescore(q)
    <3>1. req[q].sub \in Subs
      BY <1>0 DEF Request
    <3> QED BY <1>0, <2>2, <3>1, SpawnedTyped DEF Rescore, Moves
  <2>3. ASSUME NEW s \in Subs, Accept(q, s)
        PROVE  Moves
    BY <1>0, <2>3, SpawnedTyped DEF Accept, Moves
  <2> QED BY <1>3, <2>1, <2>2, <2>3 DEF Serve
<1>4. ASSUME NEW r \in Runs, Step(r)
      PROVE  Moves
  BY <1>4, StepTyped DEF Moves
<1>5. CASE UNCHANGED jdVars
  BY <1>5 DEF jdVars, Moves
<1> QED
  BY <1>1, <1>2, <1>3, <1>4, <1>5 DEF JdNext

\* A run holds a slot exactly while it is at work, and at most Slots do.
LEMMA SlotsKept ==
  ASSUME JdTypeOK, SlotsHeldByWorkers, Moves
  PROVE  SlotsHeldByWorkers'
<1>0. /\ slots = {i \in Runs : run[i].pc \in AtWork} /\ Cardinality(slots) <= Slots
      /\ IsFiniteSet(slots)
  <2>1. IsFiniteSet(Runs)
    BY JdAssumption, FS_Interval DEF Runs
  <2>2. IsFiniteSet(slots)
    BY <2>1, FS_Subset DEF JdTypeOK
  <2> QED BY <2>2 DEF SlotsHeldByWorkers
<1>c. Cardinality(slots) \in Nat /\ Slots \in Nat \ {0}
  BY <1>0, FS_CardinalityType, JdAssumption
<1>d. /\ {"retrieve"} \subseteq AtWork
      /\ \A pc \in {"none", "start", "mark", "queued", "notify", "send", "close", "done"} : pc \notin AtWork
  BY DEF AtWork
<1>1. ASSUME NEW r \in Runs, StepWalks(r)
      PROVE  SlotsHeldByWorkers'
  <2> USE DEF Takes, Walks
  <2>1. CASE /\ slots' = slots
             /\ \/ run[r].pc = "start" /\ Takes(r, "mark")
                \/ run[r].pc = "mark" /\ Takes(r, "queued")
    BY <1>0, <1>d, <2>1 DEF SlotsHeldByWorkers
  <2>2. CASE run[r].pc = "queued" /\ Takes(r, "notify") /\ slots' = slots
    BY <1>0, <1>d, <2>2 DEF SlotsHeldByWorkers
  <2>3. CASE /\ run[r].pc = "queued" /\ Takes(r, "retrieve")
             /\ Cardinality(slots) < Slots /\ slots' = slots \cup {r}
    <3>1. slots' = {i \in Runs : run'[i].pc \in AtWork}
      BY <1>0, <1>d, <2>3
    <3>2. r \notin slots
      BY <1>0, <1>d, <2>3
    <3>3. Cardinality(slots \cup {r}) = Cardinality(slots) + 1
      BY <1>0, <3>2, FS_AddElement
    <3>4. Cardinality(slots') <= Slots
      BY <1>c, <2>3, <3>3
    <3> QED BY <3>1, <3>4 DEF SlotsHeldByWorkers
  <2>4. CASE run[r].pc \in AtWork /\ (\E pc \in AtWork : Takes(r, pc)) /\ slots' = slots
    BY <1>0, <2>4 DEF SlotsHeldByWorkers
  <2>5. CASE run[r].pc \in AtWork /\ Takes(r, "notify") /\ slots' = slots \ {r}
    <3>1. slots' = {i \in Runs : run'[i].pc \in AtWork}
      BY <1>0, <1>d, <2>5
    <3>2. Cardinality(slots') <= Slots
      BY <1>0, <1>c, <2>5, FS_RemoveElement
    <3> QED BY <3>1, <3>2 DEF SlotsHeldByWorkers
  <2>6. CASE run[r].pc \in Ends /\ (\E pc \in Ends : Takes(r, pc)) /\ slots' = slots
    BY <1>0, <1>d, <2>6 DEF SlotsHeldByWorkers, Ends
  <2> QED BY <1>1, <2>1, <2>2, <2>3, <2>4, <2>5, <2>6 DEF StepWalks
<1>2. CASE slots' = slots /\ Spawns
  BY <1>0, <1>d, <1>2 DEF SlotsHeldByWorkers, Spawns, Takes, Walks
<1>3. CASE /\ slots' = {}
           /\ \A i \in Runs : run'[i].pc = IF run[i].pc \in Steps THEN "done" ELSE run[i].pc
  <2>1. AtWork \subseteq Steps
    BY DEF Steps
  <2>2. Cardinality({}) = 0
    BY FS_EmptySet
  <2> QED BY <1>c, <1>d, <1>3, <2>1, <2>2 DEF SlotsHeldByWorkers
<1>4. CASE slots' = slots /\ \A i \in Runs : run'[i].pc = run[i].pc
  BY <1>0, <1>4 DEF SlotsHeldByWorkers
<1> QED
  BY <1>1, <1>2, <1>3, <1>4 DEF Moves

\* No way out of scoreAndPersist keeps a slot and none gives back another's: for any
\* number of runs and slots, whatever fails and whenever the api stops, the slots are
\* held by exactly the runs at work, and no more than Slots of them.
THEOREM SlotsHeld == JdSpec => []SlotsHeldByWorkers
<1>1. JdInit => SlotsHeldByWorkers
  <2>1. "none" \notin AtWork
    BY DEF AtWork
  <2>2. Cardinality({}) = 0 /\ 0 <= Slots
    BY FS_EmptySet, JdAssumption
  <2>3. NotRun.pc = "none"
    BY DEF NotRun
  <2>4. JdInit => slots = {} /\ \A r \in Runs : run[r].pc = "none"
    BY <2>3 DEF JdInit
  <2> QED BY <2>1, <2>2, <2>4 DEF SlotsHeldByWorkers
<1>2. JdTypeOK /\ SlotsHeldByWorkers /\ [JdNext]_jdVars => SlotsHeldByWorkers'
  BY NextMoves, SlotsKept
<1> QED
  BY <1>1, <1>2, JdTypeCorrect, PTL DEF JdSpec

-----------------------------------------------------------------------------
(* The line for the slots *)

\* What SlotLine sees of the pipeline.
Waiting == {r \in InFlight : run[r].pc \in {"start", "mark", "queued"}}
Working == {r \in Runs : run[r].pc \in AtWork}
Over    == {r \in Runs : run[r].pc \in Ends}

\* The line moves as SlotLine lets it, or not at all.
LineMoves ==
    \/ UNCHANGED <<Waiting, Working, Over>>
    \/ Waiting' = {} /\ Working' = {} /\ Over' = Over \cup Waiting \cup Working
    \/ \E r \in Runs :
         \/ /\ r \notin Waiting \cup Working \cup Over
            /\ Waiting' = Waiting \cup {r} /\ UNCHANGED <<Working, Over>>
         \/ /\ r \in Waiting /\ Cardinality(Working) < Slots
            /\ Waiting' = Waiting \ {r} /\ Working' = Working \cup {r} /\ UNCHANGED Over
         \/ /\ r \in Waiting \cup Working
            /\ Waiting' = Waiting \ {r} /\ Working' = Working \ {r} /\ Over' = Over \cup {r}

\* Every step of the system is a step of the line, or leaves the line alone.
LEMMA LineStep ==
  ASSUME JdTypeOK, SlotsHeldByWorkers, Moves
  PROVE  LineMoves
<1>w. /\ Waiting = {r \in Runs : run[r].pc \in {"start", "mark", "queued"}}
      /\ Waiting' = {r \in Runs : run'[r].pc \in {"start", "mark", "queued"}}
  BY DEF Waiting, InFlight, Steps
<1>o. /\ Working = {r \in Runs : run[r].pc \in AtWork}
      /\ Over = {r \in Runs : run[r].pc \in Ends}
      /\ Working' = {r \in Runs : run'[r].pc \in AtWork}
      /\ Over' = {r \in Runs : run'[r].pc \in Ends}
  BY DEF Working, Over
<1>d. /\ \A pc \in AtWork : pc \notin {"none", "start", "mark", "queued"} \cup Ends
      /\ "retrieve" \in AtWork /\ {"notify", "done"} \subseteq Ends
      /\ \A pc \in {"none", "start", "mark", "queued"} : pc \notin Ends \cup AtWork
      /\ \A pc \in Ends : pc \notin {"none", "start", "mark", "queued"} \cup AtWork
  BY DEF AtWork, Ends
<1>1. ASSUME NEW r \in Runs, StepWalks(r)
      PROVE  LineMoves
  <2> USE DEF Takes, Walks
  <2>1. CASE \/ run[r].pc = "start" /\ Takes(r, "mark")
             \/ run[r].pc = "mark" /\ Takes(r, "queued")
    <3>1. UNCHANGED <<Waiting, Working, Over>>
      BY <1>w, <1>o, <1>d, <2>1
    <3> QED BY <3>1 DEF LineMoves
  <2>2. CASE run[r].pc = "queued" /\ Takes(r, "notify")
    <3>1. /\ r \in Waiting \cup Working
          /\ Waiting' = Waiting \ {r} /\ Working' = Working \ {r} /\ Over' = Over \cup {r}
      BY <1>w, <1>o, <1>d, <2>2
    <3> QED BY <3>1 DEF LineMoves
  <2>3. CASE run[r].pc = "queued" /\ Takes(r, "retrieve") /\ Cardinality(slots) < Slots
    <3>1. Working = slots
      BY DEF Working, SlotsHeldByWorkers
    <3>2. /\ r \in Waiting
          /\ Waiting' = Waiting \ {r} /\ Working' = Working \cup {r} /\ UNCHANGED Over
      BY <1>w, <1>o, <1>d, <2>3
    <3> QED BY <2>3, <3>1, <3>2 DEF LineMoves
  <2>4. CASE run[r].pc \in AtWork /\ \E pc \in AtWork : Takes(r, pc)
    <3>1. UNCHANGED <<Waiting, Working, Over>>
      BY <1>w, <1>o, <1>d, <2>4
    <3> QED BY <3>1 DEF LineMoves
  <2>5. CASE run[r].pc \in AtWork /\ Takes(r, "notify")
    <3>1. /\ r \in Waiting \cup Working
          /\ Waiting' = Waiting \ {r} /\ Working' = Working \ {r} /\ Over' = Over \cup {r}
      BY <1>w, <1>o, <1>d, <2>5
    <3> QED BY <3>1 DEF LineMoves
  <2>6. CASE run[r].pc \in Ends /\ \E pc \in Ends : Takes(r, pc)
    <3>1. UNCHANGED <<Waiting, Working, Over>>
      BY <1>w, <1>o, <1>d, <2>6
    <3> QED BY <3>1 DEF LineMoves
  <2> QED BY <1>1, <2>1, <2>2, <2>3, <2>4, <2>5, <2>6 DEF StepWalks
<1>2. CASE Spawns
  <2>1. PICK r \in Runs : run[r].pc = "none" /\ Takes(r, "start")
    BY <1>2 DEF Spawns
  <2>2. /\ r \notin Waiting \cup Working \cup Over
        /\ Waiting' = Waiting \cup {r} /\ UNCHANGED <<Working, Over>>
    BY <1>w, <1>o, <1>d, <2>1 DEF Takes, Walks
  <2> QED BY <2>2 DEF LineMoves
<1>3. CASE \A i \in Runs : run'[i].pc = IF run[i].pc \in Steps THEN "done" ELSE run[i].pc
  <2>1. /\ \A pc \in Steps : pc \in {"start", "mark", "queued"} \cup AtWork \cup Ends
        /\ {"start", "mark", "queued"} \cup AtWork \subseteq Steps
        /\ \A pc \in Ends : pc \in Steps \/ pc = "done"
    BY DEF Steps, Ends
  <2>2. Waiting' = {} /\ Working' = {}
    BY <1>w, <1>o, <1>d, <1>3, <2>1
  <2>3. Over' = Over \cup Waiting \cup Working
    BY <1>w, <1>o, <1>d, <1>3, <2>1
  <2> QED BY <2>2, <2>3 DEF LineMoves
<1>4. CASE \A i \in Runs : run'[i].pc = run[i].pc
  <2>1. UNCHANGED <<Waiting, Working, Over>>
    BY <1>w, <1>o, <1>4
  <2> QED BY <2>1 DEF LineMoves
<1> QED
  BY <1>1, <1>2, <1>3, <1>4 DEF Moves

\* The pipeline implements the safety of the line: runs join it once, at most Slots
\* work at a time, and a run that is over never works again.
THEOREM LineKept == JdSpec => Line!LineInit /\ [][Line!LineNext]_(Line!lineVars)
<1>1. JdInit => Line!LineInit
  <2> SUFFICES ASSUME JdInit PROVE Line!LineInit
    OBVIOUS
  <2>1. NotRun.pc = "none"
    BY DEF NotRun
  <2>2. \A r \in Runs : run[r].pc = "none"
    BY <2>1 DEF JdInit
  <2>3. "none" \notin AtWork
    BY DEF AtWork
  <2> QED BY <2>2, <2>3 DEF Line!LineInit, InFlight
<1>2. JdTypeOK /\ SlotsHeldByWorkers /\ [JdNext]_jdVars => [Line!LineNext]_(Line!lineVars)
  <2> SUFFICES ASSUME JdTypeOK, SlotsHeldByWorkers, [JdNext]_jdVars
               PROVE  [Line!LineNext]_(Line!lineVars)
    OBVIOUS
  <2>1. LineMoves
    BY NextMoves, LineStep
  <2>2. \A S : Line!Cardinality(S) = Cardinality(S)
    BY DEF Cardinality, Line!Cardinality
  <2>3. CASE UNCHANGED <<Waiting, Working, Over>>
    BY <2>3 DEF Waiting, Working, Over, Ends, Line!lineVars
  <2>4. CASE Waiting' = {} /\ Working' = {} /\ Over' = Over \cup Waiting \cup Working
    BY <2>4 DEF Waiting, Working, Over, Ends, Line!LineNext, Line!Collapse
  <2>5. ASSUME NEW r \in Runs,
               /\ r \notin Waiting \cup Working \cup Over
               /\ Waiting' = Waiting \cup {r} /\ UNCHANGED <<Working, Over>>
        PROVE  Line!Join(r)
    BY <2>5 DEF Waiting, Working, Over, Ends, Line!Join
  <2>6. ASSUME NEW r \in Runs,
               /\ r \in Waiting /\ Cardinality(Working) < Slots
               /\ Waiting' = Waiting \ {r} /\ Working' = Working \cup {r} /\ UNCHANGED Over
        PROVE  Line!Begin(r)
    BY <2>2, <2>6 DEF Waiting, Working, Over, Ends, Line!Begin
  <2>7. ASSUME NEW r \in Runs,
               /\ r \in Waiting \cup Working
               /\ Waiting' = Waiting \ {r} /\ Working' = Working \ {r}
               /\ Over' = Over \cup {r}
        PROVE  Line!Leave(r)
    BY <2>7 DEF Waiting, Working, Over, Ends, Line!Leave
  <2> QED
    BY <2>1, <2>3, <2>4, <2>5, <2>6, <2>7 DEF LineMoves, Line!LineNext
<1> QED
  BY <1>1, <1>2, JdTypeCorrect, SlotsHeld, PTL DEF JdSpec
=============================================================================
