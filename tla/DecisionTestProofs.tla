------------------------- MODULE DecisionTestProofs -------------------------
(***************************************************************************)
(* Theorems about DecisionTest, for any sessions, bank, blocks and bounds. *)
(***************************************************************************)
EXTENDS DecisionTest, TLAPS

-----------------------------------------------------------------------------
(* The invariant *)

\* A session whose draw is committed.
Underway(s) == row[s].status \in {"running", "completed"}

\* A call, and a queued write, name a question or a block of the test and carry
\* what an RPC of their kind carries; the queue resends nothing else.
CallOK(c) ==
    /\ c \in Call
    /\ c.op = "answer" => c.n \in Positions /\ c.val \in Answers
    /\ c.op \in {"recall", "fetch"} => c.n \in Blocks /\ c.val = ""
    /\ c.op = "finish" => c.val \in Strategies \cup {""}
    /\ c.by = "retry" => c.op \in {"answer", "recall"}

WriteOK(w) ==
    /\ w \in Write
    /\ w.op = "answer" => w.n \in Positions /\ w.val \in Answers
    /\ w.op = "recall" => w.n \in Blocks /\ w.val = ""

QueueOK(q) == q \in Seq(Write) /\ \A i \in 1..Len(q) : WriteOK(q[i])

\* The screen stands on a question or a block that exists, while an answer of its
\* own is awaited too.
ScreenOK ==
    /\ \A s \in Sessions :
          /\ tab[s].phase = "question" => tab[s].pos \in Positions /\ tab[s].block \in Blocks
          /\ tab[s].phase = "recall" => tab[s].block \in Blocks
    /\ \A c \in calls :
          c.op = "answer" /\ c.by \in {"press", "timer"} => tab[c.s].block \in Blocks

\* Nothing is called, shown, queued or answered for a session before its draw is
\* committed.
NothingBefore ==
    /\ \A c \in calls : Underway(c.s)
    /\ \A s \in Sessions :
          ~ Underway(s) =>
             /\ tab[s].phase = "closed" /\ queue[s] = << >> /\ fired[s] = {}
             /\ \A p \in Positions : ~ Answered(s, p)

\* Every position of a committed draw holds an item.
DrawsComplete == \A s \in Sessions : Underway(s) => drawn[s] \in [Positions -> Items]

\* What the api has acknowledged is stored; a page that has gone waits for nothing.
LossInv ==
    /\ \A c \in calls : c.op = "answer" /\ c.srv = "ok" => Answered(c.s, c.n)
    /\ \A s \in Sessions :
          tab[s].phase = "gone" => queue[s] = << >> /\ \A c \in calls : c.s = s => ~ c.open
    /\ NoSilentLoss

\* While a draw is being made, it excludes what the sittings committed before it
\* were given; those are other sittings, and they stay committed.
RepeatInv ==
    /\ \A s \in Sessions : row[s].status = "none" /\ refused[s] = 0 => before[s] = {}
    /\ \A s \in Sessions : \A t \in before[s] :
          /\ t # s /\ Underway(t)
          /\ row[s].status = "starting" => Given({t}) \subseteq starting[s]
    /\ RepeatDrawsUnseen

\* A completed session has its end time.
EndTimed == \A s \in Sessions : row[s].status = "completed" => row[s].finishedAt # 0

-----------------------------------------------------------------------------
(* Types *)

RowType == [status : {"none", "starting", "running", "completed"},
            visitor : Visitors \cup {NoVisitor}, synthetic : BOOLEAN,
            strategy : Strategies \cup {""}, finishes : Nat, finishedAt : Nat]
AnswerType == [item : Items \cup {NoItem}, outcome : Answers \cup {"none"}, confidence : Nat]
RecallType == [digits : Nat, outcome : {"none", "expired", "exact", "wrong_digits"}]
TabType    == [phase : Phases, block : Nat, pos : Nat, digits : Nat]

ServedOK ==
    /\ row \in [Sessions -> RowType]
    /\ drawn \in [Sessions -> [Positions -> Items \cup {NoItem}]]
    /\ answers \in [Sessions -> [Positions -> AnswerType]]
    /\ recalls \in [Sessions -> [Blocks -> RecallType]]
DrawsOK ==
    /\ starting \in [Sessions -> SUBSET Items]
    /\ before \in [Sessions -> SUBSET Sessions]
    /\ refused \in [Sessions -> Nat]
CallsOK == \A c \in calls : CallOK(c)
BrowserOK ==
    /\ tab \in [Sessions -> TabType]
    /\ queue \in [Sessions -> Seq(Write)] /\ \A s \in Sessions : QueueOK(queue[s])
    /\ fired \in [Sessions -> SUBSET ({"answer", "recall"} \X Nat \X {"press", "timer"})]
    /\ gaveUp \in [Sessions -> SUBSET ({"answer", "recall"} \X Nat)]
    /\ faults \in Nat

TypeInv ==
    /\ ServedOK /\ DrawsOK /\ CallsOK /\ BrowserOK
    /\ ScreenOK /\ NothingBefore /\ DrawsComplete

\* The inductive invariant holds every table and field to its type.
LEMMA TypeInvTypes == TypeInv => TypeOK
<1> SUFFICES ASSUME TypeInv PROVE TypeOK
  OBVIOUS
<1>1. \A c \in calls : c \in Call /\ (c.op = "fetch" => c.n \in Blocks)
  BY DEF TypeInv, CallsOK, CallOK
<1> QED
  BY <1>1 DEF TypeInv, TypeOK, ServedOK, DrawsOK, BrowserOK, RowType, AnswerType, RecallType,
              TabType

\* The numbering of questions: a block has at least one, its first question and
\* those after it exist, and so does the block.
LEMMA Numbering ==
  /\ PerBlock \in Nat /\ PerBlock >= 1 /\ BlockCount \in Nat /\ BlockCount >= 1
  /\ Positions \subseteq Nat /\ Blocks \subseteq Nat /\ 1 \in Blocks
  /\ \A b \in Blocks : First(b) \in Positions
  /\ \A b \in Blocks, p \in Positions :
        SlotOf(p) < PerBlock => First(b) + SlotOf(p) \in Positions
<1>1. PerBlock \in Nat /\ PerBlock >= 1 /\ BlockCount \in Nat /\ BlockCount >= 1
  BY BankAssumption DEF PerBlock
<1>2. \A b \in Blocks, k \in 0..(PerBlock - 1) : First(b) + k \in Positions
  <2> SUFFICES ASSUME NEW b \in Blocks, NEW k \in 0..(PerBlock - 1)
               PROVE  First(b) + k \in Positions
    OBVIOUS
  <2>1. b \in Nat /\ 1 <= b /\ b <= BlockCount
    BY <1>1 DEF Blocks
  <2>2. (b - 1) * PerBlock \in Nat
    BY <1>1, <2>1
  <2>3. (b - 1) * PerBlock + PerBlock <= BlockCount * PerBlock
    BY <1>1, <2>1
  <2> QED BY <1>1, <2>1, <2>2, <2>3 DEF First, Positions
<1>3. \A b \in Blocks : First(b) \in Positions
  <2> SUFFICES ASSUME NEW b \in Blocks PROVE First(b) \in Positions
    OBVIOUS
  <2>1. First(b) + 0 \in Positions /\ First(b) \in Int
    BY <1>1, <1>2 DEF Blocks, First
  <2> QED BY <2>1
<1>4. \A p \in Positions : SlotOf(p) >= 1 /\ SlotOf(p) \in Nat
  <2> SUFFICES ASSUME NEW p \in Positions PROVE SlotOf(p) >= 1 /\ SlotOf(p) \in Nat
    OBVIOUS
  <2>1. (p - 1) % PerBlock \in 0..(PerBlock - 1)
    BY <1>1 DEF Positions
  <2> QED BY <1>1, <2>1 DEF SlotOf
<1> QED BY <1>1, <1>2, <1>3, <1>4 DEF Positions, Blocks

\* A queue stays one when a write is appended or its head removed.
LEMMA QueueAppend ==
  ASSUME NEW q, QueueOK(q), NEW w, WriteOK(w)
  PROVE  /\ QueueOK(Append(q, w))
         /\ \A i \in DOMAIN q : i \in DOMAIN Append(q, w) /\ Append(q, w)[i] = q[i]
         /\ \E i \in DOMAIN Append(q, w) : Append(q, w)[i] = w
<1> DEFINE W == Write
<1>0. q \in Seq(W) /\ w \in W /\ \A i \in 1..Len(q) : q[i] \in W
  BY DEF QueueOK, WriteOK
<1> HIDE DEF W
<1>1. Len(q) \in Nat /\ DOMAIN q = 1..Len(q)
  BY <1>0
<1>2. /\ Append(q, w) \in Seq(W) /\ Len(Append(q, w)) = Len(q) + 1
      /\ DOMAIN Append(q, w) = 1..(Len(q) + 1)
      /\ Append(q, w)[Len(q) + 1] = w
      /\ \A i \in 1..Len(q) : Append(q, w)[i] = q[i]
  BY <1>0, <1>1
<1> QED BY <1>0, <1>1, <1>2 DEF QueueOK, W

\* ... and when its head is taken, the rest moves up by one.
LEMMA QueueTail ==
  ASSUME NEW q, QueueOK(q), q # << >>
  PROVE  /\ QueueOK(Tail(q)) /\ WriteOK(Head(q)) /\ Head(q) = q[1]
         /\ \A i \in DOMAIN q : i = 1 \/ (i - 1 \in DOMAIN Tail(q) /\ Tail(q)[i - 1] = q[i])
<1> DEFINE W == Write
<1>0. q \in Seq(W)
  BY DEF QueueOK
<1> HIDE DEF W
<1>1. Len(q) \in Nat /\ Len(q) >= 1 /\ DOMAIN q = 1..Len(q)
  BY <1>0
<1>2. /\ Tail(q) \in Seq(W) /\ Len(Tail(q)) = Len(q) - 1 /\ DOMAIN Tail(q) = 1..(Len(q) - 1)
      /\ \A i \in 1..(Len(q) - 1) : Tail(q)[i] = q[i + 1]
      /\ Head(q) = q[1]
  BY <1>0, <1>1
<1> QED BY <1>0, <1>1, <1>2 DEF QueueOK, W

-----------------------------------------------------------------------------
(* Calls *)

\* d is a later state of the call c; `new` are calls the step sends besides.
Same(c, d) ==
    /\ d.s = c.s /\ d.op = c.op /\ d.n = c.n /\ d.by = c.by
    /\ d.val = c.val /\ d.num = c.num /\ d.tries = c.tries

Becomes(c, d, new) ==
    /\ Same(c, d) /\ CallOK(d)
    /\ \A e \in calls' : e \in calls \/ e = d \/ e \in new
    /\ \A e \in calls : e # c => e \in calls'
    /\ d.open => d \in calls'

\* A step that moves a call replaces it, or drops one that is over and forgotten.
LEMMA MovedBecomes ==
  ASSUME NEW c, NEW d, Same(c, d), CallOK(d), NEW new, calls' = Moved(c, d) \cup new
  PROVE  Becomes(c, d, new)
  BY DEF Becomes, Moved

\* What the api writes into a call: its stage, what it read, or both.
LEMMA StageWritten ==
  ASSUME NEW c, CallOK(c), NEW stage \in {"sent", "admitted", "ok", "refused", "lost"},
         NEW d, d = [c EXCEPT !.srv = stage]
  PROVE  CallOK(d) /\ Same(c, d) /\ d.srv = stage /\ d.open = c.open
  BY DEF CallOK, Call, Same

\* The digits it read; or what it served, with the stage.
LEMMA GotWritten ==
  ASSUME NEW c, CallOK(c), NEW got \in Nat, NEW d, d = [c EXCEPT !.got = got]
  PROVE  CallOK(d) /\ Same(c, d) /\ d.srv = c.srv /\ d.open = c.open
  BY DEF CallOK, Call, Same

\* Both, when a block is served.
LEMMA ServedWritten ==
  ASSUME NEW c, CallOK(c), NEW got \in Nat, NEW d, d = [c EXCEPT !.srv = "ok", !.got = got]
  PROVE  CallOK(d) /\ Same(c, d) /\ d.srv = "ok" /\ d.open = c.open
  BY DEF CallOK, Call, Same

\* The browser forgets a call.
LEMMA OpenWritten ==
  ASSUME NEW c, CallOK(c), NEW d, d = [c EXCEPT !.open = FALSE]
  PROVE  CallOK(d) /\ Same(c, d) /\ d.srv = c.srv /\ d.open = FALSE
  BY DEF CallOK, Call, Same

\* The fields of a call that leaves the browser, and of one that is resent.
LEMMA Sent ==
  ASSUME NEW s \in Sessions, NEW op \in {"answer", "recall", "fetch", "finish"},
         NEW n \in Nat, NEW by \in {"press", "timer", "retry", "beacon", "debrief"},
         NEW val \in Answers \cup Strategies \cup {""}, NEW num \in Nat,
         NEW c, c = Send(s, op, n, by, val, num)
  PROVE  /\ c \in Call /\ c.s = s /\ c.op = op /\ c.n = n /\ c.by = by /\ c.val = val
         /\ c.num = num /\ c.srv = "sent" /\ c.open = TRUE
  BY DEF Send, Call

Retry(s, w)  == [Send(s, w.op, w.n, "retry", w.val, w.num) EXCEPT !.tries = w.tries]

\* A resent write is a call of the queue; a beacon is one nobody waits for.
LEMMA Resent ==
  ASSUME NEW s \in Sessions, NEW w, WriteOK(w), NEW c, c = Retry(s, w)
  PROVE  /\ CallOK(c) /\ c.s = s /\ c.op = w.op /\ c.n = w.n /\ c.by = "retry"
         /\ c.srv = "sent" /\ c.open
<1> DEFINE d == Send(s, w.op, w.n, "retry", w.val, w.num)
<1>1. /\ w.op \in {"answer", "recall"} /\ w.n \in Nat /\ w.val \in Answers \cup {""}
      /\ w.num \in Nat /\ w.tries \in Nat
      /\ w.op \in {"answer", "recall", "fetch", "finish"}
      /\ w.val \in Answers \cup Strategies \cup {""}
  BY DEF WriteOK, Write
<1>2. /\ d \in Call /\ d.s = s /\ d.op = w.op /\ d.n = w.n /\ d.by = "retry" /\ d.val = w.val
      /\ d.srv = "sent" /\ d.open = TRUE
  BY <1>1 DEF Send, Call
<1> HIDE DEF d
<1>3. c = [d EXCEPT !.tries = w.tries]
  BY DEF d, Retry
<1>4. /\ c \in Call /\ c.s = s /\ c.op = w.op /\ c.n = w.n /\ c.by = "retry" /\ c.val = w.val
      /\ c.srv = "sent" /\ c.open = TRUE
  BY <1>1, <1>2, <1>3 DEF Call
<1> QED BY <1>1, <1>4 DEF WriteOK, CallOK

\* A beacon carries what was queued, and is already forgotten.
LEMMA Beaconed ==
  ASSUME NEW s \in Sessions, NEW w, WriteOK(w)
  PROVE  /\ CallOK(Beacon(s, w)) /\ Beacon(s, w).s = s /\ Beacon(s, w).by = "beacon"
         /\ Beacon(s, w).srv = "sent" /\ Beacon(s, w).open = FALSE
<1> DEFINE d == Send(s, w.op, w.n, "beacon", w.val, w.num)
<1>1. /\ w.op \in {"answer", "recall"} /\ w.n \in Nat /\ w.val \in Answers \cup {""}
      /\ w.num \in Nat
      /\ w.op \in {"answer", "recall", "fetch", "finish"}
      /\ w.val \in Answers \cup Strategies \cup {""}
  BY DEF WriteOK, Write
<1>2. /\ d \in Call /\ d.s = s /\ d.op = w.op /\ d.n = w.n /\ d.by = "beacon" /\ d.val = w.val
      /\ d.srv = "sent"
  BY <1>1 DEF Send, Call
<1> HIDE DEF d
<1> DEFINE c == Beacon(s, w)
<1>3. c = [d EXCEPT !.open = FALSE]
  BY DEF d, Beacon
<1> HIDE DEF c
<1>4. /\ c \in Call /\ c.s = s /\ c.op = w.op /\ c.n = w.n /\ c.by = "beacon" /\ c.val = w.val
      /\ c.srv = "sent" /\ c.open = FALSE
  BY <1>2, <1>3 DEF Call
<1>5. CallOK(c)
  BY <1>1, <1>4 DEF WriteOK, CallOK
<1> QED BY <1>4, <1>5 DEF c

\* A write that failed keeps its payload in the queue.
LEMMA WrittenTyped ==
  ASSUME NEW c, CallOK(c), c.op \in {"answer", "recall"}
  PROVE  /\ WriteOK(Written(c)) /\ Written(c).op = c.op /\ Written(c).n = c.n
         /\ LET w == [Written(c) EXCEPT !.tries = 0]
            IN  WriteOK(w) /\ w.op = c.op /\ w.n = c.n
<1> DEFINE v == Written(c)
           w == [v EXCEPT !.tries = 0]
<1>0. c.n \in Nat /\ c.num \in Nat /\ c.tries \in Nat
  BY DEF CallOK, Call
<1>n. ASSUME NEW n \in Nat PROVE n + 1 \in Nat
  OBVIOUS
<1>t. c.tries + 1 \in Nat
  BY <1>0, <1>n
<1>1. /\ c.op \in {"answer", "recall"} /\ c.n \in Nat /\ c.num \in Nat /\ c.tries + 1 \in Nat
      /\ c.op = "answer" => c.n \in Positions /\ c.val \in Answers
      /\ c.op = "recall" => c.n \in Blocks /\ c.val = ""
  BY <1>0, <1>t DEF CallOK
<1>2. c.val \in Answers \cup {""}
  BY <1>1
<1>3. /\ v \in Write /\ v.op = c.op /\ v.n = c.n /\ v.val = c.val
  BY <1>1, <1>2 DEF Write, Written
<1> HIDE DEF v
<1>4. /\ w \in Write /\ w.op = c.op /\ w.n = c.n /\ w.val = c.val
  BY <1>3 DEF Write
<1> HIDE DEF w
<1>5. WriteOK(v) /\ WriteOK(w)
  BY <1>1, <1>3, <1>4 DEF WriteOK
<1> QED BY <1>3, <1>4, <1>5 DEF v, w

-----------------------------------------------------------------------------
(* The shape of a step of the api *)

\* The one session, and the one answer, that a step of call c writes: a status
\* only becomes completed, an answer is stored once, with its own item.
RowsGo(c) ==
    /\ row' \in [Sessions -> RowType]
    /\ \A s \in Sessions :
          \/ row'[s] = row[s]
          \/ /\ s = c.s /\ Underway(s) /\ row'[s].status = "completed"
             /\ row'[s].finishedAt = IF row[s].finishedAt = 0 THEN row[s].finishes + 1
                                                             ELSE row[s].finishedAt
             /\ row'[s].strategy = "" => row[s].strategy = ""

AnswersGo(c) ==
    /\ answers' \in [Sessions -> [Positions -> AnswerType]]
    /\ \A s \in Sessions, p \in Positions :
          \/ answers'[s][p] = answers[s][p]
          \/ ~ Answered(s, p) /\ s = c.s /\ answers'[s][p].item = drawn[s][p]

ApiShape(c) ==
    /\ \E d : /\ Becomes(c, d, {}) /\ d.open = c.open
              /\ d.op = "answer" /\ d.srv = "ok" => answers'[d.s][d.n].outcome # "none"
    /\ RowsGo(c) /\ AnswersGo(c)
    /\ recalls' \in [Sessions -> [Blocks -> RecallType]]
    /\ drawn' = drawn /\ draws' = draws /\ browser' = browser /\ faults' \in Nat

\* A step that leaves the tables alone.
LEMMA TablesStay ==
  ASSUME ServedOK, NEW c, UNCHANGED served
  PROVE  RowsGo(c) /\ AnswersGo(c) /\ recalls' \in [Sessions -> [Blocks -> RecallType]]
         /\ drawn' = drawn
  BY DEF ServedOK, RowsGo, AnswersGo, served

\* What the type invariant says of one call.
LEMMA CallFacts ==
  ASSUME TypeInv, NEW c \in calls
  PROVE  /\ CallOK(c) /\ c \in Call /\ c.s \in Sessions /\ c.n \in Nat /\ c.num \in Nat
         /\ Underway(c.s) /\ ServedOK /\ faults \in Nat
         /\ c.op = "answer" => c.n \in Positions /\ c.val \in Answers
         /\ c.op \in {"recall", "fetch"} => c.n \in Blocks
  BY DEF TypeInv, CallsOK, CallOK, Call, NothingBefore, BrowserOK

\* Each step of the api has this shape.
LEMMA AdmitShape ==
  ASSUME TypeInv, NEW c \in calls, Admit(c)
  PROVE  ApiShape(c)
<1> DEFINE open == IF c.op = "finish" THEN {"running", "completed"} ELSE {"running"}
           stage == IF row[c.s].status \in open THEN "admitted" ELSE "refused"
           d == [c EXCEPT !.srv = stage]
<1>1. calls' = Moved(c, d) /\ UNCHANGED <<served, draws, browser, faults>>
  BY DEF Admit, Step
<1>2. stage \in {"admitted", "refused"}
  OBVIOUS
<1> HIDE DEF stage
<1>3. CallOK(d) /\ Same(c, d) /\ d.srv = stage /\ d.open = c.open
  BY <1>2, StageWritten, CallFacts
<1> HIDE DEF d
<1>4. Becomes(c, d, {})
  BY <1>1, <1>3, MovedBecomes
<1> QED BY <1>1, <1>2, <1>3, <1>4, TablesStay, CallFacts DEF ApiShape

\* A lost request ends with nothing written.
LEMMA LoseShape ==
  ASSUME TypeInv, NEW c \in calls, Lose(c)
  PROVE  ApiShape(c)
<1> DEFINE d == [c EXCEPT !.srv = "lost"]
<1>1. calls' = Moved(c, d) /\ UNCHANGED <<served, draws, browser>> /\ faults' = faults + 1
  BY DEF Lose, Step, Fault
<1>2. CallOK(d) /\ Same(c, d) /\ d.srv = "lost" /\ d.open = c.open
  BY StageWritten, CallFacts
<1> HIDE DEF d
<1>3. Becomes(c, d, {})
  BY <1>1, <1>2, MovedBecomes
<1> QED BY <1>1, <1>2, <1>3, TablesStay, CallFacts DEF ApiShape

\* The digits of a recall are read, nothing is written.
LEMMA DTReadDigitsShape ==
  ASSUME TypeInv, NEW c \in calls, DTReadDigits(c)
  PROVE  ApiShape(c)
<1> DEFINE got == recalls[c.s][c.n].digits
           d == [c EXCEPT !.got = got]
<1>1. calls' = Moved(c, d) /\ UNCHANGED <<served, draws, browser, faults>>
      /\ c.srv = "admitted" /\ c.op = "recall"
  BY DEF DTReadDigits
<1>2. got \in Nat
  BY <1>1, CallFacts DEF ServedOK, RecallType
<1> HIDE DEF got
<1>3. CallOK(d) /\ Same(c, d) /\ d.srv = c.srv /\ d.open = c.open
  BY <1>2, GotWritten, CallFacts
<1> HIDE DEF d
<1>4. Becomes(c, d, {})
  BY <1>1, <1>3, MovedBecomes
<1> QED BY <1>1, <1>3, <1>4, TablesStay, CallFacts DEF ApiShape

\* Serving a block writes its recall row only.
LEMMA DTRecordBlockDigitsShape ==
  ASSUME TypeInv, NEW c \in calls, DTRecordBlockDigits(c)
  PROVE  ApiShape(c)
<1> DEFINE got == recalls[c.s][c.n].digits + 1
           d == [c EXCEPT !.srv = "ok", !.got = got]
           w == [digits |-> got,
                 outcome |-> IF recalls[c.s][c.n].digits = 0 THEN "expired"
                             ELSE recalls[c.s][c.n].outcome]
<1>1. /\ calls' = Moved(c, d) /\ UNCHANGED <<row, drawn, answers, draws, browser, faults>>
      /\ c.op = "fetch" /\ recalls' = [recalls EXCEPT ![c.s][c.n] = w]
  BY DEF DTRecordBlockDigits
<1>2. got \in Nat /\ w \in RecallType /\ c.n \in Blocks
  BY <1>1, CallFacts DEF ServedOK, RecallType
<1> HIDE DEF got, w
<1>3. CallOK(d) /\ Same(c, d) /\ d.srv = "ok" /\ d.open = c.open
  BY <1>2, ServedWritten, CallFacts
<1> HIDE DEF d
<1>4. Becomes(c, d, {}) /\ d.op # "answer"
  BY <1>1, <1>3, MovedBecomes DEF Same
<1>5. recalls' \in [Sessions -> [Blocks -> RecallType]]
  BY <1>1, <1>2, CallFacts DEF ServedOK
<1>6. RowsGo(c) /\ AnswersGo(c)
  BY <1>1, CallFacts DEF ServedOK, RowsGo, AnswersGo
<1> QED BY <1>1, <1>3, <1>4, <1>5, <1>6, CallFacts DEF ApiShape

\* Grading a recall writes its recall row only.
LEMMA DTSaveRecallShape ==
  ASSUME TypeInv, NEW c \in calls, DTSaveRecall(c)
  PROVE  ApiShape(c)
<1> DEFINE d == [c EXCEPT !.srv = "ok"]
           grade == DTGradeRecall(c.got, c.num)
           w == [recalls[c.s][c.n] EXCEPT !.outcome = grade]
<1>1. /\ calls' = Moved(c, d) /\ UNCHANGED <<row, drawn, answers, draws, browser, faults>>
      /\ c.op = "recall" /\ recalls' = [recalls EXCEPT ![c.s][c.n] = w]
  BY DEF DTSaveRecall, Step
<1>2. grade \in {"expired", "exact", "wrong_digits"} /\ recalls[c.s][c.n] \in RecallType
  BY <1>1, CallFacts DEF DTGradeRecall, ServedOK
<1> HIDE DEF grade
<1>w. w \in RecallType
  BY <1>2 DEF RecallType
<1> HIDE DEF w
<1>3. CallOK(d) /\ Same(c, d) /\ d.srv = "ok" /\ d.open = c.open
  BY StageWritten, CallFacts
<1> HIDE DEF d
<1>4. Becomes(c, d, {}) /\ d.op # "answer"
  BY <1>1, <1>3, MovedBecomes DEF Same
<1>5. recalls' \in [Sessions -> [Blocks -> RecallType]]
  BY <1>1, <1>w, CallFacts DEF ServedOK
<1>6. RowsGo(c) /\ AnswersGo(c)
  BY <1>1, CallFacts DEF ServedOK, RowsGo, AnswersGo
<1> QED BY <1>1, <1>3, <1>4, <1>5, <1>6, CallFacts DEF ApiShape

\* Saving an answer writes one position once, with the item drawn there.
LEMMA DTSaveAnswerShape ==
  ASSUME TypeInv, NEW c \in calls, DTSaveAnswer(c)
  PROVE  ApiShape(c)
<1> DEFINE d == [c EXCEPT !.srv = "ok"]
           a == [item |-> drawn[c.s][c.n], outcome |-> c.val, confidence |-> c.num]
           w == IF answers[c.s][c.n].outcome # "none" THEN answers[c.s][c.n] ELSE a
<1>1. /\ calls' = Moved(c, d) /\ UNCHANGED <<row, drawn, recalls, draws, browser, faults>>
      /\ c.op = "answer" /\ answers' = [answers EXCEPT ![c.s][c.n] = w]
  BY DEF DTSaveAnswer, Step, DTItemAtPosition
<1>2. c.n \in Positions /\ c.val \in Answers /\ c.val # "none" /\ c.s \in Sessions
  BY <1>1, CallFacts, ClientAssumption DEF Answers
<1>3. a \in AnswerType /\ a.item = drawn[c.s][c.n] /\ a.outcome # "none"
  BY <1>2, CallFacts DEF ServedOK, AnswerType
<1>4. answers[c.s][c.n] \in AnswerType
  BY <1>2, CallFacts DEF ServedOK
<1>5. /\ w \in AnswerType /\ w.outcome # "none"
      /\ w = answers[c.s][c.n] \/ (~ Answered(c.s, c.n) /\ w.item = drawn[c.s][c.n])
  BY <1>3, <1>4 DEF Answered
<1> HIDE DEF w
<1>6. CallOK(d) /\ Same(c, d) /\ d.srv = "ok" /\ d.open = c.open
  BY StageWritten, CallFacts
<1> HIDE DEF d
<1>7. Becomes(c, d, {}) /\ d.s = c.s /\ d.n = c.n
  BY <1>1, <1>6, MovedBecomes DEF Same
<1>8. /\ answers' \in [Sessions -> [Positions -> AnswerType]]
      /\ answers'[c.s][c.n] = w
      /\ \A s \in Sessions, p \in Positions :
            s # c.s \/ p # c.n => answers'[s][p] = answers[s][p]
  BY <1>1, <1>2, <1>5, CallFacts DEF ServedOK
<1>9. RowsGo(c) /\ AnswersGo(c)
  BY <1>1, <1>5, <1>8, CallFacts DEF ServedOK, RowsGo, AnswersGo
<1> QED BY <1>1, <1>5, <1>6, <1>7, <1>8, <1>9, CallFacts DEF ApiShape, ServedOK

\* Finishing completes the one session, and keeps an end time it has.
LEMMA DTFinishShape ==
  ASSUME TypeInv, NEW c \in calls, DTFinish(c)
  PROVE  ApiShape(c)
<1> DEFINE d == [c EXCEPT !.srv = "ok"]
           r == row[c.s]
           end == IF r.finishedAt = 0 THEN r.finishes + 1 ELSE r.finishedAt
           strategy == IF c.val = "" THEN r.strategy ELSE c.val
           w == [r EXCEPT !.status = "completed", !.finishes = r.finishes + 1,
                          !.finishedAt = end, !.strategy = strategy]
<1>1. /\ calls' = Moved(c, d) /\ UNCHANGED <<drawn, answers, recalls, draws, browser, faults>>
      /\ c.op = "finish" /\ row' = [row EXCEPT ![c.s] = w]
  BY DEF DTFinish, Step
<1>2. r \in RowType /\ c.s \in Sessions /\ c.val \in Strategies \cup {""}
  BY <1>1, CallFacts DEF ServedOK, CallOK
<1>f. r.finishes \in Nat /\ r.finishedAt \in Nat /\ r.strategy \in Strategies \cup {""}
  BY <1>2 DEF RowType
<1> HIDE DEF r
<1>n. ASSUME NEW n \in Nat PROVE n + 1 \in Nat
  OBVIOUS
<1>r. r.finishes + 1 \in Nat /\ r.finishedAt \in Nat /\ r.strategy \in Strategies \cup {""}
  BY <1>f, <1>n
<1>3. end \in Nat /\ strategy \in Strategies \cup {""} /\ (strategy = "" => r.strategy = "")
  BY <1>2, <1>r
<1> HIDE DEF strategy
<1>4. r = row[c.s] /\ end = IF r.finishedAt = 0 THEN r.finishes + 1 ELSE r.finishedAt
  BY DEF r
<1> HIDE DEF end
<1>5. /\ w \in RowType /\ w.status = "completed" /\ w.finishedAt = end /\ w.strategy = strategy
  BY <1>2, <1>3, <1>r DEF RowType
<1> HIDE DEF w
<1>6. CallOK(d) /\ Same(c, d) /\ d.srv = "ok" /\ d.open = c.open
  BY StageWritten, CallFacts
<1> HIDE DEF d
<1>7. Becomes(c, d, {}) /\ d.op # "answer"
  BY <1>1, <1>6, MovedBecomes DEF Same
<1>8. RowsGo(c) /\ AnswersGo(c) /\ recalls' \in [Sessions -> [Blocks -> RecallType]]
  BY <1>1, <1>2, <1>3, <1>4, <1>5, CallFacts DEF ServedOK, RowsGo, AnswersGo
<1> QED BY <1>1, <1>6, <1>7, <1>8, CallFacts DEF ApiShape

\* All of them together.
LEMMA ApiSteps ==
  ASSUME TypeInv, NEW c \in calls, Api(c) \/ Lose(c)
  PROVE  ApiShape(c)
  BY AdmitShape, LoseShape, DTReadDigitsShape, DTRecordBlockDigitsShape, DTSaveRecallShape,
     DTSaveAnswerShape, DTFinishShape DEF Api

-----------------------------------------------------------------------------
(* The shape of a step of the screen *)

\* The screen of session s stands somewhere that exists, and has gone only if it
\* had before.
TabGoes(s) ==
    /\ tab' \in [Sessions -> TabType] /\ \A t \in Sessions : t # s => tab'[t] = tab[t]
    /\ tab'[s].phase = "question" => tab'[s].pos \in Positions /\ tab'[s].block \in Blocks
    /\ tab'[s].phase = "recall" => tab'[s].block \in Blocks
    /\ tab[s].block \in Blocks => tab'[s].block \in Blocks
    /\ tab'[s].phase = "gone" => tab[s].phase = "gone"

\* What c carried is appended to the queue of its session.
Queued(c) == \E w : /\ WriteOK(w) /\ w.op = c.op /\ w.n = c.n
                    /\ queue' = [queue EXCEPT ![c.s] = Append(@, w)]

ReturnShape(c) ==
    /\ c.open = TRUE
    /\ \E d, new : /\ Becomes(c, d, new) /\ d.open = FALSE /\ d.srv = c.srv
                   /\ \A e \in new : /\ CallOK(e) /\ e.s = c.s /\ e.srv = "sent"
                                     /\ e.op # "answer"
    /\ TabGoes(c.s)
    /\ queue' = queue \/ Queued(c)
    /\ gaveUp' \in [Sessions -> SUBSET ({"answer", "recall"} \X Nat)]
    /\ \A s \in Sessions : gaveUp[s] \subseteq gaveUp'[s]
    /\ c.op = "answer" => c.srv = "ok" \/ Queued(c) \/ <<c.op, c.n>> \in gaveUp'[c.s]
    /\ served' = served /\ draws' = draws /\ fired' = fired /\ faults' \in Nat

\* A call as it leaves the browser.
Leaves(c) == CallOK(c) /\ c.open = TRUE /\ c.srv = "sent" /\ calls' = calls \cup {c}

FireShape(s) ==
    /\ \E c : /\ Leaves(c) /\ c.s = s
              /\ c.op = "answer" => tab[s].block \in Blocks
              /\ fired' = [fired EXCEPT ![s] = @ \cup {<<c.op, c.n, c.by>>}]
              /\ c.op \in {"answer", "recall"} /\ c.by \in {"press", "timer"}
    /\ tab[s].phase \in {"question", "recall"}
    /\ UNCHANGED <<served, draws, tab, queue, gaveUp>> /\ faults' \in Nat

FlushShape(s) ==
    /\ queue[s] # << >> /\ queue' = [queue EXCEPT ![s] = Tail(@)]
    /\ \E c : /\ Leaves(c) /\ c.s = s /\ c.by = "retry"
              /\ c.op = queue[s][1].op /\ c.n = queue[s][1].n
    /\ UNCHANGED <<served, draws, tab, fired, gaveUp, faults>>

DebriefShape(s) ==
    /\ tab[s].phase = "debrief" /\ TabGoes(s)
    /\ \E c : Leaves(c) /\ c.s = s /\ c.op = "finish"
    /\ UNCHANGED <<served, draws, queue, fired, gaveUp, faults>>

HideShape(s) ==
    /\ tab[s].phase # "closed"
    /\ tab' \in [Sessions -> TabType] /\ \A t \in Sessions : t # s => tab'[t] = tab[t]
    /\ tab'[s].phase = "gone" /\ tab'[s].block = tab[s].block
    /\ queue' = [queue EXCEPT ![s] = << >>]
    /\ \A e \in calls' :
          \/ e \in calls /\ e.s # s
          \/ /\ CallOK(e) /\ e.s = s /\ e.open = FALSE
             /\ \/ e.by = "beacon" /\ e.srv = "sent"
                \/ \E c \in calls : Same(c, e) /\ e.srv = c.srv
    /\ \A e \in calls : e.s # s => e \in calls'
    /\ UNCHANGED <<served, draws, fired, gaveUp, faults>>

ParkShape(s) ==
    /\ tab[s].phase \notin {"closed", "gone"}
    /\ queue' = [queue EXCEPT ![s] = << >>]
    /\ \A e \in calls' : \/ e \in calls
                         \/ CallOK(e) /\ e.s = s /\ e.by = "beacon" /\ e.srv = "sent"
    /\ calls \subseteq calls'
    /\ gaveUp' \in [Sessions -> SUBSET ({"answer", "recall"} \X Nat)]
    /\ \A t \in Sessions : gaveUp[t] \subseteq gaveUp'[t]
    /\ \A i \in DOMAIN queue[s] : <<queue[s][i].op, queue[s][i].n>> \in gaveUp'[s]
    /\ UNCHANGED <<served, draws, tab, fired, faults>>

\* The browser stops waiting for c, and may send more calls.
LEMMA ForgetShape ==
  ASSUME TypeInv, NEW c \in calls, NEW new, calls' = Forget(c) \cup new
  PROVE  \E d : Becomes(c, d, new) /\ d.open = FALSE /\ d.srv = c.srv
<1> DEFINE d == [c EXCEPT !.open = FALSE]
<1>1. calls' = Moved(c, d) \cup new
  BY DEF Forget
<1>2. CallOK(d) /\ Same(c, d) /\ d.srv = c.srv /\ d.open = FALSE
  BY OpenWritten, CallFacts
<1> HIDE DEF d
<1> QED BY <1>1, <1>2, MovedBecomes

\* ... or none.
LEMMA ForgetOnly ==
  ASSUME TypeInv, NEW c \in calls, calls' = Forget(c) \cup {}
  PROVE  \E d, new : /\ Becomes(c, d, new) /\ d.open = FALSE /\ d.srv = c.srv
                     /\ \A e \in new : /\ CallOK(e) /\ e.s = c.s /\ e.srv = "sent"
                                       /\ e.op # "answer"
<1> DEFINE new == {}
<1>1. PICK d : Becomes(c, d, new) /\ d.open = FALSE /\ d.srv = c.srv
  BY ForgetShape
<1>2. \A e \in new : CallOK(e) /\ e.s = c.s /\ e.srv = "sent" /\ e.op # "answer"
  OBVIOUS
<1> HIDE DEF new
<1> QED BY <1>1, <1>2

\* How a wait ends: what succeeded was acknowledged.
LEMMA Outcome ==
  ASSUME TypeInv, NEW c \in calls, Succeeds(c) \/ Fails(c)
  PROVE  c.open = TRUE /\ faults' \in Nat /\ (Succeeds(c) => c.srv = "ok")
<1>1. faults \in Nat /\ c.open \in BOOLEAN
  BY CallFacts DEF Call
<1> QED BY <1>1 DEF Succeeds, Fails, Fault

\* What the type invariant says of one screen.
LEMMA ScreenFacts ==
  ASSUME TypeInv, NEW s \in Sessions
  PROVE  /\ tab \in [Sessions -> TabType] /\ tab[s] \in TabType
         /\ QueueOK(queue[s]) /\ queue \in [Sessions -> Seq(Write)]
         /\ gaveUp \in [Sessions -> SUBSET ({"answer", "recall"} \X Nat)]
         /\ fired \in [Sessions -> SUBSET ({"answer", "recall"} \X Nat \X {"press", "timer"})]
         /\ faults \in Nat
         /\ tab[s].phase = "question" => tab[s].pos \in Positions /\ tab[s].block \in Blocks
         /\ tab[s].phase = "recall" => tab[s].block \in Blocks
  BY DEF TypeInv, BrowserOK, ScreenOK

\* Only the phase of the screen is written.
LEMMA PhaseWritten ==
  ASSUME TypeInv, NEW s \in Sessions, NEW phase \in Phases \ {"gone"},
         phase \in {"question", "recall"} => phase = tab[s].phase \/ tab[s].block \in Blocks,
         phase = "question" => phase = tab[s].phase,
         tab' = [tab EXCEPT ![s].phase = phase]
  PROVE  TabGoes(s)
<1> DEFINE t == [tab[s] EXCEPT !.phase = phase]
<1>1. tab[s] \in TabType
  BY ScreenFacts
<1>2. t \in TabType /\ t.phase = phase /\ t.block = tab[s].block /\ t.pos = tab[s].pos
  BY <1>1 DEF TabType
<1>3. tab' = [tab EXCEPT ![s] = t]
  OBVIOUS
<1> HIDE DEF t
<1>4. tab'[s] = t /\ tab' \in [Sessions -> TabType]
      /\ \A u \in Sessions : u # s => tab'[u] = tab[u]
  BY <1>2, <1>3, ScreenFacts
<1> QED BY <1>2, <1>4, ScreenFacts DEF TabGoes

\* A screen that is not touched, and a list of failures that is not.
LEMMA TabStays == ASSUME TypeInv, NEW s \in Sessions, tab' = tab PROVE TabGoes(s)
  BY ScreenFacts DEF TabGoes

\* Nothing given up is taken back.
LEMMA GaveUpStays ==
  ASSUME TypeInv, gaveUp' = gaveUp
  PROVE  /\ gaveUp' \in [Sessions -> SUBSET ({"answer", "recall"} \X Nat)]
         /\ \A s \in Sessions : gaveUp[s] \subseteq gaveUp'[s]
  BY DEF TypeInv, BrowserOK

\* Each way a wait ends has this shape: the next question, or the recall;
LEMMA AdvanceReturnsShape ==
  ASSUME TypeInv, NEW c \in calls, AdvanceReturns(c)
  PROVE  ReturnShape(c)
<1>1. c.s \in Sessions /\ c.n \in Positions /\ CallOK(c) /\ c.op = "answer"
  BY CallFacts DEF AdvanceReturns
<1>2. tab[c.s].block \in Blocks /\ tab[c.s] \in TabType
  BY <1>1, ScreenFacts DEF TypeInv, ScreenOK, AdvanceReturns
<1>3. c.open = TRUE /\ faults' \in Nat
  BY Outcome DEF AdvanceReturns
<1>4. (queue' = queue /\ c.srv = "ok") \/ Queued(c)
  <2>1. CASE Succeeds(c) /\ UNCHANGED queue
    BY <2>1, Outcome
  <2>2. CASE Fails(c) /\ queue' = [queue EXCEPT ![c.s] = EnqueueRetry(@, c)]
    <3>1. queue' = [queue EXCEPT ![c.s] = Append(@, [Written(c) EXCEPT !.tries = 0])]
      BY <2>2 DEF EnqueueRetry
    <3> QED BY <1>1, <3>1, WrittenTyped DEF Queued
  <2> QED BY <2>1, <2>2 DEF AdvanceReturns
<1>5. TabGoes(c.s)
  <2> DEFINE t == tab[c.s]
             pos == First(t.block) + SlotOf(c.n)
             ask == [t EXCEPT !.phase = "question", !.pos = pos]
             u == IF SlotOf(c.n) < PerBlock THEN ask ELSE [t EXCEPT !.phase = "recall"]
  <2>1. tab' = [tab EXCEPT ![c.s] = u]
    BY DEF AdvanceReturns
  <2>2. SlotOf(c.n) < PerBlock => pos \in Positions /\ pos \in Nat
    BY <1>1, <1>2, Numbering
  <2> HIDE DEF pos
  <2>3. CASE SlotOf(c.n) < PerBlock
    <3>1. u = ask
      BY <2>3
    <3>2. ask \in TabType /\ ask.phase = "question" /\ ask.pos = pos /\ ask.block = t.block
      BY <1>2, <2>2, <2>3 DEF TabType, Phases
    <3> HIDE DEF ask, u
    <3>3. tab'[c.s] = ask /\ tab' \in [Sessions -> TabType]
          /\ \A s \in Sessions : s # c.s => tab'[s] = tab[s]
      BY <1>1, <2>1, <3>1, <3>2, ScreenFacts
    <3> QED BY <1>2, <2>2, <2>3, <3>2, <3>3 DEF TabGoes
  <2>4. CASE ~ (SlotOf(c.n) < PerBlock)
    <3>1. tab' = [tab EXCEPT ![c.s].phase = "recall"]
      BY <2>1, <2>4
    <3> QED BY <1>1, <1>2, <3>1, PhaseWritten, "recall" \in Phases \ {"gone"} DEF Phases
  <2> QED BY <2>3, <2>4
<1>6. /\ calls' = Forget(c) \cup {} /\ served' = served /\ draws' = draws
      /\ fired' = fired /\ gaveUp' = gaveUp
  BY DEF AdvanceReturns
<1>7. \E d, new : /\ Becomes(c, d, new) /\ d.open = FALSE /\ d.srv = c.srv
                  /\ \A e \in new : /\ CallOK(e) /\ e.s = c.s /\ e.srv = "sent"
                                    /\ e.op # "answer"
  BY <1>6, ForgetOnly
<1> QED BY <1>3, <1>4, <1>5, <1>6, <1>7, GaveUpStays DEF ReturnShape

\* the next block is fetched, or the run closed;
LEMMA RecallReturnsShape ==
  ASSUME TypeInv, NEW c \in calls, RecallReturns(c)
  PROVE  ReturnShape(c)
<1>1. /\ c.s \in Sessions /\ c.n \in Blocks /\ CallOK(c) /\ c.op = "recall"
      /\ c.by \in {"press", "timer"} /\ c.n \in Nat
  BY CallFacts DEF RecallReturns
<1>2. c.open = TRUE /\ faults' \in Nat
  BY Outcome DEF RecallReturns
<1>3. queue' = queue \/ Queued(c)
  <2>1. CASE Fails(c) /\ queue' = [queue EXCEPT ![c.s] = EnqueueRetry(@, c)]
    <3>1. queue' = [queue EXCEPT ![c.s] = Append(@, [Written(c) EXCEPT !.tries = 0])]
      BY <2>1 DEF EnqueueRetry
    <3> QED BY <1>1, <3>1, WrittenTyped DEF Queued
  <2> QED BY <2>1 DEF RecallReturns
<1>4. TabGoes(c.s)
  <2>1. CASE c.n < BlockCount
    <3>1. tab' = [tab EXCEPT ![c.s].phase = tab[c.s].phase]
      BY <2>1 DEF RecallReturns
    <3>2. tab' = tab
      BY <1>1, <3>1, ScreenFacts DEF TabType
    <3> QED BY <1>1, <3>2, TabStays
  <2>2. CASE ~ (c.n < BlockCount)
    <3>1. tab' = [tab EXCEPT ![c.s].phase = "debrief"]
      BY <2>2 DEF RecallReturns
    <3> QED BY <1>1, <3>1, PhaseWritten, "debrief" \in Phases \ {"gone"} DEF Phases
  <2> QED BY <2>1, <2>2
<1>5. LET e == NextBlock(c)
      IN  CallOK(e) /\ e.s = c.s /\ e.srv = "sent" /\ e.op # "answer"
  <2>1. CASE c.n < BlockCount
    <3> DEFINE e == Send(c.s, "fetch", c.n + 1, c.by, "", 0)
    <3>1. c.n + 1 \in Blocks /\ c.n + 1 \in Nat
      BY <1>1, <2>1, Numbering DEF Blocks
    <3>2. /\ e \in Call /\ e.s = c.s /\ e.op = "fetch" /\ e.n = c.n + 1 /\ e.by = c.by
          /\ e.val = "" /\ e.srv = "sent"
      BY <1>1, <3>1 DEF Send, Call
    <3>3. NextBlock(c) = e
      BY <2>1 DEF NextBlock
    <3> HIDE DEF e
    <3> QED BY <1>1, <3>1, <3>2, <3>3 DEF CallOK
  <2>2. CASE ~ (c.n < BlockCount)
    <3> DEFINE e == Send(c.s, "finish", 0, c.by, "", 0)
    <3>1. /\ e \in Call /\ e.s = c.s /\ e.op = "finish" /\ e.by = c.by /\ e.val = ""
          /\ e.srv = "sent"
      BY <1>1 DEF Send, Call
    <3>2. NextBlock(c) = e
      BY <2>2 DEF NextBlock
    <3> HIDE DEF e
    <3> QED BY <1>1, <3>1, <3>2 DEF CallOK
  <2> QED BY <2>1, <2>2
<1>6. /\ calls' = Forget(c) \cup {NextBlock(c)} /\ served' = served /\ draws' = draws
      /\ fired' = fired /\ gaveUp' = gaveUp
  BY DEF RecallReturns
<1>7. \E d, new : /\ Becomes(c, d, new) /\ d.open = FALSE /\ d.srv = c.srv
                  /\ \A e \in new : /\ CallOK(e) /\ e.s = c.s /\ e.srv = "sent"
                                    /\ e.op # "answer"
  <2> DEFINE new == {NextBlock(c)}
  <2>1. PICK d : Becomes(c, d, new) /\ d.open = FALSE /\ d.srv = c.srv
    BY <1>6, ForgetShape
  <2>2. \A e \in new : CallOK(e) /\ e.s = c.s /\ e.srv = "sent" /\ e.op # "answer"
    BY <1>5
  <2> HIDE DEF new
  <2> QED BY <2>1, <2>2
<1> QED BY <1>1, <1>2, <1>3, <1>4, <1>6, <1>7, GaveUpStays DEF ReturnShape

\* the block is shown, or the screen stays;
LEMMA FetchReturnsShape ==
  ASSUME TypeInv, NEW c \in calls, FetchReturns(c)
  PROVE  ReturnShape(c)
<1>1. c.s \in Sessions /\ c.n \in Blocks /\ CallOK(c) /\ c.op = "fetch" /\ c.got \in Nat
  BY CallFacts DEF FetchReturns, Call
<1>2. c.open = TRUE /\ faults' \in Nat
  BY Outcome DEF FetchReturns
<1>3. TabGoes(c.s)
  <2> DEFINE t == [phase |-> "question", block |-> c.n, pos |-> First(c.n), digits |-> c.got]
  <2>1. CASE tab' = [tab EXCEPT ![c.s] = t]
    <3>1. First(c.n) \in Positions /\ First(c.n) \in Nat /\ c.n \in Nat
      BY <1>1, Numbering
    <3>2. t \in TabType /\ t.phase = "question" /\ t.block = c.n /\ t.pos = First(c.n)
      BY <1>1, <3>1 DEF TabType, Phases
    <3> HIDE DEF t
    <3>3. tab'[c.s] = t /\ tab' \in [Sessions -> TabType]
          /\ \A s \in Sessions : s # c.s => tab'[s] = tab[s]
      BY <1>1, <2>1, <3>2, ScreenFacts
    <3> QED BY <1>1, <3>1, <3>2, <3>3 DEF TabGoes
  <2>2. CASE tab' = tab
    BY <1>1, <2>2, TabStays
  <2> QED BY <2>1, <2>2 DEF FetchReturns
<1>4. /\ calls' = Forget(c) \cup {} /\ served' = served /\ draws' = draws
      /\ fired' = fired /\ gaveUp' = gaveUp /\ queue' = queue
  BY DEF FetchReturns
<1>5. \E d, new : /\ Becomes(c, d, new) /\ d.open = FALSE /\ d.srv = c.srv
                  /\ \A e \in new : /\ CallOK(e) /\ e.s = c.s /\ e.srv = "sent"
                                    /\ e.op # "answer"
  BY <1>4, ForgetOnly
<1> QED BY <1>1, <1>2, <1>3, <1>4, <1>5, GaveUpStays DEF ReturnShape

\* a closing call is ignored;
LEMMA FinishReturnsShape ==
  ASSUME TypeInv, NEW c \in calls, FinishReturns(c)
  PROVE  ReturnShape(c)
<1>1. c.s \in Sessions /\ c.op = "finish"
  BY CallFacts DEF FinishReturns
<1>2. c.open = TRUE /\ faults' \in Nat
  BY Outcome DEF FinishReturns
<1>3. /\ calls' = Forget(c) \cup {} /\ served' = served /\ draws' = draws /\ tab' = tab
      /\ fired' = fired /\ gaveUp' = gaveUp /\ queue' = queue
  BY DEF FinishReturns, browser
<1>4. \E d, new : /\ Becomes(c, d, new) /\ d.open = FALSE /\ d.srv = c.srv
                  /\ \A e \in new : /\ CallOK(e) /\ e.s = c.s /\ e.srv = "sent"
                                    /\ e.op # "answer"
  BY <1>3, ForgetOnly
<1> QED BY <1>1, <1>2, <1>3, <1>4, TabStays, GaveUpStays DEF ReturnShape

\* a resent write succeeds, is queued again or is given up.
LEMMA FlushReturnsShape ==
  ASSUME TypeInv, NEW c \in calls, FlushReturns(c)
  PROVE  ReturnShape(c)
<1>1. c.s \in Sessions /\ CallOK(c) /\ c.op \in {"answer", "recall"} /\ c.n \in Nat
  BY CallFacts DEF FlushReturns, CallOK
<1>2. c.open = TRUE /\ faults' \in Nat
  BY Outcome DEF FlushReturns
<1>3. /\ queue' = queue \/ Queued(c)
      /\ gaveUp' \in [Sessions -> SUBSET ({"answer", "recall"} \X Nat)]
      /\ \A s \in Sessions : gaveUp[s] \subseteq gaveUp'[s]
      /\ c.srv = "ok" \/ Queued(c) \/ <<c.op, c.n>> \in gaveUp'[c.s]
  <2>1. CASE Succeeds(c) /\ UNCHANGED <<queue, gaveUp>>
    BY <2>1, Outcome, GaveUpStays
  <2>2. CASE Fails(c) /\ queue' = [queue EXCEPT ![c.s] = Append(@, Written(c))]
             /\ UNCHANGED gaveUp
    <3>1. Queued(c)
      BY <1>1, <2>2, WrittenTyped DEF Queued
    <3> QED BY <2>2, <3>1, GaveUpStays
  <2>3. CASE gaveUp' = [gaveUp EXCEPT ![c.s] = @ \cup {<<c.op, c.n>>}] /\ UNCHANGED queue
    <3>1. <<c.op, c.n>> \in {"answer", "recall"} \X Nat
      BY <1>1
    <3> DEFINE k == <<c.op, c.n>>
    <3> HIDE DEF k
    <3>2. gaveUp' = [gaveUp EXCEPT ![c.s] = @ \cup {k}] /\ k \in {"answer", "recall"} \X Nat
      BY <2>3, <3>1 DEF k
    <3>3. /\ gaveUp' \in [Sessions -> SUBSET ({"answer", "recall"} \X Nat)]
          /\ \A s \in Sessions : gaveUp[s] \subseteq gaveUp'[s]
          /\ k \in gaveUp'[c.s]
      BY <1>1, <3>2, ScreenFacts
    <3> QED BY <2>3, <3>3 DEF k
  <2> QED BY <2>1, <2>2, <2>3 DEF FlushReturns
<1>4. /\ calls' = Forget(c) \cup {} /\ served' = served /\ draws' = draws /\ tab' = tab
      /\ fired' = fired
  BY DEF FlushReturns
<1>5. \E d, new : /\ Becomes(c, d, new) /\ d.open = FALSE /\ d.srv = c.srv
                  /\ \A e \in new : /\ CallOK(e) /\ e.s = c.s /\ e.srv = "sent"
                                    /\ e.op # "answer"
  BY <1>4, ForgetOnly
<1> QED BY <1>1, <1>2, <1>3, <1>4, <1>5, TabStays DEF ReturnShape

\* All of them together.
LEMMA ReturnSteps ==
  ASSUME TypeInv, NEW c \in calls, Returns(c)
  PROVE  ReturnShape(c)
  BY AdvanceReturnsShape, RecallReturnsShape, FetchReturnsShape, FinishReturnsShape,
     FlushReturnsShape DEF Returns

\* The screen fires for a session that is under way.
LEMMA AdvanceShape ==
  ASSUME TypeInv, NEW s \in Sessions, NEW by \in {"press", "timer"}, NEW val \in Answers,
         Advance(s, by, val)
  PROVE  FireShape(s)
<1> DEFINE n == tab[s].pos
           num == IF by = "press" THEN 1 ELSE 0
           c == Send(s, "answer", n, by, val, num)
<1>1. tab[s].phase = "question" /\ n \in Positions /\ tab[s].block \in Blocks /\ n \in Nat
  BY ScreenFacts, Numbering DEF Advance
<1>2. Fire(c) /\ UNCHANGED <<served, draws, tab, queue, gaveUp>>
  BY DEF Advance
<1>3. num \in Nat
  OBVIOUS
<1> HIDE DEF num, n
<1>4. /\ c \in Call /\ c.s = s /\ c.op = "answer" /\ c.n = n /\ c.by = by /\ c.val = val
      /\ c.srv = "sent" /\ c.open = TRUE
  BY <1>1, <1>3 DEF Send, Call
<1> HIDE DEF c
<1>5. /\ calls' = calls \cup {c} /\ faults' \in Nat
      /\ fired' = [fired EXCEPT ![s] = @ \cup {<<c.op, c.n, c.by>>}]
  BY <1>2, <1>4, ScreenFacts DEF Fire, Fault
<1>6. CallOK(c)
  BY <1>1, <1>4 DEF CallOK
<1> QED BY <1>1, <1>2, <1>4, <1>5, <1>6 DEF FireShape, Leaves

\* ... a recall as well as an answer.
LEMMA SubmitRecallShape ==
  ASSUME TypeInv, NEW s \in Sessions, NEW by \in {"press", "timer"}, SubmitRecall(s, by)
  PROVE  FireShape(s)
<1> DEFINE n == tab[s].block
           num == IF by = "press" THEN tab[s].digits ELSE 0
           c == Send(s, "recall", n, by, "", num)
<1>1. tab[s].phase = "recall" /\ n \in Blocks /\ n \in Nat
  BY ScreenFacts, Numbering DEF SubmitRecall
<1>2. Fire(c) /\ UNCHANGED <<served, draws, tab, queue, gaveUp>>
  BY DEF SubmitRecall
<1>3. num \in Nat
  BY ScreenFacts DEF TabType
<1> HIDE DEF num, n
<1>4. /\ c \in Call /\ c.s = s /\ c.op = "recall" /\ c.n = n /\ c.by = by /\ c.val = ""
      /\ c.srv = "sent" /\ c.open = TRUE
  BY <1>1, <1>3 DEF Send, Call
<1> HIDE DEF c
<1>f. faults' \in Nat
  BY <1>2, ScreenFacts DEF Fire, Fault
<1>5. /\ calls' = calls \cup {c} /\ faults' \in Nat
      /\ fired' = [fired EXCEPT ![s] = @ \cup {<<c.op, c.n, c.by>>}]
  BY <1>2, <1>4, <1>f DEF Fire
<1>6. CallOK(c)
  BY <1>1, <1>4 DEF CallOK
<1> QED BY <1>1, <1>2, <1>4, <1>5, <1>6 DEF FireShape, Leaves

\* The debrief sends its closing call.
LEMMA AnswerDebriefShape ==
  ASSUME TypeInv, NEW s \in Sessions, NEW strategy \in Strategies, AnswerDebrief(s, strategy)
  PROVE  DebriefShape(s)
<1> DEFINE c == Send(s, "finish", 0, "debrief", strategy, 0)
<1>1. /\ c \in Call /\ c.s = s /\ c.op = "finish" /\ c.val = strategy /\ c.by = "debrief"
      /\ c.srv = "sent" /\ c.open = TRUE
  BY DEF Send, Call
<1>2. /\ calls' = calls \cup {c} /\ tab[s].phase = "debrief"
      /\ tab' = [tab EXCEPT ![s].phase = "finishing"]
      /\ UNCHANGED <<served, draws, queue, fired, gaveUp, faults>>
  BY DEF AnswerDebrief
<1> HIDE DEF c
<1>3. CallOK(c)
  BY <1>1 DEF CallOK
<1>4. TabGoes(s)
  BY <1>2, PhaseWritten, "finishing" \in Phases \ {"gone"} DEF Phases
<1> QED BY <1>1, <1>2, <1>3, <1>4 DEF DebriefShape, Leaves

\* The head of the queue leaves as a call.
LEMMA FlushOneShape ==
  ASSUME TypeInv, NEW s \in Sessions, FlushOne(s)
  PROVE  FlushShape(s)
<1> DEFINE w == Head(queue[s])
           c == Retry(s, w)
<1>1. /\ queue[s] # << >> /\ calls' = calls \cup {c}
      /\ queue' = [queue EXCEPT ![s] = Tail(@)]
      /\ UNCHANGED <<served, draws, tab, fired, gaveUp, faults>>
  BY DEF FlushOne, Retry
<1>2. WriteOK(w) /\ w = queue[s][1]
  BY <1>1, QueueTail, ScreenFacts
<1> HIDE DEF w
<1>r. c = Retry(s, w)
  OBVIOUS
<1> HIDE DEF c
<1>3. /\ CallOK(c) /\ c.s = s /\ c.op = w.op /\ c.n = w.n /\ c.by = "retry"
      /\ c.srv = "sent" /\ c.open
  BY <1>2, <1>r, Resent
<1>4. c.open = TRUE
  BY <1>3 DEF CallOK, Call
<1> QED BY <1>1, <1>2, <1>3, <1>4 DEF FlushShape, Leaves

\* What is queued are writes.
LEMMA QueuedWrites ==
  ASSUME TypeInv, NEW s \in Sessions
  PROVE  \A i \in DOMAIN queue[s] : WriteOK(queue[s][i])
<1>1. QueueOK(queue[s])
  BY ScreenFacts
<1> DEFINE W == Write
<1>2. queue[s] \in Seq(W)
  BY <1>1 DEF QueueOK
<1> HIDE DEF W
<1>3. DOMAIN queue[s] = 1..Len(queue[s])
  BY <1>2
<1> QED BY <1>1, <1>3 DEF QueueOK

\* What leaves of them as beacons are calls nobody waits for.
LEMMA QueueBeacons ==
  ASSUME TypeInv, NEW s \in Sessions
  PROVE  \A e \in Beacons(s) :
            CallOK(e) /\ e.s = s /\ e.by = "beacon" /\ e.srv = "sent" /\ e.open = FALSE
<1> DEFINE writes == {queue[s][i] : i \in DOMAIN queue[s]}
<1>1. \A w \in writes : WriteOK(w)
  BY QueuedWrites
<1>2. \A w \in writes : LET e == Beacon(s, w) IN
         CallOK(e) /\ e.s = s /\ e.by = "beacon" /\ e.srv = "sent" /\ e.open = FALSE
  BY <1>1, Beaconed
<1> QED BY <1>2 DEF Beacons

\* A page that hides forgets its calls and turns its queue into beacons.
LEMMA PageHideShape ==
  ASSUME TypeInv, NEW s \in Sessions, PageHide(s)
  PROVE  HideShape(s)
<1>1. /\ tab[s].phase # "closed" /\ tab' = [tab EXCEPT ![s].phase = "gone"]
      /\ queue' = [queue EXCEPT ![s] = << >>]
      /\ UNCHANGED <<served, draws, fired, gaveUp, faults>>
  BY DEF PageHide
<1>2. /\ tab' \in [Sessions -> TabType] /\ \A t \in Sessions : t # s => tab'[t] = tab[t]
      /\ tab'[s].phase = "gone" /\ tab'[s].block = tab[s].block
  <2> DEFINE t == [tab[s] EXCEPT !.phase = "gone"]
  <2>1. t \in TabType /\ t.phase = "gone" /\ t.block = tab[s].block
    BY ScreenFacts DEF TabType, Phases
  <2>2. tab' = [tab EXCEPT ![s] = t]
    BY <1>1
  <2> HIDE DEF t
  <2> QED BY <2>1, <2>2, ScreenFacts
<1>3. PICK cut \in SUBSET {c \in calls : c.s = s /\ c.srv = "sent"} :
        LET live == {c \in calls : c.s = s /\ c.srv \in {"sent", "admitted"}} \ cut
        IN  calls' = {c \in calls : c.s # s}
              \cup {[c EXCEPT !.open = FALSE] : c \in live} \cup Beacons(s)
  BY DEF PageHide
<1>4. \A c \in calls : c.s = s => LET e == [c EXCEPT !.open = FALSE] IN
         CallOK(e) /\ e.s = s /\ Same(c, e) /\ e.srv = c.srv /\ e.open = FALSE
  BY OpenWritten, CallFacts DEF Same
<1>5. \A e \in calls' :
         \/ e \in calls /\ e.s # s
         \/ /\ CallOK(e) /\ e.s = s /\ e.open = FALSE
            /\ \/ e.by = "beacon" /\ e.srv = "sent"
               \/ \E c \in calls : Same(c, e) /\ e.srv = c.srv
  <2> SUFFICES ASSUME NEW e \in calls'
               PROVE  \/ e \in calls /\ e.s # s
                      \/ /\ CallOK(e) /\ e.s = s /\ e.open = FALSE
                         /\ \/ e.by = "beacon" /\ e.srv = "sent"
                            \/ \E c \in calls : Same(c, e) /\ e.srv = c.srv
    OBVIOUS
  <2>1. \/ e \in calls /\ e.s # s
        \/ \E c \in calls : c.s = s /\ e = [c EXCEPT !.open = FALSE]
        \/ e \in Beacons(s)
    BY <1>3
  <2>2. ASSUME NEW c \in calls, c.s = s, e = [c EXCEPT !.open = FALSE]
        PROVE  CallOK(e) /\ e.s = s /\ e.open = FALSE /\ Same(c, e) /\ e.srv = c.srv
    BY <1>4, <2>2
  <2>3. ASSUME e \in Beacons(s)
        PROVE  CallOK(e) /\ e.s = s /\ e.by = "beacon" /\ e.srv = "sent" /\ e.open = FALSE
    BY <2>3, QueueBeacons
  <2> QED BY <2>1, <2>2, <2>3
<1>6. \A e \in calls : e.s # s => e \in calls'
  BY <1>3
<1> QED BY <1>1, <1>2, <1>5, <1>6 DEF HideShape

\* A page that comes back keeps its calls, and has handed over what was queued.
LEMMA PageReturnsShape ==
  ASSUME TypeInv, NEW s \in Sessions, PageReturns(s)
  PROVE  ParkShape(s)
<1> DEFINE more == {<<queue[s][i].op, queue[s][i].n>> : i \in DOMAIN queue[s]}
<1>1. /\ tab[s].phase \notin {"closed", "gone"} /\ calls' = calls \cup Beacons(s)
      /\ queue' = [queue EXCEPT ![s] = << >>]
      /\ gaveUp' = [gaveUp EXCEPT ![s] = @ \cup more]
      /\ UNCHANGED <<served, draws, tab, fired, faults>>
  BY DEF PageReturns
<1>2. more \subseteq {"answer", "recall"} \X Nat
  <2>1. \A i \in DOMAIN queue[s] :
           queue[s][i].op \in {"answer", "recall"} /\ queue[s][i].n \in Nat
    BY QueuedWrites DEF WriteOK, Write
  <2> QED BY <2>1
<1>3. \A e \in Beacons(s) : CallOK(e) /\ e.s = s /\ e.by = "beacon" /\ e.srv = "sent"
  BY QueueBeacons
<1>4. \A i \in DOMAIN queue[s] : <<queue[s][i].op, queue[s][i].n>> \in more
  OBVIOUS
<1> HIDE DEF more
<1>5. gaveUp'[s] = gaveUp[s] \cup more /\ \A t \in Sessions : t # s => gaveUp'[t] = gaveUp[t]
  BY <1>1, ScreenFacts
<1>6. /\ gaveUp' \in [Sessions -> SUBSET ({"answer", "recall"} \X Nat)]
      /\ \A t \in Sessions : gaveUp[t] \subseteq gaveUp'[t]
  BY <1>1, <1>2, <1>5, ScreenFacts
<1>7. \A e \in calls' : \/ e \in calls
                        \/ CallOK(e) /\ e.s = s /\ e.by = "beacon" /\ e.srv = "sent"
  BY <1>1, <1>3
<1> QED BY <1>1, <1>4, <1>5, <1>6, <1>7 DEF ParkShape

\* All that the participant and the browser do.
LEMMA ParticipantSteps ==
  ASSUME TypeInv, NEW s \in Sessions, Participant(s)
  PROVE  \/ FireShape(s) \/ FlushShape(s) \/ DebriefShape(s)
         \/ HideShape(s) \/ ParkShape(s)
  BY AdvanceShape, SubmitRecallShape, AnswerDebriefShape, FlushOneShape, PageHideShape,
     PageReturnsShape
     DEF Participant

-----------------------------------------------------------------------------
(* The shape of a draw *)

\* Session s goes from one status to another before it is committed, or on
\* committing; no other session is written.
Opens(s, from, to) ==
    /\ row[s].status = from
    /\ row' \in [Sessions -> RowType] /\ \A t \in Sessions : t # s => row'[t] = row[t]
    /\ row'[s].status = to

\* Only the status of a session is written.
LEMMA StatusOpens ==
  ASSUME ServedOK, NEW s \in Sessions, NEW to \in {"none", "running"},
         row' = [row EXCEPT ![s].status = to]
  PROVE  Opens(s, row[s].status, to)
<1> DEFINE r == [row[s] EXCEPT !.status = to]
<1>1. r \in RowType /\ r.status = to
  BY DEF ServedOK, RowType
<1>2. row' = [row EXCEPT ![s] = r]
  OBVIOUS
<1> HIDE DEF r
<1> QED BY <1>1, <1>2 DEF Opens, ServedOK

\* Reading what the visitor has seen begins the draw.
LEMMA StartReadShape ==
  ASSUME TypeInv, NEW s \in Sessions, NEW a \in Arrivals[s], StartRead(s, a[1], a[2])
  PROVE  Opens(s, "none", "starting")
<1> DEFINE r == [row[s] EXCEPT !.status = "starting", !.visitor = a[1], !.synthetic = a[2]]
<1>1. a[1] \in Visitors \cup {NoVisitor} /\ a[2] \in BOOLEAN
  BY SessionsAssumption
<1>2. ServedOK
  BY DEF TypeInv
<1>3. r \in RowType /\ r.status = "starting"
  BY <1>1, <1>2 DEF ServedOK, RowType
<1>4. row' = [row EXCEPT ![s] = r] /\ row[s].status = "none"
  BY <1>2 DEF StartRead, ServedOK
<1> HIDE DEF r
<1> QED BY <1>2, <1>3, <1>4 DEF Opens, ServedOK

DrawShape(s) ==
    /\ Opens(s, "starting", "running")
    /\ \E d \in [Positions -> Items \ starting[s]] : drawn' = [drawn EXCEPT ![s] = d]
    /\ \/ tab' = tab /\ calls' = calls
       \/ TabGoes(s) /\ \E c : Leaves(c) /\ c.s = s /\ c.op = "fetch"
    /\ UNCHANGED <<answers, recalls, draws, queue, fired, gaveUp, faults>>

\* The draw commits the session and, when it is played, opens its screen.
LEMMA StartDrawShape ==
  ASSUME TypeInv, NEW s \in Sessions, StartDraw(s)
  PROVE  DrawShape(s)
<1>1. /\ row[s].status = "starting" /\ row' = [row EXCEPT ![s].status = "running"]
      /\ UNCHANGED <<answers, recalls, draws, queue, fired, gaveUp, faults>>
  BY DEF StartDraw
<1>2. Opens(s, "starting", "running")
  BY <1>1, StatusOpens DEF TypeInv
<1>3. \E d \in [Positions -> Items \ starting[s]] : drawn' = [drawn EXCEPT ![s] = d]
  BY DEF StartDraw, DTDraws
<1>4. CASE s \in Played
  <2> DEFINE c == Send(s, "fetch", 1, "press", "", 0)
  <2>1. calls' = calls \cup {c} /\ tab' = [tab EXCEPT ![s].phase = "fetching"]
    BY <1>4 DEF StartDraw
  <2>2. /\ c \in Call /\ c.s = s /\ c.op = "fetch" /\ c.n = 1 /\ c.by = "press" /\ c.val = ""
        /\ c.srv = "sent" /\ c.open = TRUE
    BY DEF Send, Call
  <2> HIDE DEF c
  <2>3. CallOK(c)
    BY <2>2, Numbering DEF CallOK
  <2>4. TabGoes(s)
    BY <2>1, PhaseWritten, "fetching" \in Phases \ {"gone"} DEF Phases
  <2>5. Leaves(c)
    BY <2>1, <2>2, <2>3 DEF Leaves
  <2> QED BY <1>1, <1>2, <1>3, <2>2, <2>4, <2>5 DEF DrawShape
<1>5. CASE s \notin Played
  <2>1. tab' = tab /\ calls' = calls
    BY <1>5 DEF StartDraw
  <2> QED BY <1>1, <1>2, <1>3, <2>1 DEF DrawShape
<1> QED BY <1>4, <1>5

-----------------------------------------------------------------------------
(* Type correctness *)

\* Each shape keeps the type invariant.
LEMMA ApiTyped ==
  ASSUME TypeInv, NEW c \in calls, ApiShape(c)
  PROVE  TypeInv'
<1>1. PICK d : /\ Becomes(c, d, {}) /\ d.open = c.open
               /\ d.op = "answer" /\ d.srv = "ok" => answers'[d.s][d.n].outcome # "none"
  BY DEF ApiShape
<1>2. /\ ServedOK /\ DrawsOK /\ CallsOK /\ BrowserOK /\ ScreenOK /\ NothingBefore
      /\ DrawsComplete
  BY DEF TypeInv
<1>3. /\ starting' = starting /\ before' = before /\ refused' = refused /\ tab' = tab
      /\ queue' = queue /\ fired' = fired /\ gaveUp' = gaveUp /\ faults' \in Nat
      /\ drawn' = drawn
  BY DEF ApiShape, draws, browser
<1>4. RowsGo(c) /\ AnswersGo(c) /\ c.s \in Sessions /\ Underway(c.s)
  BY CallFacts DEF ApiShape
<1>5. ServedOK'
  BY <1>2, <1>3 DEF ServedOK, ApiShape, RowsGo, AnswersGo
<1>6. DrawsOK' /\ BrowserOK'
  BY <1>2, <1>3 DEF DrawsOK, BrowserOK
<1>7. CallsOK'
  BY <1>1, <1>2 DEF CallsOK, Becomes
<1>8. ScreenOK'
  BY <1>1, <1>2, <1>3 DEF ScreenOK, Becomes, Same
<1>9. \A s \in Sessions : Underway(s)' <=> Underway(s)
  BY <1>4 DEF RowsGo, Underway
<1>10. NothingBefore'
  <2>1. \A e \in calls' : Underway(e.s)'
    BY <1>1, <1>2, <1>9, CallFacts DEF NothingBefore, Becomes, Same, CallOK, Call
  <2>2. ASSUME NEW s \in Sessions, ~ Underway(s)'
        PROVE  /\ tab'[s].phase = "closed" /\ queue'[s] = << >> /\ fired'[s] = {}
               /\ \A p \in Positions : ~ Answered(s, p)'
    BY <1>2, <1>3, <1>4, <1>9, <2>2 DEF NothingBefore, AnswersGo, Answered
  <2> QED BY <2>1, <2>2 DEF NothingBefore
<1>11. DrawsComplete'
  BY <1>2, <1>3, <1>9 DEF DrawsComplete
<1> QED BY <1>5, <1>6, <1>7, <1>8, <1>10, <1>11 DEF TypeInv

\* The wait that ends concerns one screen and one queue.
LEMMA ReturnTyped ==
  ASSUME TypeInv, NEW c \in calls, ReturnShape(c)
  PROVE  TypeInv'
<1>1. PICK d, new : /\ Becomes(c, d, new) /\ d.open = FALSE /\ d.srv = c.srv
                    /\ \A e \in new : /\ CallOK(e) /\ e.s = c.s /\ e.srv = "sent"
                                      /\ e.op # "answer"
  BY DEF ReturnShape
<1>2. /\ ServedOK /\ DrawsOK /\ CallsOK /\ BrowserOK /\ ScreenOK /\ NothingBefore
      /\ DrawsComplete
  BY DEF TypeInv
<1>3. /\ row' = row /\ drawn' = drawn /\ answers' = answers /\ recalls' = recalls
      /\ starting' = starting /\ before' = before /\ refused' = refused /\ fired' = fired
      /\ faults' \in Nat /\ TabGoes(c.s) /\ c.s \in Sessions /\ Underway(c.s)
  BY CallFacts DEF ReturnShape, draws, served
<1>4. ServedOK' /\ DrawsOK'
  BY <1>2, <1>3 DEF ServedOK, DrawsOK
<1>5. queue' \in [Sessions -> Seq(Write)] /\ (\A s \in Sessions : QueueOK(queue'[s]))
      /\ \A s \in Sessions : s # c.s => queue'[s] = queue[s]
  <2>1. CASE queue' = queue
    BY <1>2, <2>1 DEF BrowserOK
  <2>2. CASE Queued(c)
    <3>1. PICK w : /\ WriteOK(w) /\ w.op = c.op /\ w.n = c.n
                   /\ queue' = [queue EXCEPT ![c.s] = Append(@, w)]
      BY <2>2 DEF Queued
    <3>2. QueueOK(queue[c.s])
      BY <1>2, <1>3 DEF BrowserOK
    <3> DEFINE q == Append(queue[c.s], w)
    <3>3. QueueOK(q)
      BY <3>1, <3>2, QueueAppend
    <3>4. queue' = [queue EXCEPT ![c.s] = q]
      BY <3>1
    <3> HIDE DEF q
    <3>5. q \in Seq(Write)
      BY <3>3 DEF QueueOK
    <3> QED BY <1>2, <1>3, <3>3, <3>4, <3>5 DEF BrowserOK
  <2> QED BY <2>1, <2>2 DEF ReturnShape
<1>6. BrowserOK'
  BY <1>2, <1>3, <1>5 DEF BrowserOK, TabGoes, ReturnShape
<1>7. CallsOK'
  BY <1>1, <1>2 DEF CallsOK, Becomes
<1>8. ScreenOK'
  <2>1. ASSUME NEW s \in Sessions
        PROVE  /\ tab'[s].phase = "question" => tab'[s].pos \in Positions /\ tab'[s].block \in Blocks
               /\ tab'[s].phase = "recall" => tab'[s].block \in Blocks
               /\ tab[s].block \in Blocks => tab'[s].block \in Blocks
    BY <1>2, <1>3 DEF ScreenOK, TabGoes
  <2>2. ASSUME NEW e \in calls', e.op = "answer", e.by \in {"press", "timer"}
        PROVE  tab[e.s].block \in Blocks /\ e.s \in Sessions
    <3>1. CASE e \in calls
      BY <1>2, <2>2, <3>1, CallFacts DEF ScreenOK
    <3>2. CASE e = d
      BY <1>1, <1>2, <2>2, <3>2, CallFacts DEF ScreenOK, Becomes, Same
    <3> QED BY <1>1, <2>2, <3>1, <3>2 DEF Becomes
  <2> QED BY <2>1, <2>2 DEF ScreenOK
<1>9. NothingBefore'
  <2>1. \A e \in calls' : Underway(e.s)'
    BY <1>1, <1>2, <1>3 DEF NothingBefore, Becomes, Same, Underway
  <2>2. ASSUME NEW s \in Sessions, ~ Underway(s)'
        PROVE  /\ tab'[s].phase = "closed" /\ queue'[s] = << >> /\ fired'[s] = {}
               /\ \A p \in Positions : ~ Answered(s, p)'
    <3>1. ~ Underway(s) /\ s # c.s
      BY <1>3, <2>2 DEF Underway
    <3> QED BY <1>2, <1>3, <1>5, <3>1 DEF NothingBefore, TabGoes, Answered
  <2> QED BY <2>1, <2>2 DEF NothingBefore
<1>10. DrawsComplete'
  BY <1>2, <1>3 DEF DrawsComplete, Underway
<1> QED BY <1>4, <1>6, <1>7, <1>8, <1>9, <1>10 DEF TypeInv

\* A call that leaves the browser of a session under way.
LEMMA LeaveTyped ==
  ASSUME TypeInv, NEW s \in Sessions, Underway(s), NEW c, Leaves(c), c.s = s,
         c.op = "answer" /\ c.by \in {"press", "timer"} => tab[s].block \in Blocks,
         tab' = tab \/ TabGoes(s),
         row' = row, drawn' = drawn, answers' = answers
  PROVE  CallsOK' /\ ScreenOK' /\ DrawsComplete' /\ (\A e \in calls' : Underway(e.s)')
         /\ tab' \in [Sessions -> TabType]
         /\ \A t \in Sessions : t # s => tab'[t] = tab[t]
<1>1. /\ ServedOK /\ DrawsOK /\ CallsOK /\ BrowserOK /\ ScreenOK /\ NothingBefore
      /\ DrawsComplete
  BY DEF TypeInv
<1>2. TabGoes(s)
  BY TabStays
<1>3. CallsOK'
  BY <1>1 DEF CallsOK, Leaves
<1>4. ScreenOK'
  <2>1. ASSUME NEW t \in Sessions
        PROVE  /\ tab'[t].phase = "question" => tab'[t].pos \in Positions /\ tab'[t].block \in Blocks
               /\ tab'[t].phase = "recall" => tab'[t].block \in Blocks
               /\ tab[t].block \in Blocks => tab'[t].block \in Blocks
    BY <1>1, <1>2 DEF ScreenOK, TabGoes
  <2>2. ASSUME NEW e \in calls', e.op = "answer", e.by \in {"press", "timer"}
        PROVE  tab[e.s].block \in Blocks /\ e.s \in Sessions
    <3>1. CASE e \in calls
      BY <1>1, <2>2, <3>1, CallFacts DEF ScreenOK
    <3> QED BY <2>2, <3>1 DEF Leaves
  <2> QED BY <2>1, <2>2 DEF ScreenOK
<1>5. DrawsComplete' /\ \A e \in calls' : Underway(e.s)'
  BY <1>1 DEF DrawsComplete, Underway, Leaves, NothingBefore
<1> QED BY <1>2, <1>3, <1>4, <1>5 DEF TabGoes

\* A submission names the question or block on the screen.
LEMMA FireTyped ==
  ASSUME TypeInv, NEW s \in Sessions, FireShape(s)
  PROVE  TypeInv'
<1>1. PICK c : /\ Leaves(c) /\ c.s = s
               /\ c.op = "answer" => tab[s].block \in Blocks
               /\ fired' = [fired EXCEPT ![s] = @ \cup {<<c.op, c.n, c.by>>}]
               /\ c.op \in {"answer", "recall"} /\ c.by \in {"press", "timer"}
  BY DEF FireShape
<1>2. /\ ServedOK /\ DrawsOK /\ CallsOK /\ BrowserOK /\ ScreenOK /\ NothingBefore
      /\ DrawsComplete
  BY DEF TypeInv
<1>3. /\ row' = row /\ drawn' = drawn /\ answers' = answers /\ recalls' = recalls
      /\ starting' = starting /\ before' = before /\ refused' = refused
      /\ tab' = tab /\ queue' = queue /\ gaveUp' = gaveUp /\ faults' \in Nat
  BY DEF FireShape, served, draws
<1>4. Underway(s)
  BY <1>2 DEF FireShape, NothingBefore
<1>5. CallsOK' /\ ScreenOK' /\ DrawsComplete' /\ \A e \in calls' : Underway(e.s)'
  BY <1>1, <1>3, <1>4, LeaveTyped
<1> DEFINE k == <<c.op, c.n, c.by>>
<1>6. k \in {"answer", "recall"} \X Nat \X {"press", "timer"}
  BY <1>1 DEF Leaves, CallOK, Call
<1>7. fired' = [fired EXCEPT ![s] = @ \cup {k}]
  BY <1>1
<1> HIDE DEF k
<1>8. /\ fired' \in [Sessions -> SUBSET ({"answer", "recall"} \X Nat \X {"press", "timer"})]
      /\ \A t \in Sessions : t # s => fired'[t] = fired[t]
  BY <1>6, <1>7, ScreenFacts
<1>9. ServedOK' /\ DrawsOK' /\ BrowserOK'
  BY <1>2, <1>3, <1>8 DEF ServedOK, DrawsOK, BrowserOK
<1>10. NothingBefore'
  BY <1>2, <1>3, <1>4, <1>5, <1>8 DEF NothingBefore, Underway, Answered
<1> QED BY <1>5, <1>9, <1>10 DEF TypeInv

\* A resent write shortens one queue.
LEMMA FlushTyped ==
  ASSUME TypeInv, NEW s \in Sessions, FlushShape(s)
  PROVE  TypeInv'
<1>1. PICK c : /\ Leaves(c) /\ c.s = s /\ c.by = "retry"
               /\ c.op = queue[s][1].op /\ c.n = queue[s][1].n
  BY DEF FlushShape
<1>2. /\ ServedOK /\ DrawsOK /\ CallsOK /\ BrowserOK /\ ScreenOK /\ NothingBefore
      /\ DrawsComplete
  BY DEF TypeInv
<1>3. /\ row' = row /\ drawn' = drawn /\ answers' = answers /\ recalls' = recalls
      /\ starting' = starting /\ before' = before /\ refused' = refused
      /\ tab' = tab /\ fired' = fired /\ gaveUp' = gaveUp /\ faults' = faults
  BY DEF FlushShape, served, draws
<1>4. Underway(s)
  BY <1>2 DEF FlushShape, NothingBefore
<1>5. CallsOK' /\ ScreenOK' /\ DrawsComplete' /\ \A e \in calls' : Underway(e.s)'
  BY <1>1, <1>3, <1>4, LeaveTyped
<1> DEFINE q == Tail(queue[s])
<1>6. QueueOK(q) /\ queue' = [queue EXCEPT ![s] = q]
  BY <1>2, QueueTail DEF FlushShape, BrowserOK
<1> HIDE DEF q
<1>7. q \in Seq(Write)
  BY <1>6 DEF QueueOK
<1>8. /\ queue' \in [Sessions -> Seq(Write)] /\ \A t \in Sessions : QueueOK(queue'[t])
      /\ \A t \in Sessions : t # s => queue'[t] = queue[t]
  BY <1>2, <1>6, <1>7 DEF BrowserOK
<1>9. ServedOK' /\ DrawsOK' /\ BrowserOK'
  BY <1>2, <1>3, <1>8 DEF ServedOK, DrawsOK, BrowserOK
<1>10. NothingBefore'
  BY <1>2, <1>3, <1>4, <1>5, <1>8 DEF NothingBefore, Underway, Answered
<1> QED BY <1>5, <1>9, <1>10 DEF TypeInv

\* The debrief moves one screen.
LEMMA DebriefTyped ==
  ASSUME TypeInv, NEW s \in Sessions, DebriefShape(s)
  PROVE  TypeInv'
<1>1. PICK c : Leaves(c) /\ c.s = s /\ c.op = "finish"
  BY DEF DebriefShape
<1>2. /\ ServedOK /\ DrawsOK /\ CallsOK /\ BrowserOK /\ ScreenOK /\ NothingBefore
      /\ DrawsComplete
  BY DEF TypeInv
<1>3. /\ row' = row /\ drawn' = drawn /\ answers' = answers /\ recalls' = recalls
      /\ starting' = starting /\ before' = before /\ refused' = refused
      /\ queue' = queue /\ fired' = fired /\ gaveUp' = gaveUp /\ faults' = faults
      /\ TabGoes(s)
  BY DEF DebriefShape, served, draws
<1>4. Underway(s)
  BY <1>2 DEF DebriefShape, NothingBefore
<1>5. CallsOK' /\ ScreenOK' /\ DrawsComplete' /\ (\A e \in calls' : Underway(e.s)')
      /\ tab' \in [Sessions -> TabType] /\ \A t \in Sessions : t # s => tab'[t] = tab[t]
  BY <1>1, <1>3, <1>4, LeaveTyped
<1>6. ServedOK' /\ DrawsOK' /\ BrowserOK'
  BY <1>2, <1>3, <1>5 DEF ServedOK, DrawsOK, BrowserOK
<1>7. NothingBefore'
  BY <1>2, <1>3, <1>4, <1>5 DEF NothingBefore, Underway, Answered
<1> QED BY <1>5, <1>6, <1>7 DEF TypeInv

\* A page that hides leaves calls of its own session only.
LEMMA HideTyped ==
  ASSUME TypeInv, NEW s \in Sessions, HideShape(s)
  PROVE  TypeInv'
<1>1. \A e \in calls' :
         \/ e \in calls /\ e.s # s
         \/ /\ CallOK(e) /\ e.s = s /\ e.open = FALSE
            /\ \/ e.by = "beacon" /\ e.srv = "sent"
               \/ \E c \in calls : Same(c, e) /\ e.srv = c.srv
  BY DEF HideShape
<1>2. /\ ServedOK /\ DrawsOK /\ CallsOK /\ BrowserOK /\ ScreenOK /\ NothingBefore
      /\ DrawsComplete
  BY DEF TypeInv
<1>3. /\ row' = row /\ drawn' = drawn /\ answers' = answers /\ recalls' = recalls
      /\ starting' = starting /\ before' = before /\ refused' = refused
      /\ fired' = fired /\ gaveUp' = gaveUp /\ faults' = faults
      /\ tab' \in [Sessions -> TabType] /\ \A t \in Sessions : t # s => tab'[t] = tab[t]
      /\ tab'[s].phase = "gone" /\ tab'[s].block = tab[s].block
      /\ queue' = [queue EXCEPT ![s] = << >>]
  BY DEF HideShape, served, draws
<1>4. Underway(s)
  BY <1>2 DEF HideShape, NothingBefore
<1>5. QueueOK(<< >>)
  BY DEF QueueOK
<1>6. /\ queue' \in [Sessions -> Seq(Write)] /\ \A t \in Sessions : QueueOK(queue'[t])
      /\ \A t \in Sessions : t # s => queue'[t] = queue[t]
  BY <1>2, <1>3, <1>5 DEF BrowserOK
<1>7. ServedOK' /\ DrawsOK' /\ BrowserOK'
  BY <1>2, <1>3, <1>6 DEF ServedOK, DrawsOK, BrowserOK
<1>8. CallsOK'
  BY <1>1, <1>2 DEF CallsOK
<1>9. ScreenOK'
  <2>1. ASSUME NEW t \in Sessions
        PROVE  /\ tab'[t].phase = "question" => tab'[t].pos \in Positions /\ tab'[t].block \in Blocks
               /\ tab'[t].phase = "recall" => tab'[t].block \in Blocks
               /\ tab[t].block \in Blocks => tab'[t].block \in Blocks
    BY <1>2, <1>3 DEF ScreenOK
  <2>2. ASSUME NEW e \in calls', e.op = "answer", e.by \in {"press", "timer"}
        PROVE  tab[e.s].block \in Blocks /\ e.s \in Sessions
    <3>1. CASE e \in calls
      BY <1>2, <2>2, <3>1, CallFacts DEF ScreenOK
    <3>2. ASSUME NEW c \in calls, Same(c, e) PROVE tab[e.s].block \in Blocks /\ e.s \in Sessions
      BY <1>2, <2>2, <3>2, CallFacts DEF ScreenOK, Same
    <3> QED BY <1>1, <2>2, <3>1, <3>2
  <2> QED BY <2>1, <2>2 DEF ScreenOK
<1>10. NothingBefore'
  BY <1>1, <1>2, <1>3, <1>4, <1>6 DEF NothingBefore, Underway, Answered
<1>11. DrawsComplete'
  BY <1>2, <1>3 DEF DrawsComplete, Underway
<1> QED BY <1>7, <1>8, <1>9, <1>10, <1>11 DEF TypeInv

\* One that comes back leaves beacons, and an empty queue.
LEMMA ParkTyped ==
  ASSUME TypeInv, NEW s \in Sessions, ParkShape(s)
  PROVE  TypeInv'
<1>1. /\ ServedOK /\ DrawsOK /\ CallsOK /\ BrowserOK /\ ScreenOK /\ NothingBefore
      /\ DrawsComplete
  BY DEF TypeInv
<1>2. /\ row' = row /\ drawn' = drawn /\ answers' = answers /\ recalls' = recalls
      /\ starting' = starting /\ before' = before /\ refused' = refused
      /\ tab' = tab /\ fired' = fired /\ faults' = faults
      /\ queue' = [queue EXCEPT ![s] = << >>]
      /\ gaveUp' \in [Sessions -> SUBSET ({"answer", "recall"} \X Nat)]
      /\ \A e \in calls' : \/ e \in calls
                           \/ CallOK(e) /\ e.s = s /\ e.by = "beacon" /\ e.srv = "sent"
  BY DEF ParkShape, served, draws
<1>3. Underway(s)
  BY <1>1 DEF ParkShape, NothingBefore
<1>4. QueueOK(<< >>)
  BY DEF QueueOK
<1>5. /\ queue' \in [Sessions -> Seq(Write)] /\ \A t \in Sessions : QueueOK(queue'[t])
      /\ \A t \in Sessions : t # s => queue'[t] = queue[t]
  BY <1>1, <1>2, <1>4 DEF BrowserOK
<1>6. ServedOK' /\ DrawsOK' /\ BrowserOK'
  BY <1>1, <1>2, <1>5 DEF ServedOK, DrawsOK, BrowserOK
<1>7. CallsOK'
  BY <1>1, <1>2 DEF CallsOK
<1>8. ScreenOK'
  BY <1>1, <1>2 DEF ScreenOK
<1>9. NothingBefore'
  BY <1>1, <1>2, <1>3, <1>5 DEF NothingBefore, Underway, Answered
<1>10. DrawsComplete'
  BY <1>1, <1>2 DEF DrawsComplete, Underway
<1> QED BY <1>6, <1>7, <1>8, <1>9, <1>10 DEF TypeInv

\* The lookup excludes items of the bank only.
LEMMA ReadTyped ==
  ASSUME TypeInv, NEW s \in Sessions, NEW a \in Arrivals[s], StartRead(s, a[1], a[2])
  PROVE  TypeInv'
<1>1. Opens(s, "none", "starting")
  BY StartReadShape
<1>2. /\ drawn' = drawn /\ answers' = answers /\ recalls' = recalls /\ refused' = refused
      /\ tab' = tab /\ queue' = queue /\ fired' = fired /\ gaveUp' = gaveUp
      /\ calls' = calls
  BY DEF StartRead, browser
<1>3. Committed(a[1]) \subseteq Sessions /\ DTSeenItems(a[1]) \subseteq Items
  BY DEF Committed, DTSeenItems, Given, TypeInv, DrawsComplete, Underway
<1>4. DrawsOK' /\ faults' \in Nat
  <2>1. DrawsOK /\ faults \in Nat
    BY DEF TypeInv, BrowserOK
  <2>2. CASE /\ starting' = [starting EXCEPT ![s] = DTSeenItems(a[1])]
             /\ before' = [before EXCEPT ![s] = Committed(a[1])]
             /\ UNCHANGED faults
    BY <1>2, <1>3, <2>1, <2>2 DEF DrawsOK
  <2>3. CASE Fault /\ UNCHANGED <<starting, before>>
    BY <1>2, <2>1, <2>3 DEF DrawsOK, Fault
  <2> QED BY <2>2, <2>3 DEF StartRead
<1>5. ServedOK' /\ CallsOK' /\ BrowserOK'
  BY <1>1, <1>2, <1>4 DEF Opens, TypeInv, ServedOK, CallsOK, BrowserOK
<1>6. \A t \in Sessions : Underway(t)' <=> Underway(t)
  BY <1>1 DEF Opens, Underway
<1>7. ScreenOK' /\ NothingBefore' /\ DrawsComplete'
  BY <1>2, <1>6, CallFacts DEF TypeInv, ScreenOK, NothingBefore, DrawsComplete, Answered
<1> QED BY <1>4, <1>5, <1>7 DEF TypeInv

\* A refused draw leaves no session behind.
LEMMA RefuseTyped ==
  ASSUME TypeInv, NEW s \in Sessions, StartRefuse(s)
  PROVE  TypeInv' /\ Opens(s, "starting", "none")
<1>1. Opens(s, "starting", "none")
  BY StatusOpens DEF StartRefuse, TypeInv
<1>2. /\ drawn' = drawn /\ answers' = answers /\ recalls' = recalls
      /\ refused' = [refused EXCEPT ![s] = @ + 1] /\ starting' = starting /\ before' = before
      /\ tab' = tab /\ queue' = queue /\ fired' = fired /\ gaveUp' = gaveUp
      /\ calls' = calls /\ faults' = faults
  BY DEF StartRefuse, browser
<1>3. ServedOK' /\ DrawsOK' /\ CallsOK' /\ BrowserOK'
  BY <1>1, <1>2 DEF Opens, TypeInv, ServedOK, DrawsOK, CallsOK, BrowserOK
<1>4. \A t \in Sessions : Underway(t)' <=> Underway(t)
  BY <1>1 DEF Opens, Underway
<1>5. ScreenOK' /\ NothingBefore' /\ DrawsComplete'
  BY <1>2, <1>4, CallFacts DEF TypeInv, ScreenOK, NothingBefore, DrawsComplete, Answered
<1> QED BY <1>1, <1>3, <1>5 DEF TypeInv

\* A committed draw gives every position an item.
LEMMA DrawTyped ==
  ASSUME TypeInv, NEW s \in Sessions, DrawShape(s)
  PROVE  TypeInv'
<1>1. PICK d \in [Positions -> Items \ starting[s]] : drawn' = [drawn EXCEPT ![s] = d]
  BY DEF DrawShape
<1>2. /\ Opens(s, "starting", "running")
      /\ answers' = answers /\ recalls' = recalls /\ starting' = starting /\ before' = before
      /\ refused' = refused /\ queue' = queue /\ fired' = fired /\ gaveUp' = gaveUp
      /\ faults' = faults
  BY DEF DrawShape, draws
<1>3. Underway(s)' /\ \A t \in Sessions : t # s => (Underway(t)' <=> Underway(t))
  BY <1>2 DEF Opens, Underway
<1>4. /\ TabGoes(s) /\ CallsOK'
      /\ \A e \in calls' : e \in calls \/ (CallOK(e) /\ e.s = s /\ e.op = "fetch")
  BY TabStays DEF DrawShape, TypeInv, CallsOK, Leaves
<1>5. ServedOK' /\ DrawsOK' /\ BrowserOK' /\ DrawsComplete'
  <2>1. d \in [Positions -> Items \cup {NoItem}] /\ d \in [Positions -> Items]
    OBVIOUS
  <2>2. /\ drawn' \in [Sessions -> [Positions -> Items \cup {NoItem}]] /\ drawn'[s] = d
        /\ \A t \in Sessions : t # s => drawn'[t] = drawn[t]
    BY <1>1, <2>1 DEF TypeInv, ServedOK
  <2>3. ServedOK' /\ DrawsOK' /\ BrowserOK'
    BY <1>2, <1>4, <2>2 DEF Opens, TypeInv, ServedOK, DrawsOK, BrowserOK, TabGoes
  <2> QED BY <1>3, <2>1, <2>2, <2>3 DEF TypeInv, DrawsComplete
<1>6. ScreenOK'
  <2>1. ASSUME NEW t \in Sessions
        PROVE  /\ tab'[t].phase = "question" => tab'[t].pos \in Positions /\ tab'[t].block \in Blocks
               /\ tab'[t].phase = "recall" => tab'[t].block \in Blocks
               /\ tab[t].block \in Blocks => tab'[t].block \in Blocks
    BY <1>4 DEF TypeInv, ScreenOK, TabGoes
  <2>2. ASSUME NEW e \in calls', e.op = "answer", e.by \in {"press", "timer"}
        PROVE  tab[e.s].block \in Blocks /\ e.s \in Sessions
    BY <1>4, <2>2, CallFacts DEF TypeInv, ScreenOK
  <2> QED BY <2>1, <2>2 DEF ScreenOK
<1>7. NothingBefore'
  <2>1. \A e \in calls' : Underway(e.s)'
    BY <1>3, <1>4, CallFacts DEF TypeInv, NothingBefore
  <2>2. ASSUME NEW t \in Sessions, ~ Underway(t)'
        PROVE  /\ tab'[t].phase = "closed" /\ queue'[t] = << >> /\ fired'[t] = {}
               /\ \A p \in Positions : ~ Answered(t, p)'
    BY <1>2, <1>3, <1>4, <2>2 DEF TypeInv, NothingBefore, TabGoes, Answered
  <2> QED BY <2>1, <2>2 DEF NothingBefore
<1> QED BY <1>4, <1>5, <1>6, <1>7 DEF TypeInv

\* No session has begun.
LEMMA InitTyped == Init => TypeInv
<1> SUFFICES ASSUME Init PROVE TypeInv
  OBVIOUS
<1>1. ServedOK
  BY DEF Init, ServedOK, RowType, AnswerType, RecallType
<1>2. DrawsOK /\ CallsOK
  BY DEF Init, DrawsOK, CallsOK
<1>3. BrowserOK
  <2>1. QueueOK(<< >>) /\ << >> \in Seq(Write)
    BY DEF QueueOK
  <2>2. Blank \in TabType
    BY DEF Blank, TabType, Phases
  <2> QED BY <2>1, <2>2 DEF Init, BrowserOK
<1>4. ScreenOK
  BY DEF Init, ScreenOK, Blank
<1>5. NothingBefore /\ DrawsComplete
  BY DEF Init, NothingBefore, DrawsComplete, Underway, Answered, Blank
<1> QED BY <1>1, <1>2, <1>3, <1>4, <1>5 DEF TypeInv

\* Every step has one of these shapes.
DrawStep ==
    \E s \in Sessions :
       \/ \E a \in Arrivals[s] : StartRead(s, a[1], a[2])
       \/ StartRefuse(s)
       \/ DrawShape(s)
ScreenStep ==
    \/ \E c \in calls : ReturnShape(c)
    \/ \E s \in Sessions : \/ FireShape(s) \/ FlushShape(s) \/ DebriefShape(s)
                          \/ HideShape(s) \/ ParkShape(s)
ApiStep == \E c \in calls : ApiShape(c)

\* ... and there are no other steps.
LEMMA StepShapes == TypeInv /\ Next => DrawStep \/ ScreenStep \/ ApiStep
  BY ParticipantSteps, ReturnSteps, ApiSteps, StartDrawShape
     DEF Next, Start, DrawStep, ScreenStep, ApiStep

\* The type invariant is inductive.
LEMMA TypeInvStep == TypeInv /\ [Next]_vars => TypeInv'
<1>1. CASE UNCHANGED vars
  BY <1>1 DEF vars, served, draws, browser, TypeInv, ServedOK, DrawsOK, CallsOK, BrowserOK,
              ScreenOK, NothingBefore, DrawsComplete, Underway, Answered
<1>2. ASSUME TypeInv, DrawStep PROVE TypeInv'
  BY <1>2, ReadTyped, RefuseTyped, DrawTyped DEF DrawStep
<1>3. ASSUME TypeInv, ScreenStep PROVE TypeInv'
  BY <1>3, ReturnTyped, FireTyped, FlushTyped, DebriefTyped, HideTyped, ParkTyped
     DEF ScreenStep
<1>4. ASSUME TypeInv, ApiStep PROVE TypeInv'
  BY <1>4, ApiTyped DEF ApiStep
<1> QED BY <1>1, <1>2, <1>3, <1>4, StepShapes

\* It holds throughout.
LEMMA TypeInvAlways == Spec => []TypeInv
  BY InitTyped, TypeInvStep, PTL DEF Spec

\* Tables, calls, queue and screen hold what their columns and fields admit, whatever
\* is lost, resent, timed out or cut off by a closing page.
THEOREM TypeCorrect == Spec => []TypeOK
  BY TypeInvAlways, TypeInvTypes, PTL

-----------------------------------------------------------------------------
(* What is stored stays, and is graded on its own item *)

\* Only the api writes an answer, and only a draw writes what was drawn.
LEMMA AnswersOnlyByApi ==
  ASSUME TypeInv
  PROVE  /\ DrawStep => answers' = answers
         /\ ScreenStep => served' = served /\ draws' = draws
  BY DEF DrawStep, StartRead, StartRefuse, DrawShape, ScreenStep, ReturnShape, FireShape,
         FlushShape, DebriefShape, HideShape, ParkShape

\* A draw writes a session nobody has answered; the first answer takes its item from
\* its own session and position.
LEMMA GradedStep ==
  ASSUME TypeInv, GradedOnOwnItem, [Next]_vars
  PROVE  GradedOnOwnItem'
<1>1. CASE UNCHANGED vars
  BY <1>1 DEF vars, served, GradedOnOwnItem, Answered
<1>2. CASE DrawStep
  <2>1. answers' = answers
    BY <1>2, AnswersOnlyByApi
  <2>2. \A s \in Sessions : drawn'[s] = drawn[s] \/ ~ Underway(s)
    <3>1. ASSUME NEW s \in Sessions, DrawShape(s)
          PROVE  \A t \in Sessions : drawn'[t] = drawn[t] \/ ~ Underway(t)
      BY <3>1 DEF DrawShape, Opens, Underway, TypeInv, ServedOK
    <3> QED BY <1>2, <3>1 DEF DrawStep, StartRead, StartRefuse
  <2> QED BY <2>1, <2>2 DEF TypeInv, NothingBefore, GradedOnOwnItem, Answered
<1>3. CASE ScreenStep
  BY <1>3, AnswersOnlyByApi DEF served, GradedOnOwnItem, Answered
<1>4. CASE ApiStep
  BY <1>4 DEF ApiStep, ApiShape, AnswersGo, GradedOnOwnItem, Answered
<1> QED BY <1>1, <1>2, <1>3, <1>4, StepShapes

\* However many copies of an answer arrive, from button, timer, retry queue or beacon,
\* it is graded against the item its own session drew for that position.
THEOREM OwnItemGraded == Spec => []GradedOnOwnItem
<1>1. Init => GradedOnOwnItem
  <2> SUFFICES ASSUME Init, NEW s \in Sessions, NEW p \in Positions PROVE ~ Answered(s, p)
    BY DEF GradedOnOwnItem
  <2>1. answers[s][p].outcome = "none"
    BY DEF Init
  <2> QED BY <2>1 DEF Answered
<1>2. TypeInv /\ GradedOnOwnItem /\ [Next]_vars => GradedOnOwnItem'
  BY GradedStep
<1> QED BY <1>1, <1>2, TypeInvAlways, PTL DEF Spec

\* The first answer stored for a question is never replaced.
THEOREM FirstAnswerHolds == Spec => FirstAnswerStands
<1>1. TypeInv /\ [Next]_vars =>
        [\A s \in Sessions, p \in Positions :
            Answered(s, p) => answers'[s][p] = answers[s][p]]_vars
  <2> SUFFICES ASSUME TypeInv, Next, NEW s \in Sessions, NEW p \in Positions, Answered(s, p)
               PROVE  answers'[s][p] = answers[s][p]
    OBVIOUS
  <2>1. CASE DrawStep
    BY <2>1, AnswersOnlyByApi
  <2>2. CASE ScreenStep
    BY <2>2, AnswersOnlyByApi DEF served
  <2>3. CASE ApiStep
    BY <2>3 DEF ApiStep, ApiShape, AnswersGo
  <2> QED BY <2>1, <2>2, <2>3, StepShapes
<1> QED BY <1>1, TypeInvAlways, PTL DEF Spec, FirstAnswerStands

\* Every session that is completed got its end time in the same step.
LEMMA EndTimedStep ==
  ASSUME TypeInv, EndTimed, [Next]_vars
  PROVE  EndTimed'
<1>1. CASE UNCHANGED vars
  BY <1>1 DEF vars, served, EndTimed
<1>2. CASE DrawStep
  <2>1. PICK s \in Sessions : \/ \E a \in Arrivals[s] : StartRead(s, a[1], a[2])
                              \/ StartRefuse(s)
                              \/ DrawShape(s)
    BY <1>2 DEF DrawStep
  <2>2. Opens(s, "none", "starting") \/ Opens(s, "starting", "none")
        \/ Opens(s, "starting", "running")
    BY <2>1, StartReadShape, RefuseTyped DEF DrawShape
  <2> QED BY <2>2 DEF Opens, EndTimed
<1>3. CASE ScreenStep
  BY <1>3, AnswersOnlyByApi DEF served, EndTimed
<1>4. CASE ApiStep
  <2> SUFFICES ASSUME NEW s \in Sessions, row'[s].status = "completed"
               PROVE  row'[s].finishedAt # 0
    BY DEF EndTimed
  <2>1. row[s].finishes \in Nat
    BY DEF TypeInv, ServedOK, RowType
  <2>2. row[s].finishes + 1 # 0
    BY <2>1
  <2> QED BY <1>4, <2>2 DEF ApiStep, ApiShape, RowsGo, EndTimed
<1> QED BY <1>1, <1>2, <1>3, <1>4, StepShapes

\* In whichever order the closing calls arrive and however often, a completed session
\* keeps its end time and its debrief answer.
THEOREM FirstFinishHolds == Spec => FinishKeepsFirst
<1>1. Init => EndTimed
  <2> SUFFICES ASSUME Init, NEW s \in Sessions PROVE row[s].status # "completed"
    BY DEF EndTimed
  <2> QED BY DEF Init
<1>2. TypeInv /\ EndTimed /\ [Next]_vars => EndTimed'
  BY EndTimedStep
<1>3. TypeInv /\ EndTimed /\ [Next]_vars =>
        [\A s \in Sessions :
            row[s].status = "completed" =>
                /\ row'[s].status = "completed"
                /\ row'[s].finishedAt = row[s].finishedAt
                /\ row'[s].strategy = "" => row[s].strategy = ""]_vars
  <2> SUFFICES ASSUME TypeInv, EndTimed, Next, NEW s \in Sessions, row[s].status = "completed"
               PROVE  /\ row'[s].status = "completed"
                      /\ row'[s].finishedAt = row[s].finishedAt
                      /\ row'[s].strategy = "" => row[s].strategy = ""
    OBVIOUS
  <2>1. CASE DrawStep
    <3>1. PICK u \in Sessions : \/ \E a \in Arrivals[u] : StartRead(u, a[1], a[2])
                                \/ StartRefuse(u)
                                \/ DrawShape(u)
      BY <2>1 DEF DrawStep
    <3>2. Opens(u, "none", "starting") \/ Opens(u, "starting", "none")
          \/ Opens(u, "starting", "running")
      BY <3>1, StartReadShape, RefuseTyped DEF DrawShape
    <3> QED BY <3>2 DEF Opens
  <2>2. CASE ScreenStep
    BY <2>2, AnswersOnlyByApi DEF served
  <2>3. CASE ApiStep
    BY <2>3 DEF ApiStep, ApiShape, RowsGo, EndTimed
  <2> QED BY <2>1, <2>2, <2>3, StepShapes
<1> QED BY <1>1, <1>2, <1>3, TypeInvAlways, PTL DEF Spec, FinishKeepsFirst

-----------------------------------------------------------------------------
(* A repeat sitting draws nothing its visitor has seen *)

\* The sittings a draw excludes are other ones that stay committed, so their own
\* draws no longer change.
LEMMA RepeatRead ==
  ASSUME TypeInv, RepeatInv, NEW s \in Sessions, NEW a \in Arrivals[s],
         StartRead(s, a[1], a[2])
  PROVE  RepeatInv'
<1>1. Opens(s, "none", "starting")
  BY StartReadShape
<1>2. drawn' = drawn /\ refused' = refused /\ refused[s] = 0 /\ row[s].status = "none"
  BY DEF StartRead
<1>3. DrawsOK
  BY DEF TypeInv
<1>4. \A t \in Sessions : (Underway(t)' <=> Underway(t)) /\ (t # s => row'[t] = row[t])
  BY <1>1 DEF Opens, Underway
<1>5. /\ \A u \in Sessions : u # s => before'[u] = before[u] /\ starting'[u] = starting[u]
      /\ \A t \in before'[s] : t \in Sessions /\ t # s /\ Underway(t)
                               /\ Given({t}) \subseteq starting'[s]
  <2>1. CASE /\ starting' = [starting EXCEPT ![s] = DTSeenItems(a[1])]
             /\ before' = [before EXCEPT ![s] = Committed(a[1])]
             /\ UNCHANGED faults
    <3>1. /\ starting'[s] = Given(Committed(a[1])) /\ before'[s] = Committed(a[1])
          /\ \A u \in Sessions : u # s => before'[u] = before[u] /\ starting'[u] = starting[u]
      BY <1>3, <2>1 DEF DrawsOK, DTSeenItems
    <3>2. \A t \in Committed(a[1]) : t \in Sessions /\ t # s /\ Underway(t)
                                     /\ Given({t}) \subseteq Given(Committed(a[1]))
      BY <1>2 DEF Committed, Underway, Given
    <3> QED BY <3>1, <3>2
  <2>2. CASE Fault /\ UNCHANGED <<starting, before>>
    BY <1>2, <2>2 DEF RepeatInv
  <2> QED BY <2>1, <2>2 DEF StartRead
<1>6. \A t : Given({t})' = Given({t})
  BY <1>2 DEF Given
<1>7. RepeatDrawsUnseen'
  <2> SUFFICES ASSUME NEW u \in Sessions, NEW t \in before'[u],
                      row'[u].status \in {"running", "completed"}
               PROVE  Given({u})' \cap Given({t})' = {}
    BY DEF RepeatDrawsUnseen
  <2>1. u # s
    BY <1>1 DEF Opens
  <2>2. t \in before[u] /\ row[u].status \in {"running", "completed"}
    BY <1>4, <1>5, <2>1
  <2>3. Given({u}) \cap Given({t}) = {}
    BY <2>2 DEF RepeatInv, RepeatDrawsUnseen
  <2>4. Given({u})' = Given({u}) /\ Given({t})' = Given({t})
    BY <1>6
  <2> QED BY <2>3, <2>4
<1>8. \A u \in Sessions : \A t \in before'[u] :
         /\ t # u /\ Underway(t)'
         /\ row'[u].status = "starting" => Given({t})' \subseteq starting'[u]
  <2> SUFFICES ASSUME NEW u \in Sessions, NEW t \in before'[u]
               PROVE  /\ t # u /\ Underway(t)'
                      /\ row'[u].status = "starting" => Given({t})' \subseteq starting'[u]
    OBVIOUS
  <2>1. Given({t})' = Given({t})
    BY <1>6
  <2>2. CASE u = s
    BY <1>4, <1>5, <2>1, <2>2
  <2>3. CASE u # s
    <3>1. /\ t \in Sessions /\ t # u /\ Underway(t)
          /\ row[u].status = "starting" => Given({t}) \subseteq starting[u]
      BY <1>3, <1>5, <2>3 DEF RepeatInv, DrawsOK
    <3> QED BY <1>4, <1>5, <2>1, <2>3, <3>1
  <2> QED BY <2>2, <2>3
<1>9. \A u \in Sessions : row'[u].status = "none" /\ refused'[u] = 0 => before'[u] = {}
  BY <1>1, <1>2, <1>4, <1>5 DEF Opens, RepeatInv
<1> QED BY <1>7, <1>8, <1>9 DEF RepeatInv

\* A refused session is not begun again, and excludes nothing anew.
LEMMA RepeatRefuse ==
  ASSUME TypeInv, RepeatInv, NEW s \in Sessions, StartRefuse(s)
  PROVE  RepeatInv'
<1>1. Opens(s, "starting", "none")
  BY RefuseTyped
<1>2. drawn' = drawn /\ starting' = starting /\ before' = before
      /\ refused' = [refused EXCEPT ![s] = @ + 1]
  BY DEF StartRefuse
<1>3. DrawsOK
  BY DEF TypeInv
<1>4. \A t \in Sessions : (Underway(t)' <=> Underway(t)) /\ (t # s => row'[t] = row[t])
  BY <1>1 DEF Opens, Underway
<1>5. refused'[s] # 0 /\ \A t \in Sessions : t # s => refused'[t] = refused[t]
  BY <1>2, <1>3 DEF DrawsOK
<1>6. \A t : Given({t})' = Given({t})
  BY <1>2 DEF Given
<1>7. RepeatDrawsUnseen'
  <2> SUFFICES ASSUME NEW u \in Sessions, NEW t \in before[u],
                      row'[u].status \in {"running", "completed"}
               PROVE  Given({u})' \cap Given({t})' = {}
    BY <1>2 DEF RepeatDrawsUnseen
  <2>1. row[u].status \in {"running", "completed"}
    BY <1>1, <1>4 DEF Opens
  <2>2. Given({u}) \cap Given({t}) = {}
    BY <2>1 DEF RepeatInv, RepeatDrawsUnseen
  <2>3. Given({u})' = Given({u}) /\ Given({t})' = Given({t})
    BY <1>6
  <2> QED BY <2>2, <2>3
<1>8. \A u \in Sessions : \A t \in before'[u] :
         /\ t # u /\ Underway(t)'
         /\ row'[u].status = "starting" => Given({t})' \subseteq starting'[u]
  <2> SUFFICES ASSUME NEW u \in Sessions, NEW t \in before[u]
               PROVE  /\ t # u /\ Underway(t)'
                      /\ row'[u].status = "starting" => Given({t})' \subseteq starting[u]
    BY <1>2
  <2>1. Given({t})' = Given({t})
    BY <1>6
  <2>2. /\ t \in Sessions /\ t # u /\ Underway(t)
        /\ row[u].status = "starting" => Given({t}) \subseteq starting[u]
    BY <1>3 DEF RepeatInv, DrawsOK
  <2> QED BY <1>1, <1>4, <2>1, <2>2 DEF Opens
<1>9. \A u \in Sessions : row'[u].status = "none" /\ refused'[u] = 0 => before'[u] = {}
  BY <1>2, <1>4, <1>5 DEF RepeatInv
<1> QED BY <1>7, <1>8, <1>9 DEF RepeatInv

\* The draw itself avoids what was excluded; nobody's exclusion waits for it.
LEMMA RepeatDraw ==
  ASSUME TypeInv, RepeatInv, NEW s \in Sessions, DrawShape(s)
  PROVE  RepeatInv'
<1>1. PICK d \in [Positions -> Items \ starting[s]] : drawn' = [drawn EXCEPT ![s] = d]
  BY DEF DrawShape
<1>2. /\ Opens(s, "starting", "running") /\ row[s].status = "starting" /\ ~ Underway(s)
      /\ starting' = starting /\ before' = before /\ refused' = refused
  BY DEF DrawShape, draws, Opens, Underway
<1>3. DrawsOK /\ drawn'[s] = d /\ \A t \in Sessions : t # s => drawn'[t] = drawn[t]
  BY <1>1 DEF TypeInv, ServedOK
<1>4. \A t \in Sessions : (Underway(t) => Underway(t)') /\ (t # s => row'[t] = row[t])
  BY <1>2 DEF Opens, Underway
<1>5. \A t \in Sessions : t # s => Given({t})' = Given({t})
  BY <1>3 DEF Given
<1>6. \A u \in Sessions : \A t \in before[u] : t # s /\ t # u /\ t \in Sessions /\ Underway(t)
  BY <1>2, <1>3 DEF RepeatInv, DrawsOK
<1>7. \A i \in Given({s})' : i \notin starting[s]
  <2>1. \A p \in Positions : d[p] \notin starting[s]
    OBVIOUS
  <2> QED BY <1>3, <2>1 DEF Given
<1>8. RepeatDrawsUnseen'
  <2> SUFFICES ASSUME NEW u \in Sessions, NEW t \in before[u],
                      row'[u].status \in {"running", "completed"}
               PROVE  Given({u})' \cap Given({t})' = {}
    BY <1>2 DEF RepeatDrawsUnseen
  <2>1. Given({t})' = Given({t})
    BY <1>5, <1>6
  <2>2. CASE u = s
    BY <1>2, <1>7, <2>1, <2>2 DEF RepeatInv
  <2>3. CASE u # s
    BY <1>4, <1>5, <2>1, <2>3 DEF RepeatInv, RepeatDrawsUnseen
  <2> QED BY <2>2, <2>3
<1>9. \A u \in Sessions : \A t \in before'[u] :
         /\ t # u /\ Underway(t)'
         /\ row'[u].status = "starting" => Given({t})' \subseteq starting'[u]
  BY <1>2, <1>4, <1>5, <1>6 DEF Opens, RepeatInv
<1>10. \A u \in Sessions : row'[u].status = "none" /\ refused'[u] = 0 => before'[u] = {}
  BY <1>2, <1>4 DEF Opens, RepeatInv
<1> QED BY <1>8, <1>9, <1>10 DEF RepeatInv

\* A repeat sitting of a recognised visitor shares no item with the real sittings
\* committed when its draw began.
THEOREM RepeatsAreUnseen == Spec => []RepeatDrawsUnseen
<1>1. Init => RepeatInv
  BY DEF Init, RepeatInv, RepeatDrawsUnseen
<1>2. TypeInv /\ RepeatInv /\ [Next]_vars => RepeatInv'
  <2> SUFFICES ASSUME TypeInv, RepeatInv, [Next]_vars PROVE RepeatInv'
    OBVIOUS
  <2> DEFINE Quiet == /\ drawn' = drawn /\ starting' = starting /\ before' = before
                      /\ refused' = refused
                      /\ \A s \in Sessions : \/ row'[s] = row[s]
                                             \/ Underway(s) /\ row'[s].status = "completed"
  <2>1. ASSUME Quiet PROVE RepeatInv'
    <3>1. \A t \in Sessions : Underway(t) <=> Underway(t)'
      BY <2>1 DEF Underway
    <3>2. \A t : Given({t})' = Given({t})
      BY <2>1 DEF Given
    <3>3. DrawsOK
      BY DEF TypeInv
    <3> QED BY <2>1, <3>1, <3>2, <3>3 DEF RepeatInv, RepeatDrawsUnseen, Underway, DrawsOK
  <2>2. CASE UNCHANGED vars
    BY <2>1, <2>2 DEF vars, served, draws
  <2>3. CASE DrawStep
    BY <2>3, RepeatRead, RepeatRefuse, RepeatDraw DEF DrawStep
  <2>4. CASE ScreenStep
    BY <2>1, <2>4, AnswersOnlyByApi DEF served, draws
  <2>5. CASE ApiStep
    BY <2>1, <2>5 DEF ApiStep, ApiShape, RowsGo, draws
  <2> QED BY <2>2, <2>3, <2>4, <2>5, StepShapes
<1>3. RepeatInv => RepeatDrawsUnseen
  BY DEF RepeatInv
<1> QED BY <1>1, <1>2, <1>3, TypeInvAlways, PTL DEF Spec

-----------------------------------------------------------------------------
(* No submitted answer vanishes while the page lives *)

\* Where a submitted answer may be.
InFlight(s, p) == \E c \in calls : c.s = s /\ c.op = "answer" /\ c.n = p /\ c.open
InQueue(s, p)  == \E i \in DOMAIN queue[s] : queue[s][i].op = "answer" /\ queue[s][i].n = p
Kept(s, p) ==
    \/ tab[s].phase = "gone" \/ Answered(s, p) \/ InFlight(s, p) \/ InQueue(s, p)
    \/ <<"answer", p>> \in gaveUp[s]

Acked == \A c \in calls : c.op = "answer" /\ c.srv = "ok" => Answered(c.s, c.n)
GoneWaits ==
    \A s \in Sessions :
       tab[s].phase = "gone" => queue[s] = << >> /\ \A c \in calls : c.s = s => ~ c.open

\* The invariant in three parts,
LEMMA LossParts ==
  LossInv <=> /\ Acked /\ GoneWaits /\ NoSilentLoss
  BY DEF LossInv, Acked, GoneWaits

\* the last of which says where each submitted answer is.
LEMMA LossKept == NoSilentLoss <=> \A s \in Sessions : \A p \in Submitted(s) : Kept(s, p)
  BY DEF NoSilentLoss, Kept, InFlight, InQueue

\* The api moves a call on, and stores an answer before it acknowledges it.
LEMMA LossApi ==
  ASSUME TypeInv, Acked, GoneWaits, NEW c \in calls, ApiShape(c)
  PROVE  /\ Acked' /\ GoneWaits'
         /\ \A s \in Sessions, p \in Positions : Kept(s, p) => Kept(s, p)'
         /\ fired' = fired
<1>1. PICK d : /\ Becomes(c, d, {}) /\ d.open = c.open
               /\ d.op = "answer" /\ d.srv = "ok" => answers'[d.s][d.n].outcome # "none"
  BY DEF ApiShape
<1>2. tab' = tab /\ queue' = queue /\ fired' = fired /\ gaveUp' = gaveUp
  BY DEF ApiShape, browser
<1>3. \A s \in Sessions, p \in Positions : Answered(s, p) => Answered(s, p)'
  BY DEF ApiShape, AnswersGo, Answered
<1>4. Acked'
  <2> SUFFICES ASSUME NEW e \in calls', e.op = "answer", e.srv = "ok"
               PROVE  answers'[e.s][e.n].outcome # "none"
    BY DEF Acked, Answered
  <2>1. CASE e \in calls
    <3>1. e.s \in Sessions /\ e.n \in Positions /\ Answered(e.s, e.n)
      BY <2>1, CallFacts DEF Acked
    <3> QED BY <1>3, <3>1 DEF Answered
  <2> QED BY <1>1, <2>1 DEF Becomes
<1>5. GoneWaits'
  BY <1>1, <1>2 DEF GoneWaits, Becomes, Same
<1>6. ASSUME NEW s \in Sessions, NEW p \in Positions, InFlight(s, p) PROVE InFlight(s, p)'
  <2>1. PICK e \in calls : e.s = s /\ e.op = "answer" /\ e.n = p /\ e.open
    BY <1>6 DEF InFlight
  <2> QED BY <1>1, <2>1 DEF InFlight, Becomes, Same
<1>7. \A s \in Sessions, p \in Positions : Kept(s, p) => Kept(s, p)'
  BY <1>2, <1>3, <1>6 DEF Kept, InQueue
<1> QED BY <1>2, <1>4, <1>5, <1>7

\* What the screen no longer awaits was acknowledged, queued or given up aloud.
LEMMA LossReturn ==
  ASSUME TypeInv, Acked, GoneWaits, NEW c \in calls, ReturnShape(c)
  PROVE  /\ Acked' /\ GoneWaits'
         /\ \A s \in Sessions, p \in Positions : Kept(s, p) => Kept(s, p)'
         /\ fired' = fired
<1>1. PICK d, new : /\ Becomes(c, d, new) /\ d.open = FALSE /\ d.srv = c.srv
                    /\ \A e \in new : /\ CallOK(e) /\ e.s = c.s /\ e.srv = "sent"
                                      /\ e.op # "answer"
  BY DEF ReturnShape
<1>2. /\ answers' = answers /\ fired' = fired /\ TabGoes(c.s) /\ c.s \in Sessions
      /\ queue \in [Sessions -> Seq(Write)] /\ \A s \in Sessions : QueueOK(queue[s])
  BY CallFacts DEF ReturnShape, served, TypeInv, BrowserOK
<1>3. tab[c.s].phase # "gone" /\ tab'[c.s].phase # "gone"
  BY <1>2 DEF GoneWaits, ReturnShape, TabGoes
<1>4. Acked'
  <2> SUFFICES ASSUME NEW e \in calls', e.op = "answer", e.srv = "ok"
               PROVE  answers[e.s][e.n].outcome # "none"
    BY <1>2 DEF Acked, Answered
  <2>1. CASE e \in calls
    BY <2>1 DEF Acked, Answered
  <2>2. CASE e = d
    BY <1>1, <2>2 DEF Acked, Answered, Becomes, Same
  <2> QED BY <1>1, <2>1, <2>2 DEF Becomes
<1>5. \A s \in Sessions : s # c.s => queue'[s] = queue[s] /\ tab'[s] = tab[s]
  BY <1>2 DEF ReturnShape, Queued, TabGoes
<1>6. GoneWaits'
  <2> SUFFICES ASSUME NEW s \in Sessions, tab'[s].phase = "gone"
               PROVE  queue'[s] = << >> /\ \A e \in calls' : e.s = s => ~ e.open
    BY DEF GoneWaits
  <2>1. s # c.s
    BY <1>3
  <2>2. queue[s] = << >> /\ queue'[s] = << >> /\ \A e \in calls : e.s = s => ~ e.open
    BY <1>5, <2>1 DEF GoneWaits
  <2> QED BY <1>1, <2>1, <2>2 DEF Becomes, Same
<1>7. ASSUME Queued(c)
      PROVE  /\ \A s \in Sessions, p \in Positions : InQueue(s, p) => InQueue(s, p)'
             /\ c.op = "answer" => InQueue(c.s, c.n)'
  <2>1. PICK w : /\ WriteOK(w) /\ w.op = c.op /\ w.n = c.n
                 /\ queue' = [queue EXCEPT ![c.s] = Append(@, w)]
    BY <1>7 DEF Queued
  <2> DEFINE old == queue[c.s]
             q == Append(old, w)
  <2>2. /\ \A i \in DOMAIN old : i \in DOMAIN q /\ q[i] = old[i]
        /\ \E i \in DOMAIN q : q[i] = w
    BY <1>2, <2>1, QueueAppend
  <2>3. queue'[c.s] = q
    BY <1>2, <2>1
  <2> HIDE DEF q
  <2>4. c.op = "answer" => InQueue(c.s, c.n)'
    BY <2>1, <2>2, <2>3 DEF InQueue
  <2>5. ASSUME NEW s \in Sessions, NEW p \in Positions, InQueue(s, p) PROVE InQueue(s, p)'
    <3>1. CASE s # c.s
      BY <1>5, <2>5, <3>1 DEF InQueue
    <3>2. CASE s = c.s
      BY <2>2, <2>3, <2>5, <3>2 DEF InQueue
    <3> QED BY <3>1, <3>2
  <2> QED BY <2>4, <2>5
<1>8. \A s \in Sessions, p \in Positions : InQueue(s, p) => InQueue(s, p)'
  <2>1. CASE queue' = queue
    BY <2>1 DEF InQueue
  <2> QED BY <1>7, <2>1 DEF ReturnShape
<1>9. ASSUME NEW s \in Sessions, NEW p \in Positions, InFlight(s, p)
      PROVE  Kept(s, p)'
  <2>1. PICK e \in calls : e.s = s /\ e.op = "answer" /\ e.n = p /\ e.open
    BY <1>9 DEF InFlight
  <2>2. CASE e # c
    BY <1>1, <2>1, <2>2 DEF Kept, InFlight, Becomes
  <2>3. CASE e = c
    <3>1. CASE c.srv = "ok"
      BY <1>2, <2>1, <2>3, <3>1 DEF Acked, Kept, Answered
    <3>2. CASE Queued(c)
      BY <1>7, <2>1, <2>3, <3>2 DEF Kept
    <3>3. CASE <<c.op, c.n>> \in gaveUp'[c.s]
      BY <2>1, <2>3, <3>3 DEF Kept
    <3> QED BY <2>1, <2>3, <3>1, <3>2, <3>3 DEF ReturnShape
  <2> QED BY <2>2, <2>3
<1>10. ASSUME NEW s \in Sessions, NEW p \in Positions, Kept(s, p) PROVE Kept(s, p)'
  <2>1. CASE tab[s].phase = "gone"
    BY <1>3, <1>5, <2>1 DEF Kept
  <2>2. CASE Answered(s, p)
    BY <1>2, <2>2 DEF Kept, Answered
  <2>3. CASE <<"answer", p>> \in gaveUp[s]
    BY <2>3 DEF Kept, ReturnShape
  <2>4. CASE InQueue(s, p)
    BY <1>8, <2>4 DEF Kept
  <2> QED BY <1>9, <1>10, <2>1, <2>2, <2>3, <2>4 DEF Kept
<1> QED BY <1>2, <1>4, <1>6, <1>10

\* What a button or the timer submits is in flight at once.
LEMMA LossFire ==
  ASSUME TypeInv, Acked, GoneWaits, NEW s \in Sessions, FireShape(s)
  PROVE  /\ Acked' /\ GoneWaits'
         /\ \A t \in Sessions, p \in Positions : Kept(t, p) => Kept(t, p)'
         /\ \A t \in Sessions : \A p \in Submitted(t)' : p \in Submitted(t) \/ Kept(t, p)'
<1>1. PICK c : /\ Leaves(c) /\ c.s = s
               /\ c.op = "answer" => tab[s].block \in Blocks
               /\ fired' = [fired EXCEPT ![s] = @ \cup {<<c.op, c.n, c.by>>}]
               /\ c.op \in {"answer", "recall"} /\ c.by \in {"press", "timer"}
  BY DEF FireShape
<1>2. answers' = answers /\ tab' = tab /\ queue' = queue /\ gaveUp' = gaveUp
      /\ tab[s].phase # "gone"
  BY DEF FireShape, served
<1>3. Acked' /\ GoneWaits'
  BY <1>1, <1>2 DEF Acked, GoneWaits, Leaves, Answered
<1>4. \A t \in Sessions, p \in Positions : Kept(t, p) => Kept(t, p)'
  BY <1>1, <1>2 DEF Kept, InFlight, InQueue, Answered, Leaves
<1>5. ASSUME NEW t \in Sessions, NEW p \in Submitted(t)'
      PROVE  p \in Submitted(t) \/ Kept(t, p)'
  <2>1. PICK by \in {"press", "timer"} : p \in Positions /\ <<"answer", p, by>> \in fired'[t]
    BY <1>5 DEF Submitted
  <2>2. <<"answer", p, by>> \in fired[t]
        \/ (t = s /\ <<"answer", p, by>> = <<c.op, c.n, c.by>>)
    BY <1>1, <2>1, ScreenFacts
  <2>3. CASE <<"answer", p, by>> \in fired[t]
    BY <2>1, <2>3 DEF Submitted
  <2>4. CASE t = s /\ <<"answer", p, by>> = <<c.op, c.n, c.by>>
    <3>1. c.op = "answer" /\ c.n = p /\ c \in calls' /\ c.open = TRUE
      BY <1>1, <2>4 DEF Leaves
    <3> QED BY <1>1, <2>4, <3>1 DEF Kept, InFlight
  <2> QED BY <2>2, <2>3, <2>4
<1> QED BY <1>3, <1>4, <1>5

\* What leaves the head of the queue is in flight at once.
LEMMA LossFlush ==
  ASSUME TypeInv, Acked, GoneWaits, NEW s \in Sessions, FlushShape(s)
  PROVE  /\ Acked' /\ GoneWaits'
         /\ \A t \in Sessions, p \in Positions : Kept(t, p) => Kept(t, p)'
         /\ fired' = fired
<1>1. PICK c : /\ Leaves(c) /\ c.s = s /\ c.by = "retry"
               /\ c.op = queue[s][1].op /\ c.n = queue[s][1].n
  BY DEF FlushShape
<1>2. /\ answers' = answers /\ tab' = tab /\ gaveUp' = gaveUp /\ fired' = fired
      /\ queue[s] # << >> /\ queue' = [queue EXCEPT ![s] = Tail(@)]
      /\ tab[s].phase # "gone" /\ QueueOK(queue[s])
  BY ScreenFacts DEF FlushShape, served, GoneWaits
<1> DEFINE old == queue[s]
           q == Tail(old)
<1>3. \A i \in DOMAIN old : i = 1 \/ (i - 1 \in DOMAIN q /\ q[i - 1] = old[i])
  BY <1>2, QueueTail
<1>4. queue'[s] = q /\ \A t \in Sessions : t # s => queue'[t] = queue[t]
  BY <1>2, ScreenFacts
<1> HIDE DEF q
<1>5. Acked' /\ GoneWaits'
  BY <1>1, <1>2, <1>4 DEF Acked, GoneWaits, Leaves, Answered
<1>6. ASSUME NEW t \in Sessions, NEW p \in Positions, InQueue(t, p)
      PROVE  InQueue(t, p)' \/ InFlight(t, p)'
  <2>1. CASE t # s
    BY <1>4, <1>6, <2>1 DEF InQueue
  <2>2. CASE t = s
    <3>1. PICK i \in DOMAIN old : old[i].op = "answer" /\ old[i].n = p
      BY <1>6, <2>2 DEF InQueue
    <3>2. CASE i = 1
      BY <1>1, <2>2, <3>1, <3>2 DEF InFlight, Leaves
    <3>3. CASE i - 1 \in DOMAIN q /\ q[i - 1] = old[i]
      BY <1>4, <2>2, <3>1, <3>3 DEF InQueue
    <3> QED BY <1>3, <3>1, <3>2, <3>3
  <2> QED BY <2>1, <2>2
<1>7. \A t \in Sessions, p \in Positions : Kept(t, p) => Kept(t, p)'
  BY <1>1, <1>2, <1>6 DEF Kept, InFlight, Answered, Leaves
<1> QED BY <1>2, <1>5, <1>7

\* The debrief neither stores nor drops an answer.
LEMMA LossDebrief ==
  ASSUME TypeInv, Acked, GoneWaits, NEW s \in Sessions, DebriefShape(s)
  PROVE  /\ Acked' /\ GoneWaits'
         /\ \A t \in Sessions, p \in Positions : Kept(t, p) => Kept(t, p)'
         /\ fired' = fired
<1>1. PICK c : Leaves(c) /\ c.s = s /\ c.op = "finish"
  BY DEF DebriefShape
<1>2. /\ answers' = answers /\ gaveUp' = gaveUp /\ fired' = fired /\ queue' = queue
      /\ tab[s].phase # "gone" /\ TabGoes(s)
  BY DEF DebriefShape, served
<1>3. tab'[s].phase # "gone" /\ \A t \in Sessions : t # s => tab'[t] = tab[t]
  BY <1>2 DEF TabGoes
<1>4. Acked' /\ GoneWaits'
  BY <1>1, <1>2, <1>3 DEF Acked, GoneWaits, Leaves, Answered
<1>5. \A t \in Sessions, p \in Positions : Kept(t, p) => Kept(t, p)'
  BY <1>1, <1>2, <1>3 DEF Kept, InFlight, InQueue, Answered, Leaves
<1> QED BY <1>2, <1>4, <1>5

\* A page that goes takes only its own calls and queue with it.
LEMMA LossHide ==
  ASSUME TypeInv, Acked, GoneWaits, NEW s \in Sessions, HideShape(s)
  PROVE  /\ Acked' /\ GoneWaits'
         /\ \A t \in Sessions, p \in Positions : Kept(t, p) => Kept(t, p)'
         /\ fired' = fired
<1>1. \A e \in calls' :
         \/ e \in calls /\ e.s # s
         \/ /\ CallOK(e) /\ e.s = s /\ e.open = FALSE
            /\ \/ e.by = "beacon" /\ e.srv = "sent"
               \/ \E c \in calls : Same(c, e) /\ e.srv = c.srv
  BY DEF HideShape
<1>2. /\ answers' = answers /\ gaveUp' = gaveUp /\ fired' = fired
      /\ queue'[s] = << >> /\ \A t \in Sessions : t # s => queue'[t] = queue[t]
      /\ tab'[s].phase = "gone" /\ \A t \in Sessions : t # s => tab'[t] = tab[t]
      /\ \A e \in calls : e.s # s => e \in calls'
  BY ScreenFacts DEF HideShape, served
<1>3. Acked'
  BY <1>1, <1>2 DEF Acked, Answered, Same
<1>4. GoneWaits'
  BY <1>1, <1>2 DEF GoneWaits
<1>5. \A t \in Sessions, p \in Positions : Kept(t, p) => Kept(t, p)'
  BY <1>2 DEF Kept, InFlight, InQueue, Answered
<1> QED BY <1>2, <1>3, <1>4, <1>5

\* One that comes back has handed over what was queued.
LEMMA LossPark ==
  ASSUME TypeInv, Acked, GoneWaits, NEW s \in Sessions, ParkShape(s)
  PROVE  /\ Acked' /\ GoneWaits'
         /\ \A t \in Sessions, p \in Positions : Kept(t, p) => Kept(t, p)'
         /\ fired' = fired
<1>1. /\ \A e \in calls' : \/ e \in calls
                           \/ CallOK(e) /\ e.s = s /\ e.by = "beacon" /\ e.srv = "sent"
      /\ calls \subseteq calls' /\ tab[s].phase # "gone"
      /\ \A t \in Sessions : gaveUp[t] \subseteq gaveUp'[t]
      /\ \A i \in DOMAIN queue[s] : <<queue[s][i].op, queue[s][i].n>> \in gaveUp'[s]
  BY DEF ParkShape
<1>2. /\ answers' = answers /\ fired' = fired /\ tab' = tab
      /\ queue'[s] = << >> /\ \A t \in Sessions : t # s => queue'[t] = queue[t]
  BY ScreenFacts DEF ParkShape, served
<1>3. Acked'
  BY <1>1, <1>2 DEF Acked, Answered
<1>4. GoneWaits'
  BY <1>1, <1>2 DEF GoneWaits
<1>5. ASSUME NEW t \in Sessions, NEW p \in Positions, InQueue(t, p)
      PROVE  InQueue(t, p)' \/ <<"answer", p>> \in gaveUp'[t]
  BY <1>1, <1>2, <1>5 DEF InQueue
<1>6. \A t \in Sessions, p \in Positions : Kept(t, p) => Kept(t, p)'
  BY <1>1, <1>2, <1>5 DEF Kept, InFlight, Answered
<1> QED BY <1>2, <1>3, <1>4, <1>6

\* A draw opens a screen nobody has answered on.
LEMMA LossDraw ==
  ASSUME TypeInv, Acked, GoneWaits, DrawStep
  PROVE  /\ Acked' /\ GoneWaits' /\ fired' = fired
         /\ \A t \in Sessions : \A p \in Submitted(t) : Kept(t, p) => Kept(t, p)'
<1>1. answers' = answers
  BY AnswersOnlyByApi
<1>2. CASE /\ tab' = tab /\ calls' = calls /\ queue' = queue /\ fired' = fired
           /\ gaveUp' = gaveUp
  BY <1>1, <1>2 DEF Acked, GoneWaits, Kept, InFlight, InQueue, Answered
<1>3. ASSUME NEW s \in Sessions, DrawShape(s), TabGoes(s),
             NEW c, Leaves(c), c.s = s, c.op = "fetch"
      PROVE  /\ Acked' /\ GoneWaits' /\ fired' = fired
             /\ \A t \in Sessions : \A p \in Submitted(t) : Kept(t, p) => Kept(t, p)'
  <2>1. queue' = queue /\ fired' = fired /\ gaveUp' = gaveUp
    BY <1>3 DEF DrawShape
  <2>2. tab[s].phase = "closed" /\ fired[s] = {}
    BY <1>3 DEF DrawShape, Opens, Underway, TypeInv, NothingBefore
  <2>3. tab'[s].phase # "gone" /\ \A t \in Sessions : t # s => tab'[t] = tab[t]
    BY <1>3, <2>2 DEF TabGoes
  <2>4. Acked' /\ GoneWaits'
    BY <1>1, <1>3, <2>1, <2>3 DEF Acked, GoneWaits, Leaves, Answered
  <2>5. Submitted(s) = {}
    BY <2>2 DEF Submitted
  <2>6. \A t \in Sessions : \A p \in Submitted(t) : Kept(t, p) => Kept(t, p)'
    BY <1>1, <1>3, <2>1, <2>3, <2>5 DEF Kept, InFlight, InQueue, Answered, Leaves
  <2> QED BY <2>1, <2>4, <2>6
<1>4. \/ /\ tab' = tab /\ calls' = calls /\ queue' = queue /\ fired' = fired
         /\ gaveUp' = gaveUp
      \/ \E s \in Sessions : /\ DrawShape(s) /\ TabGoes(s)
                             /\ \E c : Leaves(c) /\ c.s = s /\ c.op = "fetch"
  <2>1. ASSUME NEW s \in Sessions, DrawShape(s)
        PROVE  \/ /\ tab' = tab /\ calls' = calls /\ queue' = queue /\ fired' = fired
                  /\ gaveUp' = gaveUp
               \/ TabGoes(s) /\ \E c : Leaves(c) /\ c.s = s /\ c.op = "fetch"
    BY <2>1 DEF DrawShape
  <2> QED BY <2>1 DEF DrawStep, StartRead, StartRefuse, browser
<1> QED BY <1>2, <1>3, <1>4

\* The invariant is inductive.
LEMMA LossInvStep == TypeInv /\ LossInv /\ [Next]_vars => LossInv'
<1> SUFFICES ASSUME TypeInv, Acked, GoneWaits, NoSilentLoss, [Next]_vars
             PROVE  LossInv'
  BY LossParts
<1>1. \A s \in Sessions : \A p \in Submitted(s) : Kept(s, p) /\ p \in Positions
  BY LossKept DEF Submitted
<1>2. ASSUME /\ Acked' /\ GoneWaits'
             /\ \A s \in Sessions : \A p \in Submitted(s) : Kept(s, p) => Kept(s, p)'
             /\ \A s \in Sessions : \A p \in Submitted(s)' : p \in Submitted(s) \/ Kept(s, p)'
      PROVE  LossInv'
  <2>1. \A s \in Sessions : \A p \in Submitted(s)' : Kept(s, p)'
    BY <1>1, <1>2
  <2>2. NoSilentLoss'
    BY <2>1 DEF NoSilentLoss, Kept, InFlight, InQueue
  <2> QED BY <1>2, <2>2 DEF LossInv, Acked, GoneWaits
<1>3. ASSUME /\ Acked' /\ GoneWaits' /\ fired' = fired
             /\ \A s \in Sessions : \A p \in Submitted(s) : Kept(s, p) => Kept(s, p)'
      PROVE  LossInv'
  <2>1. \A s \in Sessions : Submitted(s)' = Submitted(s)
    BY <1>3 DEF Submitted
  <2> QED BY <1>2, <1>3, <2>1
<1>4. CASE UNCHANGED vars
  BY <1>3, <1>4 DEF vars, served, browser, Acked, GoneWaits, Kept, InFlight, InQueue, Answered
<1>5. CASE DrawStep
  BY <1>3, <1>5, LossDraw
<1>6. CASE ApiStep
  BY <1>1, <1>3, <1>6, LossApi DEF ApiStep
<1>7. CASE ScreenStep
  BY <1>1, <1>2, <1>3, <1>7, LossReturn, LossFire, LossFlush, LossDebrief,
     LossHide, LossPark
     DEF ScreenStep
<1> QED BY <1>4, <1>5, <1>6, <1>7, StepShapes

\* While the page lives, an answer the screen submitted is stored, on its way, waiting
\* to be resent, reported as given up, or handed to the browser by a page that was hidden
\* and came back: none vanishes in between.
THEOREM NothingIsLost == Spec => []NoSilentLoss
<1>1. Init => LossInv
  BY DEF Init, LossInv, NoSilentLoss, Submitted, Blank
<1>2. LossInv => NoSilentLoss
  BY DEF LossInv
<1> QED BY <1>1, <1>2, LossInvStep, TypeInvAlways, PTL DEF Spec
=============================================================================
