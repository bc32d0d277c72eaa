----------------------------- MODULE DecisionTest -----------------------------
(***************************************************************************)
(* One sitting of the decision test, from the draw of its questions to the *)
(* debrief: the api's session, draw, answer, recall and finish handlers,   *)
(* and the run screen that calls them over an unreliable network and       *)
(* resends what failed in the background.                                  *)
(*                                                                         *)
(* An RPC in flight is a record of `calls`.  The server moves it from sent *)
(* to admitted (the status check), to ok (the write), or refuses it; the   *)
(* browser may stop waiting at any point, and the copy it sent lives on.   *)
(* Several calls about the same question or block can be under way: a      *)
(* button press, the phase timer, a background retry.                      *)
(***************************************************************************)
EXTENDS Integers, FiniteSets, Sequences

CONSTANTS
    Sessions,       \* dt_sessions rows
    Played,         \* the sessions somebody sits; the others are left at once
    Visitors,       \* visitor keys
    Arrivals,       \* bound: the visitors, real or synthetic, that may open each session
    Items,          \* the active scored bank
    FamilyOf,       \* the category of each item
    Slots,          \* dtSlotFamilies: the categories of a block, in order
    BlockCount,     \* DTBlockCount
    Choices,        \* how a chosen option stands to the item that was shown
    Strategies,     \* the debrief answers
    MaxTries,       \* BACKOFF_MS.length: resends before a write is given up
    MaxFaults,      \* bound: lost requests, lost replies, failed lookups, and
                    \*   submissions made by a button and by the timer as well
    NoVisitor, NoItem

ASSUME SessionsAssumption ==
    /\ Played \subseteq Sessions
    /\ Arrivals \in [Sessions -> SUBSET ((Visitors \cup {NoVisitor}) \X BOOLEAN)]
ASSUME BankAssumption ==
    /\ FamilyOf \in [Items -> STRING]
    /\ Slots \in Seq(STRING) /\ Slots # << >>
    /\ BlockCount \in Nat \ {0}
    /\ NoItem \notin Items /\ NoVisitor \notin Visitors
ASSUME ClientAssumption ==
    /\ "" \notin Strategies /\ {"none", "expired"} \cap Choices = {}
    /\ MaxTries \in Nat /\ MaxFaults \in Nat

PerBlock    == Len(Slots)
Blocks      == 1..BlockCount
Positions   == 1..(BlockCount * PerBlock)
BlockOf(p)  == ((p - 1) \div PerBlock) + 1
SlotOf(p)   == ((p - 1) % PerBlock) + 1
First(b)    == (b - 1) * PerBlock + 1
Answers     == Choices \cup {"expired"}

VARIABLES
    row,        \* dt_sessions
    drawn,      \* dt_session_items
    answers,    \* dt_answers
    recalls,    \* dt_recalls
    starting,   \* StartDecisionTest: the exclusion set read before the draw
    before,     \* history: the sittings committed when a session's draw was begun
    refused,    \* history: sittings refused because a category ran short
    calls,      \* RPCs under way
    tab,        \* the run screen
    queue,      \* decision-test-retry.ts: writes waiting to be resent
    fired,      \* history: the buttons and timers that submitted a question or a block
    gaveUp,     \* history: writes the page follows no more: reported as given up, or
                \*   handed to the browser as beacons by a page that came back
    faults      \* network faults so far

served  == <<row, drawn, answers, recalls>>
draws   == <<starting, before, refused>>
browser == <<tab, queue, fired, gaveUp>>
vars    == <<served, draws, browser, calls, faults>>

Call  == [s : Sessions, op : {"answer", "recall", "fetch", "finish"},
          n : Nat, by : {"press", "timer", "retry", "beacon", "debrief"},
          val : Answers \cup Strategies \cup {""}, num : Nat, got : Nat,
          srv : {"sent", "admitted", "ok", "refused", "lost"}, open : BOOLEAN, tries : Nat]
Write == [op : {"answer", "recall"}, n : Nat, val : Answers \cup {""}, num : Nat,
          tries : Nat]
Phases == {"closed", "fetching", "question", "recall", "debrief", "finishing", "gone"}

\* Tables, calls and screen hold what their columns and fields admit.
TypeOK ==
    /\ row \in [Sessions -> [status : {"none", "starting", "running", "completed"},
                             visitor : Visitors \cup {NoVisitor}, synthetic : BOOLEAN,
                             strategy : Strategies \cup {""},
                             finishes : Nat, finishedAt : Nat]]
    /\ drawn   \in [Sessions -> [Positions -> Items \cup {NoItem}]]
    /\ answers \in [Sessions -> [Positions -> [item : Items \cup {NoItem},
                                               outcome : Answers \cup {"none"},
                                               confidence : Nat]]]
    /\ recalls \in [Sessions -> [Blocks -> [digits : Nat,
                       outcome : {"none", "expired", "exact", "wrong_digits"}]]]
    /\ starting \in [Sessions -> SUBSET Items]
    /\ before   \in [Sessions -> SUBSET Sessions]
    /\ refused  \in [Sessions -> Nat]
    /\ \A c \in calls : c \in Call /\ (c.op = "fetch" => c.n \in Blocks)
    /\ tab \in [Sessions -> [phase : Phases, block : Nat, pos : Nat, digits : Nat]]
    /\ queue  \in [Sessions -> Seq(Write)]
    /\ fired  \in [Sessions -> SUBSET ({"answer", "recall"} \X Nat \X {"press", "timer"})]
    /\ gaveUp \in [Sessions -> SUBSET ({"answer", "recall"} \X Nat)]
    /\ faults \in Nat

Blank == [phase |-> "closed", block |-> 0, pos |-> 0, digits |-> 0]

Init ==
    /\ row = [s \in Sessions |->
                [status |-> "none", visitor |-> NoVisitor, synthetic |-> FALSE,
                 strategy |-> "", finishes |-> 0, finishedAt |-> 0]]
    /\ drawn    = [s \in Sessions |-> [p \in Positions |-> NoItem]]
    /\ answers  = [s \in Sessions |-> [p \in Positions |->
                                         [item |-> NoItem, outcome |-> "none", confidence |-> 0]]]
    /\ recalls  = [s \in Sessions |-> [b \in Blocks |-> [digits |-> 0, outcome |-> "none"]]]
    /\ starting = [s \in Sessions |-> {}]
    /\ before   = [s \in Sessions |-> {}]
    /\ refused  = [s \in Sessions |-> 0]
    /\ calls    = {}
    /\ tab      = [s \in Sessions |-> Blank]
    /\ queue    = [s \in Sessions |-> << >>]
    /\ fired    = [s \in Sessions |-> {}]
    /\ gaveUp   = [s \in Sessions |-> {}]
    /\ faults   = 0

\* A call leaves the browser with its payload: in val the answer or the debrief
\* answer, in num the confidence or the digits typed.
Send(s, op, n, by, val, num) ==
    [s |-> s, op |-> op, n |-> n, by |-> by, val |-> val, num |-> num, got |-> 0,
     srv |-> "sent", open |-> TRUE, tries |-> 0]

Fault == faults < MaxFaults /\ faults' = faults + 1

-----------------------------------------------------------------------------
(* StartSession: what the visitor has seen, then the draw, in one handler.  *)
(* The lookup runs outside the transaction, so another sitting may commit   *)
(* between it and the draw.                                                 *)

\* A visitor without a key is not recognised.
Committed(v) == {t \in Sessions : /\ row[t].status \in {"running", "completed"}
                                  /\ v # NoVisitor /\ row[t].visitor = v
                                  /\ ~ row[t].synthetic}

Given(ts) == {drawn[t][p] : t \in ts, p \in Positions}

\* Mutant: only finished sittings count as seen.
DTSeenFinishedItems(v) == Given({t \in Committed(v) : row[t].status = "completed"})

\* Every item any earlier real sitting of this visitor was given.
DTSeenItems(v) == Given(Committed(v))

Need(f) == BlockCount * Cardinality({i \in DOMAIN Slots : Slots[i] = f})
Unseen(f, exclude) == {i \in Items : FamilyOf[i] = f} \ exclude
CanFill(exclude) ==
    \A f \in {Slots[i] : i \in DOMAIN Slots} : Cardinality(Unseen(f, exclude)) >= Need(f)

\* Any unseen items, one category per slot, no item twice.
DTDraws(exclude) ==
    {d \in [Positions -> Items \ exclude] :
        /\ \A p \in Positions : FamilyOf[d[p]] = Slots[SlotOf(p)]
        /\ \A p, q \in Positions : p # q => d[p] # d[q]}

\* Bound: no further sitting begins once the played one is drawn.
StartRead(s, v, synthetic) ==
    /\ row[s].status = "none" /\ refused[s] = 0
    /\ \A t \in Played : row[t].status \in {"none", "starting"}
    /\ row' = [row EXCEPT ![s].status = "starting", ![s].visitor = v,
                          ![s].synthetic = synthetic]
    /\ \/ /\ starting' = [starting EXCEPT ![s] = DTSeenItems(v)]
          /\ before' = [before EXCEPT ![s] = Committed(v)]
          /\ UNCHANGED faults
       \/ Fault /\ UNCHANGED <<starting, before>>
    /\ UNCHANGED <<drawn, answers, recalls, refused, browser, calls>>

\* A draw that cannot fill a category rolls the session back.
StartRefuse(s) ==
    /\ row[s].status = "starting"
    /\ ~ CanFill(starting[s])
    /\ refused' = [refused EXCEPT ![s] = @ + 1]
    /\ row' = [row EXCEPT ![s].status = "none"]
    /\ UNCHANGED <<drawn, answers, recalls, starting, before, browser, calls, faults>>

\* Practice is unscored; it ends by fetching block 1.  Bound: the played sitting is
\* the last to be drawn.
StartDraw(s) ==
    /\ row[s].status = "starting"
    /\ s \in Played => \A t \in Sessions \ {s} : row[t].status # "starting"
    /\ \E d \in DTDraws(starting[s]) : drawn' = [drawn EXCEPT ![s] = d]
    /\ row' = [row EXCEPT ![s].status = "running"]
    /\ IF s \in Played
       THEN /\ tab' = [tab EXCEPT ![s].phase = "fetching"]
            /\ calls' = calls \cup {Send(s, "fetch", 1, "press", "", 0)}
       ELSE UNCHANGED <<tab, calls>>
    /\ UNCHANGED <<answers, recalls, draws, queue, fired, gaveUp, faults>>

-----------------------------------------------------------------------------
(* The api: one step per statement of a handler *)

\* The call goes on; one the browser has stopped waiting for disappears when
\* the server is done with it.
Over == {"ok", "refused", "lost"}
Moved(c, d)    == (calls \ {c}) \cup (IF ~ d.open /\ d.srv \in Over THEN {} ELSE {d})
Step(c, stage) == calls' = Moved(c, [c EXCEPT !.srv = stage])

\* session() and sessionToFinish(): the status is checked here, once.
Admit(c) ==
    /\ c.srv = "sent"
    /\ LET open == IF c.op = "finish" THEN {"running", "completed"} ELSE {"running"}
       IN  Step(c, IF row[c.s].status \in open THEN "admitted" ELSE "refused")
    /\ UNCHANGED <<served, draws, browser, faults>>

\* GetBlock: fresh digits are recorded before they are served.  A row that is
\* already there keeps its grade.
DTRecordBlockDigits(c) ==
    /\ c.op = "fetch" /\ c.srv = "admitted"
    /\ LET n == recalls[c.s][c.n].digits + 1
       IN  /\ recalls' = [recalls EXCEPT ![c.s][c.n] =
                            [digits |-> n,
                             outcome |-> IF @.digits = 0 THEN "expired" ELSE @.outcome]]
           /\ calls' = Moved(c, [c EXCEPT !.srv = "ok", !.got = n])
    /\ UNCHANGED <<row, drawn, answers, draws, browser, faults>>

\* Mutant: the position is looked up without the session it belongs to.
DTItemAtAnyPosition(s, p) ==
    LET t == CHOOSE u \in Sessions : drawn[u][p] # NoItem IN drawn[t][p]

DTItemAtPosition(s, p) == drawn[s][p]

\* Mutant: a second answer to a question replaces the first.
DTOverwriteAnswer(c) ==
    /\ c.op = "answer" /\ c.srv = "admitted"
    /\ answers' = [answers EXCEPT ![c.s][c.n] =
                     [item |-> DTItemAtPosition(c.s, c.n), outcome |-> c.val, confidence |-> c.num]]
    /\ Step(c, "ok")
    /\ UNCHANGED <<row, drawn, recalls, draws, browser, faults>>

\* The insert does nothing where the position already has an answer.
DTSaveAnswer(c) ==
    /\ c.op = "answer" /\ c.srv = "admitted"
    /\ answers' = [answers EXCEPT ![c.s][c.n] =
                     IF @.outcome # "none" THEN @
                     ELSE [item |-> DTItemAtPosition(c.s, c.n), outcome |-> c.val, confidence |-> c.num]]
    /\ Step(c, "ok")
    /\ UNCHANGED <<row, drawn, recalls, draws, browser, faults>>

\* What the participant gives back is the digits the screen showed, or nothing.
DTGradeRecall(digits, response) ==
    IF response = 0 THEN "expired"
    ELSE IF response = digits THEN "exact" ELSE "wrong_digits"

\* The digits are read by one statement ...
DTReadDigits(c) ==
    /\ c.op = "recall" /\ c.srv = "admitted" /\ c.got = 0
    /\ recalls[c.s][c.n].digits # 0
    /\ calls' = Moved(c, [c EXCEPT !.got = recalls[c.s][c.n].digits])
    /\ UNCHANGED <<served, draws, browser, faults>>

\* ... and the grade is written by another, over whatever grade there was.
DTSaveRecall(c) ==
    /\ c.op = "recall" /\ c.srv = "admitted" /\ c.got # 0
    /\ recalls' = [recalls EXCEPT ![c.s][c.n].outcome = DTGradeRecall(c.got, c.num)]
    /\ Step(c, "ok")
    /\ UNCHANGED <<row, drawn, answers, draws, browser, faults>>

\* Mutant: neither finished_at nor recall_strategy is protected.
DTFinishAgain(c) ==
    /\ c.op = "finish" /\ c.srv = "admitted"
    /\ row' = [row EXCEPT ![c.s] =
                 [@ EXCEPT !.status = "completed", !.finishes = @ + 1,
                           !.finishedAt = row[c.s].finishes + 1, !.strategy = c.val]]
    /\ Step(c, "ok")
    /\ UNCHANGED <<drawn, answers, recalls, draws, browser, faults>>

\* finished_at keeps its first value; an empty strategy overwrites nothing.
\* Every call mails the result, so finishes also counts the mails.
DTFinish(c) ==
    /\ c.op = "finish" /\ c.srv = "admitted"
    /\ LET r == row[c.s]
       IN  row' = [row EXCEPT ![c.s] =
                     [r EXCEPT !.status = "completed", !.finishes = @ + 1,
                               !.finishedAt = IF @ = 0 THEN r.finishes + 1 ELSE @,
                               !.strategy = IF c.val = "" THEN @ ELSE c.val]]
    /\ Step(c, "ok")
    /\ UNCHANGED <<drawn, answers, recalls, draws, browser, faults>>

-----------------------------------------------------------------------------
(* The network *)

\* A request is lost on its way.
Lose(c) ==
    /\ c.srv = "sent" /\ Fault
    /\ Step(c, "lost")
    /\ UNCHANGED <<served, draws, browser>>

-----------------------------------------------------------------------------
(* The run screen *)

\* A button and the timer submit the same question or block once each, or
\* (a fault) both do.
Fire(c) ==
    /\ <<c.op, c.n, c.by>> \notin fired[c.s]
    /\ IF \E f \in fired[c.s] : f[1] = c.op /\ f[2] = c.n THEN Fault ELSE UNCHANGED faults
    /\ fired' = [fired EXCEPT ![c.s] = @ \cup {<<c.op, c.n, c.by>>}]
    /\ calls' = calls \cup {c}

\* The browser no longer waits for c, which lives on alone in the api.
Forget(c) == Moved(c, [c EXCEPT !.open = FALSE])

\* How an awaited call ends for the caller.
Succeeds(c) == c.open /\ c.srv = "ok"    /\ UNCHANGED faults
Fails(c)    == \/ c.open /\ c.srv \in {"refused", "lost"} /\ UNCHANGED faults
               \/ c.open /\ c.srv # "lost" /\ Fault

\* A confidence button, or the phase timer with whatever was chosen by then and
\* no confidence.  A choice stays until the screen moves on; a timer that found
\* none may still be under way when one is made.
Advance(s, by, val) ==
    LET c == Send(s, "answer", tab[s].pos, by, val, IF by = "press" THEN 1 ELSE 0) IN
    /\ tab[s].phase = "question" /\ Fire(c)
    /\ by \in {"press", "timer"} /\ (val = "expired" => by = "timer")
    /\ \A d \in calls : d.s = s /\ d.op = "answer" /\ d.n = c.n /\ d.open /\ d.val # "expired"
          => d.val = val
    /\ UNCHANGED <<served, draws, tab, queue, gaveUp>>

Written(c) == [op |-> c.op, n |-> c.n, val |-> c.val, num |-> c.num,
               tries |-> c.tries + 1]

\* Mutant: a write that failed is not queued.
EnqueueNothing(q, c) == q

EnqueueRetry(q, c) == Append(q, [Written(c) EXCEPT !.tries = 0])

\* The screen moves on whether or not the write succeeded.
AdvanceReturns(c) ==
    /\ c.op = "answer" /\ c.by \in {"press", "timer"}
    /\ \/ Succeeds(c) /\ UNCHANGED queue
       \/ Fails(c) /\ queue' = [queue EXCEPT ![c.s] = EnqueueRetry(@, c)]
    /\ LET t == tab[c.s]
       IN  tab' = [tab EXCEPT ![c.s] =
                     IF SlotOf(c.n) < PerBlock
                     THEN [t EXCEPT !.phase = "question", !.pos = First(t.block) + SlotOf(c.n)]
                     ELSE [t EXCEPT !.phase = "recall"]]
    /\ calls' = Forget(c)
    /\ UNCHANGED <<served, draws, fired, gaveUp>>

\* The timer's closure still holds the empty string of the render it was set in.
SubmitRecall(s, by) ==
    LET c == Send(s, "recall", tab[s].block, by, "",
                  IF by = "press" THEN tab[s].digits ELSE 0)
    IN  /\ tab[s].phase = "recall" /\ Fire(c)
        /\ UNCHANGED <<served, draws, tab, queue, gaveUp>>

\* Mutant: one block too many is fetched.
PastTheEnd(c) == IF c.n <= BlockCount THEN Send(c.s, "fetch", c.n + 1, c.by, "", 0)
                                      ELSE Send(c.s, "finish", 0, c.by, "", 0)

\* nextBlock: fetch the next block, or close the run before the debrief.
NextBlock(c) == IF c.n < BlockCount THEN Send(c.s, "fetch", c.n + 1, c.by, "", 0)
                                    ELSE Send(c.s, "finish", 0, c.by, "", 0)

RecallReturns(c) ==
    /\ c.op = "recall" /\ c.by \in {"press", "timer"}
    /\ \/ Succeeds(c) /\ UNCHANGED queue
       \/ Fails(c) /\ queue' = [queue EXCEPT ![c.s] = EnqueueRetry(@, c)]
    /\ calls' = Forget(c) \cup {NextBlock(c)}
    /\ tab' = [tab EXCEPT ![c.s].phase = IF c.n < BlockCount THEN @ ELSE "debrief"]
    /\ UNCHANGED <<served, draws, fired, gaveUp>>

\* A block that cannot be fetched leaves the screen where it is.
FetchReturns(c) ==
    /\ c.op = "fetch"
    /\ \/ /\ Succeeds(c)
          /\ tab' = [tab EXCEPT ![c.s] = [phase |-> "question", block |-> c.n,
                                          pos |-> First(c.n), digits |-> c.got]]
       \/ Fails(c) /\ UNCHANGED tab
    /\ calls' = Forget(c)
    /\ UNCHANGED <<served, draws, queue, fired, gaveUp>>

AnswerDebrief(s, strategy) ==
    /\ tab[s].phase = "debrief"
    /\ tab' = [tab EXCEPT ![s].phase = "finishing"]
    /\ calls' = calls \cup {Send(s, "finish", 0, "debrief", strategy, 0)}
    /\ UNCHANGED <<served, draws, queue, fired, gaveUp, faults>>

\* Neither closing call looks at its outcome.
FinishReturns(c) ==
    /\ c.op = "finish"
    /\ Succeeds(c) \/ Fails(c)
    /\ calls' = Forget(c)
    /\ UNCHANGED <<served, draws, browser>>

\* The head of the queue is resent, by the backoff timer or on becoming visible.
FlushOne(s) ==
    /\ queue[s] # << >>
    /\ LET w == Head(queue[s])
           c == [Send(s, w.op, w.n, "retry", w.val, w.num) EXCEPT !.tries = w.tries]
       IN  /\ \A d \in calls : ~ (d.s = s /\ d.op = w.op /\ d.n = w.n /\ d.by = "retry")
           /\ calls' = calls \cup {c}
    /\ queue' = [queue EXCEPT ![s] = Tail(@)]
    /\ UNCHANGED <<served, draws, tab, fired, gaveUp, faults>>

\* Back to the end of the queue, or given up aloud.
FlushReturns(c) ==
    /\ c.by = "retry"
    /\ \/ Succeeds(c) /\ UNCHANGED <<queue, gaveUp>>
       \/ /\ Fails(c)
          /\ IF c.tries < MaxTries
             THEN /\ queue' = [queue EXCEPT ![c.s] = Append(@, Written(c))]
                  /\ UNCHANGED gaveUp
             ELSE /\ gaveUp' = [gaveUp EXCEPT ![c.s] = @ \cup {<<c.op, c.n>>}]
                  /\ UNCHANGED queue
    /\ calls' = Forget(c)
    /\ UNCHANGED <<served, draws, tab, fired>>

\* beaconPending: what is queued leaves the page at once, unacknowledged.
Beacon(s, w) == [Send(s, w.op, w.n, "beacon", w.val, w.num) EXCEPT !.open = FALSE]
Beacons(s)   == {Beacon(s, w) : w \in {queue[s][i] : i \in DOMAIN queue[s]}}

\* The page goes away, and calls in flight are cut off, before or after they
\* reached the api.
PageHide(s) ==
    /\ tab[s].phase \notin {"closed", "gone"}
    /\ tab' = [tab EXCEPT ![s].phase = "gone"]
    /\ queue' = [queue EXCEPT ![s] = << >>]
    /\ \E cut \in SUBSET {c \in calls : c.s = s /\ c.srv = "sent"} :
          LET live == {c \in calls : c.s = s /\ c.srv \in {"sent", "admitted"}} \ cut
          IN  calls' = {c \in calls : c.s # s}
                \cup {[c EXCEPT !.open = FALSE] : c \in live} \cup Beacons(s)
    /\ UNCHANGED <<served, draws, fired, gaveUp, faults>>

\* The page was hidden and comes back, from the back/forward cache: it goes on
\* where it was, without what was queued.
PageReturns(s) ==
    /\ tab[s].phase \notin {"closed", "gone"} /\ queue[s] # << >>
    /\ calls' = calls \cup Beacons(s)
    /\ queue' = [queue EXCEPT ![s] = << >>]
    /\ gaveUp' = [gaveUp EXCEPT ![s] =
                     @ \cup {<<queue[s][i].op, queue[s][i].n>> : i \in DOMAIN queue[s]}]
    /\ UNCHANGED <<served, draws, tab, fired, faults>>

-----------------------------------------------------------------------------
Start(s) ==
    \/ \E a \in Arrivals[s] : StartRead(s, a[1], a[2])
    \/ StartRefuse(s) \/ StartDraw(s)

Api(c) ==
    \/ Admit(c) \/ DTRecordBlockDigits(c) \/ DTSaveAnswer(c)
    \/ DTReadDigits(c) \/ DTSaveRecall(c) \/ DTFinish(c)

Returns(c) ==
    \/ AdvanceReturns(c) \/ RecallReturns(c) \/ FetchReturns(c)
    \/ FinishReturns(c) \/ FlushReturns(c)

Participant(s) ==
    \/ \E by \in {"press", "timer"} :
          SubmitRecall(s, by) \/ \E val \in Answers : Advance(s, by, val)
    \/ \E strategy \in Strategies : AnswerDebrief(s, strategy)
    \/ FlushOne(s) \/ PageHide(s) \/ PageReturns(s)

Next ==
    \/ \E s \in Sessions : Start(s) \/ Participant(s)
    \/ \E c \in calls : Api(c) \/ Lose(c) \/ Returns(c)

Spec == Init /\ [][Next]_vars

-----------------------------------------------------------------------------
(* Properties *)

Answered(s, p) == answers[s][p].outcome # "none"
Submitted(s)   == {p \in Positions : \E by \in {"press", "timer"} :
                                        <<"answer", p, by>> \in fired[s]}

\* However many copies of an answer arrive, it is graded against the item this
\* run was given at that position (DTItemAtPosition; the fault of 2026-10-08).
GradedOnOwnItem ==
    \A s \in Sessions, p \in Positions :
        Answered(s, p) => answers[s][p].item = drawn[s][p]

\* A repeat sitting shares no item with the real sittings of the same visitor
\* that were committed when its draw began (DTSeenItems).
RepeatDrawsUnseen ==
    \A s \in Sessions : \A t \in before[s] :
        row[s].status \in {"running", "completed"} => Given({s}) \cap Given({t}) = {}

\* Timer, press, retry and beacon may all submit one question: the first answer
\* stored stands (the insert's ON CONFLICT DO NOTHING).
FirstAnswerStands ==
    [][\A s \in Sessions, p \in Positions :
          Answered(s, p) => answers'[s][p] = answers[s][p]]_vars

\* In whichever order the two closing calls arrive, the end time keeps its first
\* value and a stored debrief answer survives (DTFinish).
FinishKeepsFirst ==
    [][\A s \in Sessions :
          row[s].status = "completed" =>
              /\ row'[s].status = "completed"
              /\ row'[s].finishedAt = row[s].finishedAt
              /\ row'[s].strategy = "" => row[s].strategy = ""]_vars

\* While the page lives, an answer the screen submitted is stored, on its way,
\* waiting to be resent, reported as given up or, by a page that was hidden and
\* came back, handed to the browser: none vanishes in between (enqueueRetry,
\* flushOne, beaconPending).
NoSilentLoss ==
    \A s \in Sessions : \A p \in Submitted(s) :
        \/ tab[s].phase = "gone"
        \/ Answered(s, p)
        \/ \E c \in calls : c.s = s /\ c.op = "answer" /\ c.n = p /\ c.open
        \/ \E i \in DOMAIN queue[s] : queue[s][i].op = "answer" /\ queue[s][i].n = p
        \/ <<"answer", p>> \in gaveUp[s]
=============================================================================
