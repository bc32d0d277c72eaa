--------------------------- MODULE AskThreadProofs ---------------------------
(***************************************************************************)
(* What is proved of the thread of Ask Roger, for every number of threads, *)
(* of questions and of faults:                                             *)
(*                                                                         *)
(*   TypeCorrect        what the screen, the streams and the tables hold   *)
(*   FollowUpsKnow      an undisturbed follow-up is answered from the last *)
(*                      exchanges that were on the screen                  *)
(*   QuestionsRemain    a question stays on the screen of its thread       *)
(*   WaitsAreTimed      the clock of the wait runs exactly while it should *)
(*   LeavingIsReported  a question left behind is reported                 *)
(*                                                                         *)
(* StreamInv follows an answer from its row to the screen: what is read    *)
(* was stored.  ScreenInv is about the screen: while a stream has its last *)
(* message still to come, the message it will replace is not a question it *)
(* has to keep.  HistoryInv, at the end, is about the threads whose        *)
(* questions are asked one after the other on connections that hold: their *)
(* rows are in order, and the screen shows what is stored.                 *)
(***************************************************************************)
EXTENDS AskThread, SequenceTheorems, FiniteSetTheorems, FunctionTheorems, TLAPS

-----------------------------------------------------------------------------
(* The inductive invariant *)

\* The answers among the rows of a thread.
Answered(list) == {list[i].q : i \in {j \in DOMAIN list : list[j].role = "assistant"}}

\* What a stream holds after its answer was sent, and after the text was read.
Full == <<"delta", "done", "end">>
Rest == <<"done", "end">>

\* No Thread is of a later mount than the last.
Mounted == inst <= made /\ \A q \in Asked : ask[q].to <= made

\* What is true of a question x whatever is on the screen, r being the rows: its stream
\* holds an answer or what is left of one, or an error, and nothing but an error before
\* the handler is over; an answer is stored before it is sent; and what was on the screen
\* when it was asked is stored until its history is read.
Sound(q, x, r) ==
    /\ x.wire \in {<<>>, Full, Rest, <<"end">>, <<"error">>}
    /\ x.open /\ x.pc # "over" => x.wire \in {<<>>, <<"error">>}
    /\ x.to = 0 => x.pc = "none" /\ x.wire = <<>> /\ ~ x.open
    /\ x.pc = "reply" \/ x.wire \in {Full, Rest} => q \in Answered(r[x.to])
    /\ x.pc = "load" => x.seen \subseteq Answered(r[x.to])

\* An answer is stored before it is shown.
ShownIsStored == inst # 0 => OnScreen("assistant") \subseteq Answered(rows[inst])

StreamInv ==
    TypeOK /\ Mounted /\ (\A q \in Asked : Sound(q, ask[q], rows)) /\ ShownIsStored

\* The last message may be replaced: it is an answer, or a question that was asked
\* while an answer was still coming in.
LastMayGo ==
    /\ view.shown # <<>>
    /\ \/ view.shown[Len(view.shown)].role = "assistant"
       \/ /\ view.shown[Len(view.shown)].role = "user"
          /\ ask[view.shown[Len(view.shown)].q].among # {}

\* A stream whose text was read replaces the last message next.
LastInv == \A q \in Streaming : ask[q].wire = Rest => LastMayGo

\* The answer to q is on the screen, and not at the end of it.
Settled(q) ==
    \E k \in 1..(Len(view.shown) - 1) : view.shown[k].role = "assistant" /\ view.shown[k].q = q

\* A question asked while no answer was coming in is alone until its text arrives.
Alone ==
    \A q \in Streaming : ask[q].among = {} =>
        \/ Streaming = {q} /\ view.waiting /\ view.since
        \/ Streaming = {q} /\ q \in OnScreen("assistant")
        \/ Settled(q)

ClockRuns == view.since => Streaming # {}

\* Nothing is asked before the conversation is open.
AskedWhenOpen == view.conv # "open" => Ours = {}

ScreenInv == LastInv /\ QuestionsStay /\ Alone /\ ClockRuns /\ AskedWhenOpen

Inv == StreamInv /\ ScreenInv

-----------------------------------------------------------------------------
(* Sequences *)

\* A row more.
LEMMA AnsweredGrows ==
    ASSUME NEW l \in Seq(Row), NEW r \in Row
    PROVE  /\ Append(l, r) \in Seq(Row)
           /\ Answered(l) \subseteq Answered(Append(l, r))
           /\ r.role = "assistant" => r.q \in Answered(Append(l, r))
<1> DEFINE a == Append(l, r)
<1>1. /\ a \in Seq(Row) /\ \A i \in DOMAIN l : i \in DOMAIN a /\ a[i] = l[i]
      /\ Len(l) + 1 \in DOMAIN a /\ a[Len(l) + 1] = r
  OBVIOUS
<1> HIDE DEF a
<1>2. Answered(l) \subseteq Answered(a)
  BY <1>1 DEF Answered
<1>3. r.role = "assistant" => r.q \in Answered(a)
  BY <1>1 DEF Answered
<1> QED
  BY <1>1, <1>2, <1>3 DEF a

\* What the model is shown is exchanges.
LEMMA HistoryTyped ==
    ASSUME NEW l \in Seq(Row)
    PROVE  History(l) \in SUBSET Turn
<1>1. DOMAIN l = 1..Len(l) /\ Len(l) \in Nat /\ \A i \in DOMAIN l : l[i] \in Row
  OBVIOUS
<1>2. \A i \in DOMAIN l : i > 1 => i - 1 \in DOMAIN l
  BY <1>1
<1>3. \A i \in Newest(Turns(l)) : l[i] \in Row /\ l[i - 1] \in Row
  BY <1>1, <1>2 DEF Newest, Turns
<1> QED
  BY <1>3 DEF History, Turn, Row

\* A message of the screen is the disclosure, a question or an answer.
LEMMA MessageFacts ==
    ASSUME NEW m \in Message
    PROVE  /\ m.role \in {"disclosure", "user", "assistant"}
           /\ m.role # "disclosure" => m.q \in Asked
BY DEF Message

\* A message more on the screen.
LEMMA ScreenGrows ==
    ASSUME view.shown \in Seq(Message), NEW m \in Message,
           view'.shown = Append(view.shown, m)
    PROVE  /\ view'.shown \in Seq(Message) /\ Len(view'.shown) = Len(view.shown) + 1
           /\ view'.shown # <<>> /\ view'.shown[Len(view'.shown)] = m
           /\ \A i \in 1..Len(view.shown) : i \in 1..(Len(view'.shown) - 1)
                                            /\ view'.shown[i] = view.shown[i]
           /\ \A role : OnScreen(role) \subseteq OnScreen(role)'
           /\ m.q \in OnScreen(m.role)'
           /\ \A role : OnScreen(role)' \subseteq OnScreen(role) \cup {m.q}
           /\ \A role : role # m.role => OnScreen(role)' = OnScreen(role)
<1> DEFINE l == view.shown
           a == Append(l, m)
<1>1. /\ a \in Seq(Message) /\ Len(a) = Len(l) + 1 /\ a # <<>> /\ Len(l) \in Nat
      /\ DOMAIN l = 1..Len(l) /\ DOMAIN a = 1..(Len(l) + 1)
      /\ \A i \in 1..Len(l) : a[i] = l[i]
      /\ a[Len(l) + 1] = m
  OBVIOUS
<1>2. view'.shown = a
  OBVIOUS
<1> HIDE DEF l, a
<1>3. \A role : OnScreen(role) = {l[i].q : i \in {j \in 1..Len(l) : l[j].role = role}}
  BY <1>1 DEF OnScreen, l
<1>4. \A role : OnScreen(role)' = {a[i].q : i \in {j \in 1..(Len(l) + 1) : a[j].role = role}}
  BY <1>1, <1>2 DEF OnScreen
<1>5. \A i \in 1..(Len(l) + 1) : i \in 1..Len(l) \/ i = Len(l) + 1
  BY <1>1
<1>6. \A role : OnScreen(role) \subseteq OnScreen(role)'
  BY <1>1, <1>3, <1>4
<1>7. m.q \in OnScreen(m.role)'
  BY <1>1, <1>4
<1>8. \A role : OnScreen(role)' \subseteq OnScreen(role) \cup {m.q}
  BY <1>1, <1>3, <1>4, <1>5
<1>9. \A role : role # m.role => OnScreen(role)' = OnScreen(role)
  <2> SUFFICES ASSUME NEW role, role # m.role
               PROVE  OnScreen(role)' = OnScreen(role)
    OBVIOUS
  <2>1. \A i \in 1..(Len(l) + 1) : a[i].role = role => i \in 1..Len(l) /\ a[i] = l[i]
    BY <1>1, <1>5
  <2>2. OnScreen(role)' \subseteq OnScreen(role)
    BY <1>3, <1>4, <2>1
  <2> QED
    BY <1>6, <2>2
<1>10. \A i \in 1..Len(l) : i \in 1..(Len(a) - 1) /\ a[i] = l[i]
  BY <1>1
<1> QED
  BY <1>1, <1>2, <1>6, <1>7, <1>8, <1>9, <1>10 DEF l

\* An answer takes the place of the last message.
LEMMA ScreenReplaces ==
    ASSUME view.shown \in Seq(Message), view.shown # <<>>, NEW m \in Message,
           m.role = "assistant", view'.shown = ReplaceLast(view.shown, m)
    PROVE  /\ view'.shown \in Seq(Message) /\ Len(view'.shown) = Len(view.shown)
           /\ view'.shown # <<>> /\ view'.shown[Len(view'.shown)] = m
           /\ \A i \in 1..(Len(view.shown) - 1) : view'.shown[i] = view.shown[i]
           /\ OnScreen("assistant")' \subseteq OnScreen("assistant") \cup {m.q}
           /\ m.q \in OnScreen("assistant")'
           /\ \A q \in OnScreen("user") : \/ q \in OnScreen("user")'
                                          \/ /\ view.shown[Len(view.shown)].role = "user"
                                             /\ view.shown[Len(view.shown)].q = q
<1> DEFINE l == view.shown
           a == ReplaceLast(l, m)
<1>1. /\ a \in Seq(Message) /\ Len(a) = Len(l) /\ a # <<>> /\ Len(l) \in Nat /\ Len(l) > 0
      /\ DOMAIN l = 1..Len(l) /\ DOMAIN a = 1..Len(l)
      /\ \A i \in 1..(Len(l) - 1) : a[i] = l[i]
      /\ a[Len(l)] = m
  <2> DEFINE f == SubSeq(l, 1, Len(l) - 1)
  <2>1. Len(l) \in Nat /\ Len(l) > 0
    OBVIOUS
  <2>2. f \in Seq(Message) /\ Len(f) = Len(l) - 1 /\ \A i \in 1..(Len(l) - 1) : f[i] = l[i]
    BY <2>1
  <2>3. a = Append(f, m)
    BY DEF ReplaceLast, Front
  <2> HIDE DEF f
  <2> HIDE DEF a
  <2>4. a \in Seq(Message) /\ Len(a) = Len(f) + 1 /\ a[Len(f) + 1] = m
    BY <2>2, <2>3
  <2>5. \A i \in 1..Len(f) : a[i] = f[i]
    BY <2>2, <2>3
  <2>9. a # <<>>
    BY <2>2, <2>4
  <2>6. DOMAIN l = 1..Len(l)
    OBVIOUS
  <2>7. DOMAIN a = 1..Len(a)
    BY <2>4
  <2>8. Len(f) = Len(l) - 1 /\ Len(f) + 1 = Len(l)
    BY <2>1, <2>2
  <2> QED
    BY <2>1, <2>2, <2>4, <2>5, <2>6, <2>7, <2>8, <2>9
<1>2. view'.shown = a
  OBVIOUS
<1> HIDE DEF l, a
<1>3. \A role : OnScreen(role) = {l[i].q : i \in {j \in 1..Len(l) : l[j].role = role}}
  BY <1>1 DEF OnScreen, l
<1>4. \A role : OnScreen(role)' = {a[i].q : i \in {j \in 1..Len(l) : a[j].role = role}}
  BY <1>1, <1>2 DEF OnScreen
<1>5. \A i \in 1..Len(l) : i \in 1..(Len(l) - 1) \/ i = Len(l)
  <2>1. ASSUME NEW n \in Nat
        PROVE  \A i \in 1..n : i \in 1..(n - 1) \/ i = n
    OBVIOUS
  <2> QED
    BY <1>1, <2>1
<1>6. OnScreen("assistant")' \subseteq OnScreen("assistant") \cup {m.q}
  BY <1>1, <1>3, <1>4, <1>5
<1>7. m.q \in OnScreen("assistant")'
  BY <1>1, <1>4
<1>8. ASSUME NEW q \in OnScreen("user")
      PROVE  q \in OnScreen("user")' \/ (l[Len(l)].role = "user" /\ l[Len(l)].q = q)
  BY <1>1, <1>3, <1>4, <1>5
<1> QED
  BY <1>1, <1>2, <1>6, <1>7, <1>8 DEF l

-----------------------------------------------------------------------------
(* The streams *)

\* Questions and answers are only added to.
RowsGrow ==
    /\ rows' \in [Mounts -> Seq(Row)]
    /\ \A n \in Mounts : Answered(rows[n]) \subseteq Answered(rows'[n])

\* Nothing is added.
LEMMA RowsStay == TypeOK /\ UNCHANGED rows => RowsGrow
BY DEF TypeOK, RowsGrow

\* A row more of one conversation.
LEMMA RowAdded ==
    ASSUME TypeOK, NEW n \in Mounts, NEW r \in Row, rows' = [rows EXCEPT ![n] = Append(@, r)]
    PROVE  /\ RowsGrow
           /\ r.role = "assistant" => r.q \in Answered(rows'[n])
<1> DEFINE a == Append(rows[n], r)
<1>1. rows \in [Mounts -> Seq(Row)] /\ rows[n] \in Seq(Row)
  BY DEF TypeOK
<1>2. /\ a \in Seq(Row) /\ Answered(rows[n]) \subseteq Answered(a)
      /\ r.role = "assistant" => r.q \in Answered(a)
  BY <1>1, AnsweredGrows
<1>3. rows' = [rows EXCEPT ![n] = a]
  OBVIOUS
<1> HIDE DEF a
<1> QED
  BY <1>1, <1>2, <1>3 DEF RowsGrow

\* What is true of a question stays true as rows are added.
LEMMA SoundStays ==
    ASSUME TypeOK, RowsGrow, NEW q, NEW x \in Question, NEW r, r = rows', Sound(q, x, rows)
    PROVE  Sound(q, x, r)
<1>1. x.to \in {0} \cup Mounts
  BY DEF Question
<1>2. x.to # 0 => Answered(rows[x.to]) \subseteq Answered(r[x.to])
  BY <1>1 DEF RowsGrow
<1>3. x.wire = <<>> => x.wire \notin {Full, Rest}
  BY DEF Full, Rest
<1> QED
  BY <1>2, <1>3 DEF Sound

\* The question q becomes x: it was asked in the same Thread and in the same light.
Becomes(q, x) ==
    /\ x \in Question /\ ask' = [ask EXCEPT ![q] = x]
    /\ x.to = ask[q].to /\ x.seen = ask[q].seen /\ x.among = ask[q].among

\* A question moves on, and the screen shows no more than was stored.
LEMMA StreamStep ==
    ASSUME StreamInv, NEW q \in Asked, NEW x, Becomes(q, x), RowsGrow,
           NEW r, r = rows', Sound(q, x, r), UNCHANGED <<place, inst, made, told>>,
           view' \in View, title' \in [Mounts -> {0} \cup Asked], faults' \in 0..MaxFaults,
           inst # 0 => OnScreen("assistant")' \subseteq Answered(rows'[inst])
    PROVE  StreamInv'
<1>1. ask' \in [Asked -> Question] /\ ask'[q] = x /\ \A p \in Asked : p # q => ask'[p] = ask[p]
  BY DEF StreamInv, TypeOK, Becomes
<1>2. TypeOK'
  BY <1>1 DEF StreamInv, TypeOK, RowsGrow
<1>3. Mounted'
  BY <1>1 DEF StreamInv, Mounted, Becomes
<1>4. \A p \in Asked : Sound(p, ask[p], r)
  BY SoundStays DEF StreamInv, TypeOK
<1>5. \A p \in Asked : Sound(p, ask'[p], r)
  BY <1>1, <1>4
<1>6. \A p \in Asked : Sound(p, ask'[p], rows')
  BY <1>5
<1> QED
  BY <1>2, <1>3, <1>6 DEF StreamInv, ShownIsStored

\* A step of the handler: the browser's end of the stream stays as it is.
HandlerMoves(q) ==
    /\ UNCHANGED <<inst, view>>
    /\ \E x : /\ Becomes(q, x) /\ (x.open <=> ask[q].open)
              /\ x.wire = Rest => ask[q].wire = Rest

\* What is known of a question that is being answered.
LEMMA QuestionFacts ==
    ASSUME StreamInv, NEW q \in Asked
    PROVE  /\ ask[q] \in Question /\ Sound(q, ask[q], rows)
           /\ ask[q].pc # "none" => ask[q].to \in Mounts
           /\ TypeOK /\ rows \in [Mounts -> Seq(Row)] /\ faults \in 0..MaxFaults
<1>1. ask[q] \in Question /\ Sound(q, ask[q], rows)
  BY DEF StreamInv, TypeOK
<1>2. ask[q].to \in {0} \cup Mounts
  BY <1>1 DEF Question
<1> QED
  BY <1>1, <1>2 DEF Sound, StreamInv, TypeOK

\* A fault is counted.
LEMMA FaultTyped == TypeOK /\ Fault => faults' \in 0..MaxFaults
BY AskAssumption DEF TypeOK, Fault

\* The handler does not touch the screen.
LEMMA HandlerStep ==
    ASSUME StreamInv, NEW q \in Asked, NEW x, Becomes(q, x), x.open <=> ask[q].open,
           x.wire = Rest => ask[q].wire = Rest, RowsGrow, NEW r, r = rows', Sound(q, x, r),
           title' \in [Mounts -> {0} \cup Asked], faults' \in 0..MaxFaults, Server
    PROVE  StreamInv' /\ HandlerMoves(q)
<1>1. view' \in View /\ UNCHANGED <<place, inst, made, told, view>>
  BY DEF Server, StreamInv, TypeOK
<1>2. inst # 0 => OnScreen("assistant")' \subseteq Answered(rows'[inst])
  BY <1>1 DEF StreamInv, ShownIsStored, OnScreen, RowsGrow, TypeOK
<1> QED
  BY <1>1, <1>2, StreamStep DEF HandlerMoves

\* What is sent while the handler runs.
LEMMA SendsFacts ==
    ASSUME StreamInv, NEW q \in Asked, ask[q].pc \notin {"none", "over"},
           NEW events \in {<<"error">>, Full}, Sends(q, events, "over")
    PROVE  \E x : /\ Becomes(q, x) /\ (x.open <=> ask[q].open) /\ x.pc = "over"
                  /\ x.wire = events \/ x.wire = ask[q].wire
                  /\ ask[q].open /\ ask[q].wire # <<"error">> => x.wire = events
                  /\ x.broken = ask[q].broken
<1> DEFINE t == ask[q]
           w == IF t.open /\ t.wire # <<"error">> THEN t.wire \o events ELSE t.wire
           x == [t EXCEPT !.pc = "over", !.wire = w]
<1>1. t \in Question /\ Sound(q, t, rows)
  BY QuestionFacts
<1>2. (w = events \/ w = t.wire) /\ (t.open /\ t.wire # <<"error">> => w = events)
  <2>1. CASE t.open /\ t.wire # <<"error">>
    <3>1. t.wire = <<>>
      BY <1>1, <2>1 DEF Sound
    <3>2. <<>> \o events = events
      BY DEF Full
    <3> QED
      BY <2>1, <3>1, <3>2
  <2> QED
    BY <2>1
<1>3. events \in Seq({"delta", "done", "end", "error"})
  <2>1. <<"error">> \in Seq({"delta", "done", "end", "error"})
    OBVIOUS
  <2>2. <<"delta", "done", "end">> \in Seq({"delta", "done", "end", "error"})
    OBVIOUS
  <2> QED
    BY <2>1, <2>2 DEF Full
<1>4. w \in Seq({"delta", "done", "end", "error"})
  BY <1>1, <1>2, <1>3 DEF Question
<1>5. ask' = [ask EXCEPT ![q] = x]
  BY DEF Sends
<1> HIDE DEF w
<1>6. /\ x \in Question /\ x.to = t.to /\ x.seen = t.seen /\ x.among = t.among
      /\ (x.open <=> t.open) /\ x.pc = "over" /\ x.wire = w /\ x.broken = t.broken
  BY <1>1, <1>4 DEF Question
<1> HIDE DEF x
<1> QED
  BY <1>2, <1>5, <1>6 DEF Becomes

\* A statement that fails ends the handler with an error.
LEMMA RefuseKeeps ==
    ASSUME StreamInv, NEW q \in Asked, ask[q].pc \notin {"none", "over"}, Refuse(q), Server
    PROVE  StreamInv' /\ HandlerMoves(q)
<1>1. Sends(q, <<"error">>, "over") /\ Fault /\ UNCHANGED <<rows, title>>
  BY DEF Refuse
<1>2. PICK x : /\ Becomes(q, x) /\ (x.open <=> ask[q].open) /\ x.pc = "over"
               /\ x.wire = <<"error">> \/ x.wire = ask[q].wire
  BY <1>1, SendsFacts
<1>3. <<"error">> \notin {Full, Rest}
  BY DEF Full, Rest
<1>4. Sound(q, x, rows)
  BY <1>2, <1>3, QuestionFacts DEF Sound, Becomes
<1>5. title' \in [Mounts -> {0} \cup Asked]
  BY <1>1 DEF StreamInv, TypeOK
<1> QED
  BY <1>1, <1>2, <1>3, <1>4, <1>5, QuestionFacts, RowsStay, FaultTyped, HandlerStep

\* The history is read: it holds all that was on the screen.
LEMMA LoadKeeps ==
    ASSUME StreamInv, NEW q \in Asked, Load(q)
    PROVE  StreamInv' /\ HandlerMoves(q)
<1>1. ask[q].pc = "load" /\ Server
  BY DEF Load
<1>2. CASE Refuse(q)
  BY <1>1, <1>2, RefuseKeeps
<1>3. CASE /\ ask' = [ask EXCEPT ![q].pc = "store", ![q].given = History(rows[ask[q].to]),
                                 ![q].untitled = title[ask[q].to] = 0]
           /\ UNCHANGED <<rows, title, faults>>
  <2> DEFINE t == ask[q]
             k == History(rows[t.to])
             u == (title[t.to] = 0)
             x == [t EXCEPT !.pc = "store", !.given = k, !.untitled = u]
  <2>1. t \in Question /\ t.to \in Mounts /\ rows[t.to] \in Seq(Row) /\ Sound(q, t, rows)
    BY <1>1, QuestionFacts
  <2>2. k \in SUBSET Turn
    BY <2>1, HistoryTyped
  <2>3. u \in BOOLEAN /\ ask' = [ask EXCEPT ![q] = x]
    BY <1>3
  <2> HIDE DEF k, u
  <2>5. /\ x \in Question /\ x.to = t.to /\ x.seen = t.seen /\ x.among = t.among
        /\ (x.open <=> t.open) /\ x.pc = "store" /\ x.wire = t.wire
    BY <2>1, <2>2, <2>3 DEF Question
  <2> HIDE DEF x
  <2>6. Becomes(q, x)
    BY <2>3, <2>5 DEF Becomes
  <2>7. Sound(q, x, rows)
    BY <1>1, <2>1, <2>5 DEF Sound
  <2>8. title' \in [Mounts -> {0} \cup Asked] /\ faults' \in 0..MaxFaults
    BY <1>3 DEF StreamInv, TypeOK
  <2> QED
    BY <1>1, <1>3, <2>5, <2>6, <2>7, <2>8, QuestionFacts, RowsStay, HandlerStep
<1> QED
  BY <1>2, <1>3 DEF Load

\* The handler goes on to its next statement, the stream as it was.
LEMMA PcMoves ==
    ASSUME StreamInv, NEW q \in Asked, ask[q].pc \in {"store", "title", "answer"},
           NEW pc \in {"title", "answer", "reply"}, ask' = [ask EXCEPT ![q].pc = pc],
           NEW r, r = rows', RowsGrow, pc = "reply" => q \in Answered(r[ask[q].to]),
           title' \in [Mounts -> {0} \cup Asked], faults' \in 0..MaxFaults, Server
    PROVE  StreamInv' /\ HandlerMoves(q)
<1> DEFINE t == ask[q]
           x == [t EXCEPT !.pc = pc]
<1>1. t \in Question /\ Sound(q, t, rows) /\ TypeOK
  BY QuestionFacts
<1>2. ask' = [ask EXCEPT ![q] = x]
  OBVIOUS
<1>3. /\ x \in Question /\ x.to = t.to /\ x.seen = t.seen /\ x.among = t.among
      /\ (x.open <=> t.open) /\ x.pc = pc /\ x.wire = t.wire
  BY <1>1 DEF Question
<1> HIDE DEF x
<1>4. Sound(q, t, r)
  BY <1>1, SoundStays
<1>5. Sound(q, x, r)
  BY <1>3, <1>4 DEF Sound
<1>6. Becomes(q, x)
  BY <1>2, <1>3 DEF Becomes
<1> QED
  BY <1>3, <1>5, <1>6, HandlerStep

\* The question is stored.
LEMMA StoreKeeps ==
    ASSUME StreamInv, NEW q \in Asked, Store(q)
    PROVE  StreamInv' /\ HandlerMoves(q)
<1>1. ask[q].pc = "store" /\ Server
  BY DEF Store
<1>2. CASE Refuse(q)
  BY <1>1, <1>2, RefuseKeeps
<1>3. CASE ~ Refuse(q)
  <2> DEFINE row == [role |-> "user", q |-> q]
             pc == IF ask[q].untitled THEN "title" ELSE "answer"
  <2>1. /\ rows' = [rows EXCEPT ![ask[q].to] = Append(@, row)]
        /\ ask' = [ask EXCEPT ![q].pc = pc] /\ UNCHANGED <<title, faults>>
    BY <1>3 DEF Store
  <2>2. row \in Row /\ ask[q].to \in Mounts /\ TypeOK
    BY <1>1, QuestionFacts DEF Row
  <2> HIDE DEF row
  <2>3. RowsGrow
    BY <2>1, <2>2, RowAdded
  <2>4. title' \in [Mounts -> {0} \cup Asked] /\ faults' \in 0..MaxFaults
    BY <2>1 DEF StreamInv, TypeOK
  <2>5. pc \in {"title", "answer", "reply"} /\ pc # "reply"
    OBVIOUS
  <2> HIDE DEF pc
  <2> QED
    BY <1>1, <2>1, <2>3, <2>4, <2>5, PcMoves
<1> QED
  BY <1>2, <1>3

\* The conversation gets its name, or does not.
LEMMA TitleKeeps ==
    ASSUME StreamInv, NEW q \in Asked, Title(q)
    PROVE  StreamInv' /\ HandlerMoves(q)
<1>1. /\ ask[q].pc = "title" /\ Server /\ ask' = [ask EXCEPT ![q].pc = "answer"]
      /\ UNCHANGED rows
  BY DEF Title
<1>2. title' \in [Mounts -> {0} \cup Asked] /\ faults' \in 0..MaxFaults
  BY FaultTyped DEF Title, StreamInv, TypeOK
<1> QED
  BY <1>1, <1>2, QuestionFacts, RowsStay, PcMoves

\* The answer is stored before anything is sent.
LEMMA AnswerKeeps ==
    ASSUME StreamInv, NEW q \in Asked, Answer(q)
    PROVE  StreamInv' /\ HandlerMoves(q)
<1>1. ask[q].pc = "answer" /\ Server
  BY DEF Answer
<1>2. CASE Refuse(q)
  BY <1>1, <1>2, RefuseKeeps
<1>3. CASE ~ Refuse(q)
  <2> DEFINE row == [role |-> "assistant", q |-> q]
  <2>1. /\ rows' = [rows EXCEPT ![ask[q].to] = Append(@, row)]
        /\ ask' = [ask EXCEPT ![q].pc = "reply"] /\ UNCHANGED <<title, faults>>
    BY <1>3 DEF Answer
  <2>2. row \in Row /\ ask[q].to \in Mounts /\ TypeOK /\ row.role = "assistant" /\ row.q = q
    BY <1>1, QuestionFacts DEF Row
  <2> HIDE DEF row
  <2>3. RowsGrow /\ q \in Answered(rows'[ask[q].to])
    BY <2>1, <2>2, RowAdded
  <2>4. title' \in [Mounts -> {0} \cup Asked] /\ faults' \in 0..MaxFaults
    BY <2>1 DEF StreamInv, TypeOK
  <2> QED
    BY <1>1, <2>1, <2>3, <2>4, PcMoves
<1> QED
  BY <1>2, <1>3

\* What was stored is sent.
LEMMA ReplyKeeps ==
    ASSUME StreamInv, NEW q \in Asked, Reply(q)
    PROVE  StreamInv' /\ HandlerMoves(q)
<1>1. ask[q].pc = "reply" /\ Server /\ Sends(q, Full, "over") /\ UNCHANGED <<rows, title, faults>>
  BY DEF Reply, Full
<1>2. PICK x : /\ Becomes(q, x) /\ (x.open <=> ask[q].open) /\ x.pc = "over"
               /\ x.wire = Full \/ x.wire = ask[q].wire
  BY <1>1, SendsFacts
<1>3. Full # Rest /\ Full # <<>>
  BY DEF Full, Rest
<1>4. Sound(q, x, rows)
  BY <1>1, <1>2, <1>3, QuestionFacts DEF Sound, Becomes
<1>5. title' \in [Mounts -> {0} \cup Asked] /\ faults' \in 0..MaxFaults
  BY <1>1 DEF StreamInv, TypeOK
<1> QED
  BY <1>1, <1>2, <1>3, <1>4, <1>5, QuestionFacts, RowsStay, HandlerStep

\* Every step of the handler.
LEMMA HandlerKeeps ==
    ASSUME StreamInv, NEW q \in Asked, SendMessage(q)
    PROVE  StreamInv' /\ HandlerMoves(q)
BY LoadKeeps, StoreKeeps, TitleKeeps, AnswerKeeps, ReplyKeeps DEF SendMessage

\* A connection that breaks leaves an error to be read.
LEMMA CutKeeps ==
    ASSUME StreamInv, NEW q \in Asked, Cut(q)
    PROVE  StreamInv' /\ HandlerMoves(q)
<1> DEFINE t == ask[q]
<1>1. t \in Question /\ Sound(q, t, rows) /\ TypeOK
  BY QuestionFacts
<1>2. t.open /\ Fault /\ UNCHANGED <<place, inst, made, view, rows, title, told>>
  BY DEF Cut
<1>3. PICK pc \in {t.pc, "over"} : ask' = [ask EXCEPT ![q].wire = <<"error">>, ![q].pc = pc, ![q].broken = TRUE]
  BY DEF Cut
<1> DEFINE w == <<"error">>
           x == [t EXCEPT !.wire = w, !.pc = pc, !.broken = TRUE]
<1>4. ask' = [ask EXCEPT ![q] = x]
  BY <1>3
<1>5. w \in Seq({"delta", "done", "end", "error"}) /\ w \notin {Full, Rest}
  BY DEF Full, Rest
<1> HIDE DEF w
<1>6. /\ x \in Question /\ x.to = t.to /\ x.seen = t.seen /\ x.among = t.among
      /\ (x.open <=> t.open) /\ x.pc = pc /\ x.wire = w
  BY <1>1, <1>5 DEF Question
<1> HIDE DEF x
<1>7. Sound(q, x, rows)
  BY <1>1, <1>2, <1>5, <1>6 DEF Sound, w
<1>8. Becomes(q, x)
  BY <1>4, <1>6 DEF Becomes
<1>9. title' \in [Mounts -> {0} \cup Asked] /\ faults' \in 0..MaxFaults
  BY <1>1, <1>2, FaultTyped DEF TypeOK
<1> QED
  BY <1>1, <1>2, <1>5, <1>6, <1>7, <1>8, <1>9, RowsStay, HandlerStep DEF Server

-----------------------------------------------------------------------------
(* The screen *)

\* Another question's step: the streams of this Thread are where they were.
LEMMA ScreenStays ==
    ASSUME Inv, UNCHANGED <<inst, view>>,
           \A p \in Asked : ask'[p].to = ask[p].to /\ ask'[p].among = ask[p].among,
           \A p \in Ours : (ask'[p].open <=> ask[p].open)
                           /\ (ask'[p].wire = Rest => ask[p].wire = Rest)
    PROVE  ScreenInv'
<1>1. Ours' = Ours
  BY DEF Ours
<1>2. Streaming' = Streaming
  BY <1>1 DEF Streaming
<1>3. \A role : OnScreen(role)' = OnScreen(role)
  BY DEF OnScreen
<1>4. LastMayGo => LastMayGo'
  <2>1. view.shown \in Seq(Message)
    BY DEF Inv, StreamInv, TypeOK, View
  <2>2. view.shown # <<>> => view.shown[Len(view.shown)] \in Message
    BY <2>1
  <2> QED
    BY <2>2, MessageFacts DEF LastMayGo
<1>5. LastInv'
  BY <1>2, <1>4 DEF Inv, ScreenInv, LastInv, Streaming
<1>6. QuestionsStay'
  BY <1>1, <1>3 DEF Inv, ScreenInv, QuestionsStay, Ours
<1>7. Alone'
  BY <1>2, <1>3 DEF Inv, ScreenInv, Alone, Streaming, Ours, Settled
<1>8. ClockRuns' /\ AskedWhenOpen'
  BY <1>1, <1>2 DEF Inv, ScreenInv, ClockRuns, AskedWhenOpen
<1> QED
  BY <1>5, <1>6, <1>7, <1>8 DEF ScreenInv

\* A question moves on, the others do not.
LEMMA OthersStay ==
    ASSUME StreamInv, NEW q \in Asked, NEW x, Becomes(q, x)
    PROVE  /\ ask'[q] = x
           /\ \A p \in Asked : p # q => ask'[p] = ask[p]
           /\ \A p \in Asked : ask'[p].to = ask[p].to /\ ask'[p].among = ask[p].among
<1>1. ask \in [Asked -> Question]
  BY DEF StreamInv, TypeOK
<1> QED
  BY <1>1 DEF Becomes

\* A step of the handler is none of the screen's.
LEMMA HandlerScreen ==
    ASSUME Inv, NEW q \in Asked, HandlerMoves(q)
    PROVE  ScreenInv'
<1>1. PICK x : /\ Becomes(q, x) /\ (x.open <=> ask[q].open)
               /\ x.wire = Rest => ask[q].wire = Rest
  BY DEF HandlerMoves
<1>2. /\ ask'[q] = x /\ \A p \in Asked : p # q => ask'[p] = ask[p]
      /\ \A p \in Asked : ask'[p].to = ask[p].to /\ ask'[p].among = ask[p].among
  BY <1>1, OthersStay DEF Inv
<1>3. \A p \in Ours : (ask'[p].open <=> ask[p].open) /\ (ask'[p].wire = Rest => ask[p].wire = Rest)
  BY <1>1, <1>2 DEF Ours
<1> QED
  BY <1>2, <1>3, ScreenStays DEF HandlerMoves

-----------------------------------------------------------------------------
(* An event is read *)

\* The event e of q's stream is read, and x is what becomes of q.
Reads(q, e, x) ==
    /\ ask[q].open /\ Becomes(q, x) /\ Sound(q, x, rows)
    /\ x.pc = ask[q].pc /\ x.given = ask[q].given /\ x.broken = ask[q].broken
    /\ \/ e = "delta" /\ ask[q].wire = Full /\ x.wire = Rest /\ x.open
       \/ e = "done" /\ ask[q].wire = Rest /\ x.wire = <<"end">> /\ x.open
       \/ e \in {"end", "error"} /\ ask[q].wire = <<e>> /\ x.wire = <<>> /\ ~ x.open
    /\ view' = IF q \in Ours THEN Shown(q, e, view) ELSE view
    /\ UNCHANGED <<place, inst, made, rows, title, told, faults>>

\* What is read, and what is left of the stream.
LEMMA ReadShape ==
    ASSUME StreamInv, NEW q \in Asked, Read(q)
    PROVE  \E e, x : Reads(q, e, x)
<1> DEFINE t == ask[q]
           e == Head(t.wire)
           w == Tail(t.wire)
           o == (e \notin {"end", "error"})
           x == [t EXCEPT !.wire = w, !.open = o]
<1>1. /\ t \in Question /\ Sound(q, t, rows) /\ t.open /\ t.wire # <<>>
      /\ ask \in [Asked -> Question]
  BY QuestionFacts DEF Read, StreamInv, TypeOK
<1>2. ask' = [ask EXCEPT ![q] = x]
  BY DEF Read
<1>3. t.wire \in {Full, Rest, <<"end">>, <<"error">>}
  BY <1>1 DEF Sound
<1>4. \/ t.wire = Full /\ e = "delta" /\ w = Rest /\ o
      \/ t.wire = Rest /\ e = "done" /\ w = <<"end">> /\ o
      \/ t.wire = <<"end">> /\ e = "end" /\ w = <<>> /\ ~ o
      \/ t.wire = <<"error">> /\ e = "error" /\ w = <<>> /\ ~ o
  <2>1. \A a : Head(<<a>>) = a /\ Tail(<<a>>) = <<>>
    OBVIOUS
  <2>2. \A a, b : Head(<<a, b>>) = a /\ Tail(<<a, b>>) = <<b>>
    OBVIOUS
  <2>3. \A a, b, c : Head(<<a, b, c>>) = a /\ Tail(<<a, b, c>>) = <<b, c>>
    OBVIOUS
  <2>4. CASE t.wire = Full
    BY <2>3, <2>4 DEF Full, Rest
  <2>5. CASE t.wire = Rest
    BY <2>2, <2>5 DEF Rest
  <2>6. CASE t.wire = <<"end">>
    BY <2>1, <2>6
  <2>7. CASE t.wire = <<"error">>
    BY <2>1, <2>7
  <2> QED
    BY <1>3, <2>4, <2>5, <2>6, <2>7
<1>5. w \in Seq({"delta", "done", "end", "error"}) /\ o \in BOOLEAN
  BY <1>1 DEF Question
<1>6. view' = IF q \in Ours THEN Shown(q, e, view) ELSE view
  BY DEF Read
<1> HIDE DEF w, o, e
<1>7. /\ x \in Question /\ x.to = t.to /\ x.seen = t.seen /\ x.among = t.among
      /\ (x.open <=> o) /\ x.pc = t.pc /\ x.wire = w
      /\ x.given = t.given /\ x.broken = t.broken
  BY <1>1, <1>5 DEF Question
<1> HIDE DEF x
<1>8. Becomes(q, x)
  BY <1>2, <1>7 DEF Becomes
<1>9. t.wire \in {Full, Rest, <<"end">>} => t.pc = "over"
  BY <1>1 DEF Sound, Full, Rest
<1>10. Full # Rest /\ <<"end">> \notin {Full, Rest} /\ <<>> \notin {Full, Rest}
  BY DEF Full, Rest
<1>11. Sound(q, x, rows)
  BY <1>1, <1>4, <1>7, <1>9, <1>10 DEF Sound
<1>12. Reads(q, e, x)
  BY <1>1, <1>4, <1>6, <1>7, <1>8, <1>11 DEF Reads, Read
<1> QED
  BY <1>12

\* What is read for a Thread that is gone is not shown.
LEMMA UnshownKeeps ==
    ASSUME Inv, NEW q \in Asked, NEW e, NEW x, Reads(q, e, x), q \notin Ours
    PROVE  Inv'
<1>1. /\ Becomes(q, x) /\ Sound(q, x, rows) /\ UNCHANGED view
      /\ UNCHANGED <<place, inst, made, rows, title, told, faults>>
  BY DEF Reads
<1>2. /\ ask'[q] = x /\ \A p \in Asked : p # q => ask'[p] = ask[p]
      /\ \A p \in Asked : ask'[p].to = ask[p].to /\ ask'[p].among = ask[p].among
  BY <1>1, OthersStay DEF Inv
<1>3. ScreenInv'
  <2>1. \A p \in Ours : p \in Asked /\ p # q
    BY DEF Ours
  <2> QED
    BY <1>1, <1>2, <2>1, ScreenStays
<1>4. /\ TypeOK /\ view' \in View /\ title' \in [Mounts -> {0} \cup Asked]
      /\ faults' \in 0..MaxFaults
  BY <1>1 DEF Inv, StreamInv, TypeOK
<1>5. inst # 0 => OnScreen("assistant")' \subseteq Answered(rows'[inst])
  BY <1>1 DEF Inv, StreamInv, ShownIsStored, OnScreen
<1>6. StreamInv'
  BY <1>1, <1>4, <1>5, RowsStay, StreamStep DEF Inv
<1> QED
  BY <1>3, <1>6 DEF Inv

\* A stream of this Thread that stays open, its answer on the screen.
LEMMA AnswerShown ==
    ASSUME Inv, NEW q \in Streaming, NEW x, Becomes(q, x), x.open,
           UNCHANGED <<inst, made, rows, title>>,
           view'.since <=> view.since, view'.conv = view.conv,
           view'.shown # <<>>, view'.shown[Len(view'.shown)].role = "assistant",
           \A p \in Ours : ask[p].among = {} => p \in OnScreen("user")',
           q \in OnScreen("assistant")',
           \A p \in Asked : Settled(p) => Settled(p)'
    PROVE  ScreenInv'
<1>1. q \in Asked /\ q \in Ours /\ ask[q].open
  BY DEF Streaming, Ours
<1>2. /\ ask'[q] = x /\ \A p \in Asked : p # q => ask'[p] = ask[p]
      /\ \A p \in Asked : ask'[p].to = ask[p].to /\ ask'[p].among = ask[p].among
  BY <1>1, OthersStay DEF Inv
<1>3. Ours' = Ours
  BY <1>2 DEF Ours
<1>4. Streaming' = Streaming
  BY <1>1, <1>2, <1>3 DEF Streaming, Ours
<1>5. LastInv'
  BY DEF LastInv, LastMayGo
<1>6. QuestionsStay'
  BY <1>2, <1>3 DEF QuestionsStay, Ours
<1>7. Alone'
  <2> SUFFICES ASSUME NEW p \in Streaming, ask[p].among = {}
               PROVE  (Streaming = {p} /\ p \in OnScreen("assistant")') \/ Settled(p)'
    BY <1>2, <1>4 DEF Alone, Streaming, Ours
  <2>1. p \in Asked /\ (Streaming = {p} \/ Settled(p))
    BY DEF Inv, ScreenInv, Alone, Streaming, Ours
  <2> QED
    BY <2>1
<1>8. ClockRuns' /\ AskedWhenOpen'
  BY <1>3, <1>4 DEF Inv, ScreenInv, ClockRuns, AskedWhenOpen
<1> QED
  BY <1>5, <1>6, <1>7, <1>8 DEF ScreenInv

\* The screen of a Thread.
LEMMA ViewFacts ==
    ASSUME StreamInv
    PROVE  /\ view \in View /\ view.shown \in Seq(Message) /\ Len(view.shown) \in Nat
           /\ DOMAIN view.shown = 1..Len(view.shown)
           /\ \A i \in 1..Len(view.shown) : view.shown[i] \in Message
<1>1. view \in View
  BY DEF StreamInv, TypeOK
<1>2. view.shown \in Seq(Message)
  BY <1>1 DEF View
<1>3. ASSUME NEW l \in Seq(Message)
      PROVE  /\ Len(l) \in Nat /\ DOMAIN l = 1..Len(l)
             /\ \A i \in 1..Len(l) : l[i] \in Message
  OBVIOUS
<1> QED
  BY <1>1, <1>2, <1>3

\* The text of an answer.
LEMMA DeltaKeeps ==
    ASSUME Inv, NEW q \in Ours, NEW x, Reads(q, "delta", x)
    PROVE  Inv'
<1> DEFINE m == [role |-> "assistant", q |-> q, id |-> FALSE]
           s == Append(view.shown, m)
           v == [view EXCEPT !.waiting = FALSE, !.shown = s]
<1>1. /\ Becomes(q, x) /\ Sound(q, x, rows) /\ x.open /\ ask[q].open /\ ask[q].wire = Full
      /\ view' = Shown(q, "delta", view)
      /\ UNCHANGED <<place, inst, made, rows, title, told, faults>>
  BY DEF Reads
<1>2. q \in Asked /\ q \in Streaming /\ inst # 0 /\ ask[q].to = inst
  BY <1>1 DEF Streaming, Ours
<1>3. m \in Message /\ m.role = "assistant" /\ m.q = q
  BY <1>2 DEF Message
<1>4. view' = v
  BY <1>1 DEF Shown
<1> HIDE DEF m
<1>5. s \in Seq(Message)
  BY <1>3, ViewFacts DEF Inv
<1> HIDE DEF s
<1>6. /\ v \in View /\ v.shown = s /\ (v.since <=> view.since) /\ v.conv = view.conv
  BY <1>5, ViewFacts DEF View, Inv
<1> HIDE DEF v
<1>7. view'.shown = Append(view.shown, m) /\ view.shown \in Seq(Message)
  BY <1>4, <1>6, ViewFacts DEF s, Inv
<1>8. /\ view'.shown # <<>> /\ view'.shown[Len(view'.shown)] = m
      /\ \A i \in 1..Len(view.shown) : i \in 1..(Len(view'.shown) - 1)
                                       /\ view'.shown[i] = view.shown[i]
      /\ \A role : OnScreen(role) \subseteq OnScreen(role)'
      /\ m.q \in OnScreen(m.role)'
      /\ \A role : OnScreen(role)' \subseteq OnScreen(role) \cup {m.q}
  BY <1>3, <1>7, ScreenGrows
<1>9. \A p \in Asked : Settled(p) => Settled(p)'
  <2>1. \A k \in 1..(Len(view.shown) - 1) : k \in 1..Len(view.shown)
    BY ViewFacts DEF Inv
  <2> QED
    BY <1>8, <2>1 DEF Settled
<1>10. ScreenInv'
  <2>1. \A p \in Ours : ask[p].among = {} => p \in OnScreen("user")'
    BY <1>8 DEF Inv, ScreenInv, QuestionsStay
  <2> QED
    BY <1>1, <1>2, <1>3, <1>4, <1>6, <1>8, <1>9, <2>1, AnswerShown
<1>11. q \in Answered(rows[inst])
  BY <1>1, <1>2, QuestionFacts DEF Inv, Sound
<1>12. inst # 0 => OnScreen("assistant")' \subseteq Answered(rows'[inst])
  BY <1>1, <1>3, <1>8, <1>11 DEF Inv, StreamInv, ShownIsStored
<1>13. title' \in [Mounts -> {0} \cup Asked] /\ faults' \in 0..MaxFaults /\ TypeOK
  BY <1>1 DEF Inv, StreamInv, TypeOK
<1>14. StreamInv'
  BY <1>1, <1>2, <1>4, <1>6, <1>12, <1>13, RowsStay, StreamStep DEF Inv
<1> QED
  BY <1>10, <1>14 DEF Inv

\* The finished message, in the place of the last.
LEMMA DoneKeeps ==
    ASSUME Inv, NEW q \in Ours, NEW x, Reads(q, "done", x)
    PROVE  Inv'
<1> DEFINE m == [role |-> "assistant", q |-> q, id |-> TRUE]
           s == ReplaceLast(view.shown, m)
           v == [view EXCEPT !.shown = s]
<1>1. /\ Becomes(q, x) /\ Sound(q, x, rows) /\ x.open /\ ask[q].open /\ ask[q].wire = Rest
      /\ view' = Shown(q, "done", view)
      /\ UNCHANGED <<place, inst, made, rows, title, told, faults>>
  BY DEF Reads
<1>2. q \in Asked /\ q \in Streaming /\ inst # 0 /\ ask[q].to = inst
  BY <1>1 DEF Streaming, Ours
<1>3. m \in Message /\ m.role = "assistant" /\ m.q = q
  BY <1>2 DEF Message
<1>4. view' = v
  BY <1>1 DEF Shown
<1>5. LastMayGo
  BY <1>1, <1>2 DEF Inv, ScreenInv, LastInv
<1>6. view.shown # <<>> /\ view.shown \in Seq(Message) /\ view \in View
  BY <1>5, ViewFacts DEF LastMayGo, Inv
<1>7. view'.shown = s
  BY <1>4, <1>6 DEF View
<1> HIDE DEF m
<1>8. /\ view'.shown \in Seq(Message) /\ Len(view'.shown) = Len(view.shown)
      /\ view'.shown # <<>> /\ view'.shown[Len(view'.shown)] = m
      /\ \A i \in 1..(Len(view.shown) - 1) : view'.shown[i] = view.shown[i]
      /\ OnScreen("assistant")' \subseteq OnScreen("assistant") \cup {m.q}
      /\ m.q \in OnScreen("assistant")'
      /\ \A p \in OnScreen("user") : \/ p \in OnScreen("user")'
                                     \/ /\ view.shown[Len(view.shown)].role = "user"
                                        /\ view.shown[Len(view.shown)].q = p
  BY <1>3, <1>6, <1>7, ScreenReplaces
<1>9. s \in Seq(Message)
  BY <1>7, <1>8
<1> HIDE DEF s
<1>10. /\ v \in View /\ (v.since <=> view.since) /\ v.conv = view.conv
  BY <1>6, <1>9 DEF View
<1> HIDE DEF v
<1>11. \A p \in Asked : Settled(p) => Settled(p)'
  BY <1>8 DEF Settled
<1>12. ScreenInv'
  <2>1. \A p \in Ours : ask[p].among = {} => p \in OnScreen("user")'
    BY <1>5, <1>8 DEF Inv, ScreenInv, QuestionsStay, LastMayGo
  <2> QED
    BY <1>1, <1>2, <1>3, <1>4, <1>8, <1>10, <1>11, <2>1, AnswerShown
<1>13. q \in Answered(rows[inst])
  BY <1>1, <1>2, QuestionFacts DEF Inv, Sound
<1>14. inst # 0 => OnScreen("assistant")' \subseteq Answered(rows'[inst])
  BY <1>1, <1>3, <1>8, <1>13 DEF Inv, StreamInv, ShownIsStored
<1>15. title' \in [Mounts -> {0} \cup Asked] /\ faults' \in 0..MaxFaults /\ TypeOK
  BY <1>1 DEF Inv, StreamInv, TypeOK
<1>16. StreamInv'
  BY <1>1, <1>2, <1>4, <1>10, <1>14, <1>15, RowsStay, StreamStep DEF Inv
<1> QED
  BY <1>12, <1>16 DEF Inv

\* The end of a stream, good or bad.
LEMMA EndKeeps ==
    ASSUME Inv, NEW q \in Ours, NEW e \in {"end", "error"}, NEW x, Reads(q, e, x)
    PROVE  Inv'
<1>1. /\ Becomes(q, x) /\ Sound(q, x, rows) /\ ~ x.open /\ ask[q].open
      /\ view' = Shown(q, e, view)
      /\ UNCHANGED <<place, inst, made, rows, title, told, faults>>
  BY DEF Reads
<1>2. q \in Asked /\ q \in Streaming
  BY <1>1 DEF Streaming, Ours
<1>3. /\ ask'[q] = x /\ \A p \in Asked : p # q => ask'[p] = ask[p]
      /\ \A p \in Asked : ask'[p].to = ask[p].to /\ ask'[p].among = ask[p].among
  BY <1>1, <1>2, OthersStay DEF Inv
<1>4. /\ view' \in View /\ view'.shown = view.shown /\ view'.conv = view.conv
      /\ ~ view'.since
  <2>1. view \in View
    BY ViewFacts DEF Inv
  <2>2. CASE e = "end"
    <3>1. view' = [view EXCEPT !.waiting = FALSE, !.since = FALSE]
      BY <1>1, <2>2 DEF Shown
    <3> QED
      BY <2>1, <3>1 DEF View
  <2>3. CASE e = "error"
    <3>1. view' = [view EXCEPT !.waiting = FALSE, !.since = FALSE, !.error = TRUE]
      BY <1>1, <2>3 DEF Shown
    <3> QED
      BY <2>1, <3>1 DEF View
  <2> QED
    BY <2>2, <2>3
<1>5. Ours' = Ours
  BY <1>1, <1>3 DEF Ours
<1>6. Streaming' = Streaming \ {q}
  BY <1>1, <1>2, <1>3, <1>5 DEF Streaming, Ours
<1>7. \A role : OnScreen(role)' = OnScreen(role)
  BY <1>4 DEF OnScreen
<1>8. LastInv'
  <2>1. ASSUME NEW p \in Streaming', ask'[p].wire = Rest
        PROVE  LastMayGo'
    <3>1. LastMayGo
      BY <1>3, <1>6, <2>1 DEF Inv, ScreenInv, LastInv, Streaming, Ours
    <3>2. view.shown # <<>> => view.shown[Len(view.shown)] \in Message
      BY ViewFacts DEF Inv
    <3> QED
      BY <1>3, <1>4, <3>1, <3>2, MessageFacts DEF LastMayGo
  <2> QED
    BY <2>1 DEF LastInv
<1>9. QuestionsStay'
  BY <1>3, <1>5, <1>7 DEF Inv, ScreenInv, QuestionsStay, Ours
<1>10. Alone'
  <2>1. ASSUME NEW p \in Streaming', ask'[p].among = {}
        PROVE  Settled(p)
    <3>1. p \in Streaming /\ p # q /\ ask[p].among = {}
      BY <1>3, <1>6, <2>1 DEF Streaming, Ours
    <3> QED
      BY <1>2, <3>1 DEF Inv, ScreenInv, Alone
  <2>2. \A p \in Asked : Settled(p) => Settled(p)'
    BY <1>4 DEF Settled
  <2>3. \A p \in Streaming' : p \in Asked
    BY DEF Streaming, Ours
  <2> QED
    BY <2>1, <2>2, <2>3 DEF Alone
<1>11. ClockRuns' /\ AskedWhenOpen'
  BY <1>4, <1>5 DEF Inv, ScreenInv, ClockRuns, AskedWhenOpen
<1>12. inst # 0 => OnScreen("assistant")' \subseteq Answered(rows'[inst])
  BY <1>1, <1>7 DEF Inv, StreamInv, ShownIsStored
<1>13. title' \in [Mounts -> {0} \cup Asked] /\ faults' \in 0..MaxFaults /\ TypeOK
  BY <1>1 DEF Inv, StreamInv, TypeOK
<1>14. StreamInv'
  BY <1>1, <1>2, <1>4, <1>12, <1>13, RowsStay, StreamStep DEF Inv
<1> QED
  BY <1>8, <1>9, <1>10, <1>11, <1>14 DEF Inv, ScreenInv

\* Whatever is read.
LEMMA ReadKeeps ==
    ASSUME Inv, NEW q \in Asked, Read(q)
    PROVE  Inv' /\ UNCHANGED inst
<1>1. PICK e, x : Reads(q, e, x)
  BY ReadShape DEF Inv
<1>2. e \in {"delta", "done", "end", "error"} /\ UNCHANGED inst
  BY <1>1 DEF Reads
<1> QED
  BY <1>1, <1>2, UnshownKeeps, DeltaKeeps, DoneKeeps, EndKeeps

-----------------------------------------------------------------------------
(* A question is asked *)

\* A question on the screen, its stream open.
LEMMA AskKeeps ==
    ASSUME Inv, NEW q \in Asked, Ask(q)
    PROVE  Inv' /\ UNCHANGED inst
<1> DEFINE a == OnScreen("assistant")
           g == Streaming
           x == [NoQuestion EXCEPT !.to = inst, !.open = TRUE, !.pc = "load",
                                   !.seen = a, !.among = g]
           m == [role |-> "user", q |-> q, id |-> FALSE]
           s == Append(view.shown, m)
           v == [view EXCEPT !.error = FALSE, !.waiting = TRUE, !.since = TRUE, !.shown = s]
<1>1. /\ inst # 0 /\ ~ view.waiting /\ view.conv = "open" /\ ask[q].to = 0
      /\ ask' = [ask EXCEPT ![q] = x]
      /\ UNCHANGED <<place, inst, made, rows, title, told, faults>>
  BY DEF Ask, CanAsk
<1>2. view' = v
  BY DEF Ask
<1>3. /\ TypeOK /\ inst \in Mounts /\ inst <= made /\ ask \in [Asked -> Question]
  BY <1>1 DEF Inv, StreamInv, TypeOK, Mounted
<1>4. a \subseteq Asked
  BY ViewFacts, MessageFacts DEF OnScreen, Inv
<1>5. g \subseteq Asked
  BY DEF Streaming, Ours
<1>6. \A p \in Asked : p \in g <=> (ask[p].to = inst /\ ask[p].open)
  BY <1>1 DEF Streaming, Ours
<1>7. a \subseteq Answered(rows[inst])
  BY <1>1 DEF Inv, StreamInv, ShownIsStored
<1>8. m \in Message /\ m.role = "user" /\ m.q = q
  BY DEF Message
<1> HIDE DEF m
<1>9. s \in Seq(Message)
  BY <1>8, ViewFacts DEF Inv
<1> HIDE DEF s
<1>10. /\ v \in View /\ v.shown = s /\ v.since /\ v.waiting /\ v.conv = view.conv
  BY <1>9, ViewFacts DEF View, Inv
<1> HIDE DEF v
<1>11. view'.shown = Append(view.shown, m) /\ view.shown \in Seq(Message)
  BY <1>2, <1>10, ViewFacts DEF s, Inv
<1>12. /\ view'.shown # <<>> /\ view'.shown[Len(view'.shown)] = m
       /\ \A i \in 1..Len(view.shown) : i \in 1..(Len(view'.shown) - 1)
                                        /\ view'.shown[i] = view.shown[i]
       /\ \A role : OnScreen(role) \subseteq OnScreen(role)'
       /\ m.q \in OnScreen(m.role)'
       /\ \A role : role # m.role => OnScreen(role)' = OnScreen(role)
  BY <1>8, <1>11, ScreenGrows
<1>13. a = OnScreen("assistant")' /\ a = OnScreen("assistant")
  BY <1>8, <1>12
<1> HIDE DEF a, g
<1>14. /\ x \in Question /\ x.to = inst /\ x.seen = a /\ x.among = g /\ x.open
       /\ x.pc = "load" /\ x.wire = <<>>
  <2>1. <<>> \in Seq({"delta", "done", "end", "error"}) /\ {} \in SUBSET Asked
    OBVIOUS
  <2> QED
    BY <1>3, <1>4, <1>5, <2>1 DEF Question, NoQuestion
<1> HIDE DEF x
<1>15. ask'[q] = x /\ \A p \in Asked : p # q => ask'[p] = ask[p]
  BY <1>1, <1>3
<1>16. ask' \in [Asked -> Question]
  BY <1>1, <1>3, <1>14
<1>17. StreamInv'
  <2>1. TypeOK'
    BY <1>1, <1>2, <1>3, <1>10, <1>16 DEF TypeOK
  <2>2. Mounted'
    BY <1>1, <1>3, <1>14, <1>15 DEF Inv, StreamInv, Mounted
  <2>3. Sound(q, x, rows)
    <3>1. <<>> \notin {Full, Rest}
      BY DEF Full, Rest
    <3> QED
      BY <1>1, <1>7, <1>14, <3>1 DEF Sound
  <2>4. \A p \in Asked : Sound(p, ask'[p], rows)
    BY <1>15, <2>3 DEF Inv, StreamInv
  <2>5. \A p \in Asked : Sound(p, ask'[p], rows')
    BY <1>1, <2>4
  <2>6. ShownIsStored'
    BY <1>1, <1>7, <1>13 DEF ShownIsStored
  <2> QED
    BY <2>1, <2>2, <2>5, <2>6 DEF StreamInv
<1>18. Ours' = Ours \cup {q}
  BY <1>1, <1>14, <1>15 DEF Ours
<1>19. Streaming' = g \cup {q} /\ q \notin g /\ g = Streaming
  BY <1>1, <1>6, <1>14, <1>15, <1>18 DEF Streaming, Ours, g
<1>20. LastInv'
  <2>1. ASSUME NEW p \in Streaming', ask'[p].wire = Rest
        PROVE  LastMayGo'
    <3>1. <<>> # Rest
      BY DEF Rest
    <3>2. g # {}
      BY <1>14, <1>15, <1>19, <2>1, <3>1
    <3> QED
      BY <1>8, <1>12, <1>14, <1>15, <3>2 DEF LastMayGo
  <2> QED
    BY <2>1 DEF LastInv
<1>21. QuestionsStay'
  <2>1. \A p \in Ours : p # q /\ p \in Asked
    BY <1>1 DEF Ours
  <2> QED
    BY <1>8, <1>12, <1>15, <1>18, <2>1 DEF Inv, ScreenInv, QuestionsStay
<1>22. Alone'
  <2> SUFFICES ASSUME NEW p \in Streaming', ask'[p].among = {}
               PROVE  (Streaming' = {p} /\ view'.waiting /\ view'.since) \/ Settled(p)'
    BY DEF Alone
  <2>1. CASE p = q
    BY <1>2, <1>10, <1>14, <1>15, <1>19, <2>1
  <2>2. CASE p # q
    <3>1. p \in Streaming /\ p \in Asked /\ ask[p].among = {}
      BY <1>5, <1>15, <1>19, <2>2
    <3>2. p \in OnScreen("assistant") \/ Settled(p)
      BY <1>1, <3>1 DEF Inv, ScreenInv, Alone
    <3>3. \E k \in 1..Len(view.shown) : view.shown[k].role = "assistant" /\ view.shown[k].q = p
      <4>1. \A k \in 1..(Len(view.shown) - 1) : k \in 1..Len(view.shown)
        BY ViewFacts DEF Inv
      <4> QED
        BY <3>2, <4>1, ViewFacts DEF OnScreen, Settled, Inv
    <3> QED
      BY <1>12, <3>3 DEF Settled
  <2> QED
    BY <2>1, <2>2
<1>23. ClockRuns' /\ AskedWhenOpen'
  BY <1>1, <1>2, <1>10, <1>19 DEF ClockRuns, AskedWhenOpen
<1> QED
  BY <1>1, <1>17, <1>20, <1>21, <1>22, <1>23 DEF Inv, ScreenInv

\* Without a conversation nothing is asked, and the reader is told.
LEMMA TooEarlyKeeps ==
    ASSUME Inv, AskTooEarly
    PROVE  Inv' /\ UNCHANGED inst
<1>1. /\ view' = [view EXCEPT !.error = TRUE]
      /\ UNCHANGED <<place, inst, made, ask, rows, title, told, faults>>
  BY DEF AskTooEarly
<1>2. /\ view' \in View /\ view'.shown = view.shown /\ view'.conv = view.conv
      /\ (view'.since <=> view.since) /\ (view'.waiting <=> view.waiting)
  BY <1>1, ViewFacts DEF View, Inv
<1>3. Ours' = Ours /\ Streaming' = Streaming
  BY <1>1 DEF Ours, Streaming
<1>4. \A role : OnScreen(role)' = OnScreen(role)
  BY <1>2 DEF OnScreen
<1>5. StreamInv'
  <2>1. TypeOK'
    BY <1>1, <1>2 DEF Inv, StreamInv, TypeOK
  <2>2. Mounted' /\ ShownIsStored'
    BY <1>1, <1>4 DEF Inv, StreamInv, Mounted, ShownIsStored
  <2>3. \A p \in Asked : Sound(p, ask'[p], rows')
    BY <1>1 DEF Inv, StreamInv
  <2> QED
    BY <2>1, <2>2, <2>3 DEF StreamInv
<1>6. LastInv' /\ QuestionsStay'
  BY <1>1, <1>2, <1>3, <1>4 DEF Inv, ScreenInv, LastInv, LastMayGo, QuestionsStay
<1>7. Alone'
  BY <1>1, <1>2, <1>3, <1>4 DEF Inv, ScreenInv, Alone, Settled
<1>8. ClockRuns' /\ AskedWhenOpen'
  BY <1>1, <1>2, <1>3 DEF Inv, ScreenInv, ClockRuns, AskedWhenOpen
<1> QED
  BY <1>1, <1>5, <1>6, <1>7, <1>8 DEF Inv, ScreenInv

-----------------------------------------------------------------------------
(* A Thread comes and goes *)

\* A Thread of which nothing was asked: what it shows is all there is to say.
LEMMA NothingAsked ==
    ASSUME StreamInv', Ours' = {}, ~ view'.since
    PROVE  Inv'
<1>1. Streaming' = {}
  BY DEF Streaming
<1>2. LastInv' /\ QuestionsStay' /\ Alone'
  BY <1>1 DEF LastInv, QuestionsStay, Alone
<1>3. ClockRuns' /\ AskedWhenOpen'
  BY DEF ClockRuns, AskedWhenOpen
<1> QED
  BY <1>2, <1>3 DEF Inv, ScreenInv

\* The disclosure is shown, or the reader is told that there is no conversation.
LEMMA OpenKeeps ==
    ASSUME Inv, OpenConversation
    PROVE  Inv' /\ UNCHANGED inst
<1>1. /\ inst # 0 /\ view.conv = "opening"
      /\ UNCHANGED <<place, inst, made, ask, rows, title, told>>
  BY DEF OpenConversation
<1>2. Ours = {} /\ Streaming = {}
  BY <1>1 DEF Inv, ScreenInv, AskedWhenOpen, Streaming
<1>3. Ours' = {}
  BY <1>1, <1>2 DEF Ours
<1>4. ~ view.since
  BY <1>2 DEF Inv, ScreenInv, ClockRuns
<1>5. /\ view' \in View /\ ~ view'.since /\ faults' \in 0..MaxFaults
      /\ OnScreen("assistant")' \subseteq OnScreen("assistant")
  <2> DEFINE m == [role |-> "disclosure", q |-> 0, id |-> FALSE]
             s == <<m>>
  <2>1. CASE view' = [view EXCEPT !.conv = "open", !.shown = s] /\ UNCHANGED faults
    <3>1. m \in Message /\ m.role = "disclosure"
      BY DEF Message
    <3> HIDE DEF m
    <3>2. s \in Seq(Message) /\ \A i \in DOMAIN s : s[i] = m
      BY <3>1
    <3> HIDE DEF s
    <3>3. view' \in View /\ view'.shown = s /\ ~ view'.since
      BY <1>4, <2>1, <3>2, ViewFacts DEF View, Inv
    <3>4. OnScreen("assistant")' = {}
      BY <3>1, <3>2, <3>3 DEF OnScreen
    <3>5. faults' \in 0..MaxFaults
      BY <2>1 DEF Inv, StreamInv, TypeOK
    <3> QED
      BY <3>3, <3>4, <3>5
  <2>2. CASE view' = [view EXCEPT !.conv = "failed", !.error = TRUE] /\ Fault
    <3>1. view' \in View /\ view'.shown = view.shown /\ ~ view'.since
      BY <1>4, <2>2, ViewFacts DEF View, Inv
    <3> QED
      BY <2>2, <3>1, FaultTyped DEF OnScreen, Inv, StreamInv
  <2> QED
    BY <2>1, <2>2 DEF OpenConversation
<1>6. StreamInv'
  <2>1. TypeOK'
    BY <1>1, <1>5 DEF Inv, StreamInv, TypeOK
  <2>2. Mounted' /\ ShownIsStored'
    BY <1>1, <1>5 DEF Inv, StreamInv, Mounted, ShownIsStored
  <2>3. \A p \in Asked : Sound(p, ask'[p], rows')
    BY <1>1 DEF Inv, StreamInv
  <2> QED
    BY <2>1, <2>2, <2>3 DEF StreamInv
<1> QED
  BY <1>1, <1>3, <1>5, <1>6, NothingAsked

\* Another Thread, or none.
LEMMA MoveKeeps ==
    ASSUME Inv, NEW p \in [page : {"site", "ask"}, panel : BOOLEAN], MoveTo(p),
           ask' \in [Asked -> Question], \A q \in Asked : ask'[q].to = ask[q].to,
           \A q \in Asked : Sound(q, ask'[q], rows), UNCHANGED <<rows, title, faults>>
    PROVE  Inv'
<1>1. /\ TypeOK /\ Mounted /\ inst \in {0} \cup Mounts /\ made \in 0..MaxMounts
      /\ MaxMounts \in Nat /\ place' = p /\ view' = Fresh /\ \A q \in Asked : ask[q].to <= made
      /\ \A q \in Asked : ask[q] \in Question /\ ask[q].to \in {0} \cup Mounts
  BY AskAssumption DEF Inv, StreamInv, TypeOK, Mounted, MoveTo, Question
<1>2. \/ inst' = 0 /\ made' = made
      \/ made < MaxMounts /\ made' = made + 1 /\ inst' = made + 1
  BY DEF MoveTo
<1>3. /\ made' \in 0..MaxMounts /\ inst' \in {0} \cup Mounts /\ inst' <= made'
      /\ \A q \in Asked : ask'[q].to <= made' /\ (inst' # 0 => ask'[q].to # inst')
  BY <1>1, <1>2 DEF Mounts
<1>4. Ours' = {}
  BY <1>3 DEF Ours
<1>5. told' \subseteq Mounts
  BY <1>1 DEF MoveTo, Unmount, TypeOK
<1>6. view' \in View /\ ~ view'.since /\ view'.shown = <<>>
  <2>1. <<>> \in Seq(Message)
    OBVIOUS
  <2> QED
    BY <1>1, <2>1 DEF Fresh, View
<1>7. TypeOK'
  BY <1>1, <1>3, <1>5, <1>6 DEF TypeOK
<1>8. Mounted'
  BY <1>3 DEF Mounted
<1>9. OnScreen("assistant")' = {}
  BY <1>6 DEF OnScreen
<1>10. \A q \in Asked : Sound(q, ask'[q], rows')
  OBVIOUS
<1>11. StreamInv'
  BY <1>7, <1>8, <1>9, <1>10 DEF StreamInv, ShownIsStored
<1> QED
  BY <1>4, <1>6, <1>11, NothingAsked

\* The panel and the links of the site.
LEMMA LeaveKeeps ==
    ASSUME Inv, OpenPanel \/ ClosePanel \/ Navigate
    PROVE  Inv' /\ \E p : MoveTo(p)
<1>1. UNCHANGED <<ask, rows, title, faults>>
  BY DEF OpenPanel, ClosePanel, Navigate
<1>2. PICK p \in [page : {"site", "ask"}, panel : BOOLEAN] : MoveTo(p)
  <2>1. place \in [page : {"site", "ask"}, panel : BOOLEAN]
    BY DEF Inv, StreamInv, TypeOK
  <2>2. /\ [place EXCEPT !.panel = TRUE] \in [page : {"site", "ask"}, panel : BOOLEAN]
        /\ [place EXCEPT !.panel = FALSE] \in [page : {"site", "ask"}, panel : BOOLEAN]
        /\ \A page \in {"site", "ask"} :
              [place EXCEPT !.page = page] \in [page : {"site", "ask"}, panel : BOOLEAN]
    BY <2>1
  <2> QED
    BY <2>2 DEF OpenPanel, ClosePanel, Navigate
<1>3. /\ ask' \in [Asked -> Question] /\ \A q \in Asked : ask'[q].to = ask[q].to
      /\ \A q \in Asked : Sound(q, ask'[q], rows)
  BY <1>1 DEF Inv, StreamInv, TypeOK
<1>4. Inv'
  BY <1>1, <1>2, <1>3, MoveKeeps
<1> QED
  BY <1>2, <1>4

\* The document is loaded again: every stream is closed.
LEMMA ReloadKeeps ==
    ASSUME Inv, Reload
    PROVE  Inv' /\ MoveTo(place)
<1>1. MoveTo(place) /\ UNCHANGED <<rows, title, faults>>
  BY DEF Reload
<1>2. PICK noticed \in SUBSET {q \in Asked : ask[q].open} :
          ask' = [q \in Asked |->
                    [ask[q] EXCEPT !.open = FALSE, !.wire = <<>>,
                                   !.pc = IF q \in noticed THEN "over" ELSE @]]
  BY DEF Reload
<1>3. ASSUME NEW q \in Asked
      PROVE  /\ ask'[q] \in Question /\ ask'[q].to = ask[q].to
             /\ Sound(q, ask'[q], rows)
  <2> DEFINE t == ask[q]
             pc == IF q \in noticed THEN "over" ELSE t.pc
             x == [t EXCEPT !.open = FALSE, !.wire = <<>>, !.pc = pc]
  <2>1. t \in Question /\ Sound(q, t, rows)
    BY QuestionFacts DEF Inv
  <2>2. ask'[q] = x
    BY <1>2
  <2>3. /\ pc = t.pc \/ (pc = "over" /\ t.open)
        /\ pc \in {"none", "load", "store", "title", "answer", "reply", "over"}
    BY <2>1 DEF Question
  <2>4. <<>> \in Seq({"delta", "done", "end", "error"}) /\ <<>> \notin {Full, Rest}
    BY DEF Full, Rest
  <2> HIDE DEF pc
  <2>5. /\ x \in Question /\ x.to = t.to /\ x.seen = t.seen
        /\ ~ x.open /\ x.pc = pc /\ x.wire = <<>>
    BY <2>1, <2>3, <2>4 DEF Question
  <2> HIDE DEF x
  <2>6. Sound(q, x, rows)
    BY <2>1, <2>3, <2>4, <2>5 DEF Sound
  <2> QED
    BY <2>2, <2>5, <2>6
<1>4. ask' \in [Asked -> Question]
  <2>1. DOMAIN ask' = Asked /\ ask' = [q \in Asked |-> ask'[q]]
    BY <1>2
  <2> QED
    BY <1>3, <2>1
<1>5. place \in [page : {"site", "ask"}, panel : BOOLEAN]
  BY DEF Inv, StreamInv, TypeOK
<1>6. Inv'
  BY <1>1, <1>3, <1>4, <1>5, MoveKeeps
<1> QED
  BY <1>1, <1>6

-----------------------------------------------------------------------------
(* The theorems *)

\* Nothing was asked at first.
LEMMA InitInv == Init => Inv
<1> SUFFICES ASSUME Init PROVE Inv
  OBVIOUS
<1>1. <<>> \in Seq({"delta", "done", "end", "error"}) /\ <<>> \notin {Full, Rest}
  BY DEF Full, Rest
<1>2. NoQuestion \in Question
  <2>1. {} \in SUBSET Asked
    OBVIOUS
  <2> QED
    BY <1>1, <2>1 DEF NoQuestion, Question
<1>3. Fresh \in View /\ ~ Fresh.since
  <2>1. <<>> \in Seq(Message)
    OBVIOUS
  <2> QED
    BY <2>1 DEF Fresh, View
<1>4. \A q \in Asked : ask[q] = NoQuestion
  BY DEF Init
<1>5. TypeOK
  <2>1. rows \in [Mounts -> Seq(Row)]
    <3>1. <<>> \in Seq(Row)
      OBVIOUS
    <3> QED
      BY <3>1 DEF Init
  <2>2. ask \in [Asked -> Question] /\ title \in [Mounts -> {0} \cup Asked]
    BY <1>2 DEF Init
  <2>3. place \in [page : {"site", "ask"}, panel : BOOLEAN]
    BY DEF Init
  <2> QED
    BY <1>3, <2>1, <2>2, <2>3, AskAssumption DEF Init, TypeOK
<1>6. Mounted
  BY <1>4 DEF Init, Mounted, NoQuestion
<1>7. \A q \in Asked : Sound(q, NoQuestion, rows)
  BY <1>1 DEF Sound, NoQuestion
<1>8. inst = 0 /\ view = Fresh
  BY DEF Init
<1>9. Ours = {} /\ Streaming = {}
  BY <1>8 DEF Ours, Streaming
<1>10. ScreenInv
  BY <1>3, <1>8, <1>9 DEF ScreenInv, LastInv, QuestionsStay, Alone, ClockRuns, AskedWhenOpen
<1> QED
  BY <1>4, <1>5, <1>6, <1>7, <1>8, <1>10 DEF Inv, StreamInv, ShownIsStored

\* Every step keeps the invariant, and only a move changes the Thread.
LEMMA StepInv ==
    ASSUME Inv, [Next]_vars
    PROVE  Inv' /\ (inst' = inst \/ \E p : MoveTo(p))
<1>1. CASE OpenPanel \/ ClosePanel \/ Navigate
  BY <1>1, LeaveKeeps
<1>2. CASE Reload
  BY <1>2, ReloadKeeps
<1>3. CASE OpenConversation
  BY <1>3, OpenKeeps
<1>4. CASE AskTooEarly
  BY <1>4, TooEarlyKeeps
<1>5. ASSUME NEW q \in Asked, Ask(q)
      PROVE  Inv' /\ inst' = inst
  BY <1>5, AskKeeps
<1>6. ASSUME NEW q \in Asked, Read(q)
      PROVE  Inv' /\ inst' = inst
  BY <1>6, ReadKeeps
<1>7. ASSUME NEW q \in Asked, Cut(q) \/ SendMessage(q)
      PROVE  Inv' /\ inst' = inst
  <2>1. StreamInv' /\ HandlerMoves(q)
    BY <1>7, CutKeeps, HandlerKeeps DEF Inv
  <2>2. ScreenInv'
    BY <2>1, HandlerScreen
  <2> QED
    BY <2>1, <2>2 DEF Inv, HandlerMoves
<1>8. CASE UNCHANGED vars
  <2>1. UNCHANGED <<place, inst, made, view, ask, rows, title, told, faults>>
    BY <1>8 DEF vars
  <2>2. TypeOK' /\ Mounted'
    BY <2>1 DEF Inv, StreamInv, TypeOK, Mounted
  <2>3. \A p \in Asked : Sound(p, ask'[p], rows')
    BY <2>1 DEF Inv, StreamInv
  <2>4. ShownIsStored'
    BY <2>1 DEF Inv, StreamInv, ShownIsStored, OnScreen
  <2>5. ScreenInv'
    BY <2>1, ScreenStays
  <2> QED
    BY <2>1, <2>2, <2>3, <2>4, <2>5 DEF Inv, StreamInv
<1> QED
  BY <1>1, <1>2, <1>3, <1>4, <1>5, <1>6, <1>7, <1>8 DEF Next

\* The invariant holds of every reachable state.
LEMMA AlwaysInv == Spec => []Inv
<1>1. Inv /\ [Next]_vars => Inv'
  BY StepInv
<1> QED
  BY InitInv, <1>1, PTL DEF Spec

\* The screen, the streams and the tables hold what their types admit.
THEOREM TypeCorrect == Spec => []TypeOK
<1>1. Inv => TypeOK
  BY DEF Inv, StreamInv
<1> QED
  BY AlwaysInv, <1>1, PTL

\* A question asked while no answer was coming in stays on the screen of its thread: the
\* message a finished answer replaces is never that question.
THEOREM QuestionsRemain == Spec => []QuestionsStay
<1>1. Inv => QuestionsStay
  BY DEF Inv, ScreenInv
<1> QED
  BY AlwaysInv, <1>1, PTL

\* An answer that is not on the screen is being waited for.
LEMMA InvTimes == Inv => WaitIsTimed
<1> SUFFICES ASSUME Inv PROVE WaitIsTimed
  OBVIOUS
<1>1. ASSUME NEW q \in Unanswered, ask[q].among = {}
      PROVE  view.since
  <2>1. q \in Streaming /\ q \notin OnScreen("assistant")
    BY DEF Unanswered
  <2>2. ~ Settled(q)
    <3>1. \A k \in 1..(Len(view.shown) - 1) : k \in DOMAIN view.shown
      BY ViewFacts DEF Inv
    <3> QED
      BY <2>1, <3>1 DEF Settled, OnScreen
  <2> QED
    BY <1>1, <2>1, <2>2 DEF Inv, ScreenInv, Alone
<1> QED
  BY <1>1 DEF Inv, ScreenInv, ClockRuns, WaitIsTimed

\* The clock of the wait never runs without a stream, and always for a question without
\* its answer, unless that one was asked while an answer was still coming in.
THEOREM WaitsAreTimed == Spec => []WaitIsTimed
BY AlwaysInv, InvTimes, PTL

\* However a question without its answer is left behind, the abandonment is reported.
THEOREM LeavingIsReported == Spec => LeavingIsTold
<1>1. Inv /\ [Next]_vars =>
         [inst' # inst => \A q \in Unanswered : ask[q].among = {} => inst \in told']_vars
  <2> SUFFICES ASSUME Inv, [Next]_vars, inst' # inst,
                      NEW q \in Unanswered, ask[q].among = {}
               PROVE  inst \in told'
    OBVIOUS
  <2>1. PICK p : MoveTo(p)
    BY StepInv
  <2>2. view.since
    BY InvTimes DEF WaitIsTimed
  <2>3. inst # 0
    BY DEF Unanswered, Streaming, Ours
  <2> QED
    BY <2>1, <2>2, <2>3 DEF MoveTo, Unmount
<1> QED
  BY AlwaysInv, <1>1, PTL DEF Spec, LeavingIsTold

-----------------------------------------------------------------------------
(* The history a question is answered from *)

\* The questions of thread n were asked one after the other, and no connection broke.
Calm(n) == \A p \in Asked : ask[p].to = n => ask[p].among = {} /\ ~ ask[p].broken

\* A question that is not done with, in the browser or in the api.
Active(x) == x.open \/ x.pc # "over"

\* Rows in the order of their questions, each answer just after its question.
InOrder(list) ==
    /\ \A i \in DOMAIN list : list[i].role = "assistant" =>
          i > 1 /\ list[i - 1].role = "user" /\ list[i - 1].q = list[i].q
    /\ \A i, j \in DOMAIN list : i < j =>
          list[i].q <= list[j].q /\ (list[i].role = list[j].role => list[i].q < list[j].q)

\* Where the handler of question p is among the rows of its thread.
Placed(p, x, list) ==
    /\ x.pc \in {"load", "store"} => \A i \in DOMAIN list : list[i].q < p
    /\ x.pc \in {"title", "answer"} => list # <<>> /\ list[Len(list)] = [role |-> "user", q |-> p]

\* A calm thread works on one question at a time, the last, and its rows are in order.
ThreadInOrder(n) ==
    /\ \A p, q \in Asked : ask[p].to = n /\ ask[q].to = n /\ Active(ask[p]) => q <= p
    /\ InOrder(rows[n])
    /\ \A p \in Asked : ask[p].to = n => Placed(p, ask[p], rows[n])

\* What is stored is on the screen or on its way there, and a finished answer will take
\* the place of its own text.
ScreenFollows ==
    /\ \A p \in Asked : p \in Answered(rows[inst]) =>
          \/ p \in OnScreen("assistant")
          \/ ask[p].open /\ (ask[p].pc = "reply" \/ ask[p].wire = Full)
    /\ \A p \in Streaming : ask[p].wire = Rest =>
          /\ view.shown # <<>>
          /\ view.shown[Len(view.shown)].role = "assistant"
          /\ view.shown[Len(view.shown)].q = p

\* Questions are asked in their order, and a row is of a question of its thread.
InSequence ==
    /\ \A p, q \in Asked : p < q /\ ask[q].to # 0 => ask[p].to # 0
    /\ \A n \in Mounts : \A i \in DOMAIN rows[n] : ask[rows[n][i].q].to = n

\* A handler that is not over has a browser that reads, unless the connection broke or
\* the Thread is gone.
Attended(x, n) ==
    /\ x.wire = <<"error">> /\ ~ x.broken => x.pc = "over"
    /\ n # 0 /\ x.to = n /\ ~ x.open /\ ~ x.broken => x.pc = "over"

\* The handler of an answer on the screen is over.
ShownIsOver == inst # 0 => \A p \in OnScreen("assistant") : ask[p].pc = "over"

\* What an undisturbed question is answered from.
Remembers(q) ==
    Undisturbed(q) =>
    /\ ask[q].pc = "load" =>
          /\ \A p \in Asked \ {q} : ask[p].to = ask[q].to => ask[p].pc = "over"
          /\ InOrder(rows[ask[q].to])
          /\ ask[q].seen = Answered(rows[ask[q].to])
    /\ ask[q].pc \notin {"none", "load", "over"} =>
          ask[q].given = {[asked |-> p, answered |-> p] : p \in Newest(ask[q].seen)}

HistoryInv ==
    /\ InSequence /\ ShownIsOver
    /\ \A q \in Asked : Attended(ask[q], inst) /\ Remembers(q)
    /\ \A n \in Mounts : Calm(n) => ThreadInOrder(n)
    /\ inst # 0 /\ Calm(inst) => ScreenFollows

\* Of rows in order the model is shown the last answers, each with its question.
LEMMA HistoryInOrder ==
    ASSUME NEW l \in Seq(Row), InOrder(l)
    PROVE  History(l) = {[asked |-> p, answered |-> p] : p \in Newest(Answered(l))}
<1> DEFINE T == Turns(l)
           A == Answered(l)
<1>1. DOMAIN l = 1..Len(l) /\ Len(l) \in Nat /\ \A i \in DOMAIN l : l[i] \in Row /\ i \in Nat
  OBVIOUS
<1>2. \A i \in DOMAIN l : l[i].q \in Asked /\ l[i].q \in Int
  BY <1>1 DEF Row, Asked
<1>3. T = {i \in DOMAIN l : l[i].role = "assistant"}
  BY DEF InOrder, Turns
<1>4. A = {l[i].q : i \in T}
  BY <1>3 DEF Answered
<1>5. \A i, j \in T : i < j => l[i].q < l[j].q
  BY <1>3 DEF InOrder
<1>6. \A i \in T : i \in DOMAIN l /\ l[i - 1].q = l[i].q
  BY <1>3 DEF InOrder
<1>7. IsFiniteSet(T)
  <2>1. IsFiniteSet(1..Len(l))
    BY <1>1, FS_Interval
  <2>2. T \in SUBSET (1..Len(l))
    BY <1>1, <1>6
  <2> QED
    BY <2>1, <2>2, FS_Subset
<1> HIDE DEF T, A
<1>8. \A i, j \in T : l[i].q > l[j].q <=> i > j
  <2> SUFFICES ASSUME NEW i \in T, NEW j \in T
               PROVE  l[i].q > l[j].q <=> i > j
    OBVIOUS
  <2>1. i \in Nat /\ j \in Nat /\ l[i].q \in Int /\ l[j].q \in Int
    BY <1>1, <1>2, <1>6
  <2>2. (i < j => l[i].q < l[j].q) /\ (j < i => l[j].q < l[i].q)
    BY <1>5
  <2> QED
    BY <2>1, <2>2
<1>9. \A i \in T : i \in Newest(T) <=> l[i].q \in Newest(A)
  <2> SUFFICES ASSUME NEW i \in T
               PROVE  i \in Newest(T) <=> l[i].q \in Newest(A)
    OBVIOUS
  <2> DEFINE U == {j \in T : j > i}
             V == {p \in A : p > l[i].q}
             f == [j \in U |-> l[j].q]
  <2>1. IsFiniteSet(U)
    <3>1. U \in SUBSET T
      OBVIOUS
    <3> QED
      BY <1>7, <3>1, FS_Subset
  <2>2. f \in [U -> V]
    BY <1>4, <1>8
  <2>3. \A a, b \in U : f[a] = f[b] => a = b
    <3> SUFFICES ASSUME NEW a \in U, NEW b \in U, f[a] = f[b]
                 PROVE  a = b
      OBVIOUS
    <3>1. a \in T /\ b \in T /\ l[a].q = l[b].q
      OBVIOUS
    <3>2. a \in Nat /\ b \in Nat /\ l[a].q \in Int
      BY <1>1, <1>2, <1>6, <3>1
    <3>3. ~ (a < b) /\ ~ (b < a)
      BY <1>5, <3>1, <3>2
    <3> QED
      BY <3>2, <3>3
  <2>4. \A p \in V : \E j \in U : f[j] = p
    <3> SUFFICES ASSUME NEW p \in V
                 PROVE  \E j \in U : f[j] = p
      OBVIOUS
    <3>1. PICK j \in T : p = l[j].q
      BY <1>4
    <3>2. j \in U
      BY <1>8, <3>1
    <3> QED
      BY <3>1, <3>2
  <2>5. f \in Surjection(U, V)
    BY <2>2, <2>4, Fun_IsSurj
  <2>6. f \in Bijection(U, V)
    BY <2>2, <2>3, <2>5, Fun_IsBij
  <2>7. Cardinality(U) = Cardinality(V)
    <3>1. ExistsBijection(U, V)
      BY <2>6 DEF ExistsBijection
    <3> QED
      BY <2>1, <3>1, FS_Bijection
  <2>8. l[i].q \in A
    BY <1>4
  <2> HIDE DEF U, V
  <2>9. i \in Newest(T) <=> Cardinality(U) < AskHistoryTurns
    BY DEF Newest, U
  <2>10. l[i].q \in Newest(A) <=> Cardinality(V) < AskHistoryTurns
    BY <2>8 DEF Newest, V
  <2> QED
    BY <2>7, <2>9, <2>10
<1>10. \A i \in Newest(T) : i \in T
  BY DEF Newest
<1>11. \A p \in Newest(A) : p \in A
  BY DEF Newest
<1>12. History(l) = {[asked |-> l[i].q, answered |-> l[i].q] : i \in Newest(T)}
  BY <1>6, <1>10 DEF History, T
<1>13. \A i \in Newest(T) : l[i].q \in Newest(A)
  BY <1>9, <1>10
<1>14. \A p \in Newest(A) : \E i \in Newest(T) : l[i].q = p
  BY <1>4, <1>9, <1>11
<1> QED
  BY <1>12, <1>13, <1>14 DEF A

\* A thread that is calm after the step was calm before it, and a question undisturbed
\* after it was undisturbed before it.
LEMMA CalmBefore ==
    ASSUME \A p \in Asked : /\ ask'[p].to = ask[p].to /\ ask'[p].among = ask[p].among
                            /\ ask[p].broken => ask'[p].broken
    PROVE  /\ \A n : Calm(n)' => Calm(n)
           /\ \A p \in Asked : Undisturbed(p)' => Undisturbed(p)
<1>1. \A n : Calm(n)' => Calm(n)
  BY DEF Calm
<1>2. \A p \in Asked : Undisturbed(p)' => Undisturbed(p)
  BY DEF Undisturbed
<1> QED
  BY <1>1, <1>2

\* Only questions of a thread are answered in it.
LEMMA AnsweredIsAsked ==
    ASSUME Inv, HistoryInv, NEW n \in Mounts
    PROVE  /\ \A p \in Answered(rows[n]) : p \in Asked /\ ask[p].to = n
           /\ rows[n] \in Seq(Row) /\ \A i \in DOMAIN rows[n] : rows[n][i] \in Row
<1>1. rows[n] \in Seq(Row)
  BY DEF Inv, StreamInv, TypeOK
<1>2. \A i \in DOMAIN rows[n] : rows[n][i] \in Row
  BY <1>1
<1>3. \A i \in DOMAIN rows[n] : rows[n][i].q \in Asked /\ ask[rows[n][i].q].to = n
  BY <1>2 DEF HistoryInv, InSequence, Row
<1> QED
  BY <1>1, <1>2, <1>3 DEF Answered

\* A question moves on, no row is added, and the screen is accounted for.
LEMMA HistoryStep ==
    ASSUME Inv, HistoryInv, NEW q \in Asked, NEW x, Becomes(q, x), UNCHANGED <<rows, inst>>,
           ask[q].broken => x.broken, Active(x) => Active(ask[q]),
           ask[q].pc = "over" => x.pc = "over", x.pc = "load" => ask[q].pc = "load",
           x.pc = "store" => ask[q].pc \in {"load", "store"},
           x.pc \in {"title", "answer"} => ask[q].pc \in {"title", "answer"},
           Attended(x, inst),
           x.pc \notin {"none", "load", "over"} =>
               \/ ask[q].pc \notin {"none", "load", "over"} /\ x.given = ask[q].given
               \/ ask[q].pc = "load" /\ x.given = History(rows[ask[q].to]),
           ShownIsOver', inst # 0 /\ Calm(inst)' => ScreenFollows'
    PROVE  HistoryInv'
<1>1. /\ ask'[q] = x /\ \A p \in Asked : p # q => ask'[p] = ask[p]
      /\ \A p \in Asked : ask'[p].to = ask[p].to /\ ask'[p].among = ask[p].among
  BY OthersStay DEF Inv
<1>2. \A p \in Asked : ask[p].broken => ask'[p].broken
  BY <1>1
<1>3. /\ \A n : Calm(n)' => Calm(n)
      /\ \A p \in Asked : Undisturbed(p)' => Undisturbed(p)
  BY <1>1, <1>2, CalmBefore
<1>4. InSequence'
  <2>1. \A n \in Mounts : \A i \in DOMAIN rows[n] : rows[n][i].q \in Asked
    BY AnsweredIsAsked DEF Row
  <2> QED
    BY <1>1, <2>1 DEF HistoryInv, InSequence
<1>5. \A p \in Asked : Attended(ask[p], inst)'
  BY <1>1 DEF HistoryInv, Attended
<1>6. ASSUME NEW p \in Asked
      PROVE  Remembers(p)'
  <2> SUFFICES ASSUME Undisturbed(p)'
               PROVE  Remembers(p)'
    BY DEF Remembers
  <2>1. Undisturbed(p) /\ Remembers(p)
    BY <1>3 DEF HistoryInv
  <2>2. ask'[p].to = ask[p].to /\ ask'[p].seen = ask[p].seen
    BY <1>1 DEF Becomes
  <2>3. \A o \in Asked : ask[o].pc = "over" => ask'[o].pc = "over"
    BY <1>1
  <2>4. ask'[p].pc = "load" => ask[p].pc = "load"
    BY <1>1
  <2>5. ASSUME ask'[p].pc \notin {"none", "load", "over"}
        PROVE  ask'[p].given = {[asked |-> o, answered |-> o] : o \in Newest(ask[p].seen)}
    <3>1. CASE ask[p].pc \notin {"none", "load", "over"} /\ ask'[p].given = ask[p].given
      BY <2>1, <3>1 DEF Remembers
    <3>2. CASE ask[p].pc = "load" /\ ask'[p].given = History(rows[ask[p].to])
      <4>1. /\ InOrder(rows[ask[p].to]) /\ ask[p].seen = Answered(rows[ask[p].to])
            /\ ask[p].to \in Mounts
        BY <2>1, <3>2, QuestionFacts DEF Remembers, Inv
      <4>2. rows[ask[p].to] \in Seq(Row)
        BY <4>1, AnsweredIsAsked
      <4> QED
        BY <3>2, <4>1, <4>2, HistoryInOrder
    <3> QED
      BY <1>1, <2>5, <3>1, <3>2
  <2> QED
    BY <1>1, <2>1, <2>2, <2>3, <2>4, <2>5 DEF Remembers
<1>7. ASSUME NEW n \in Mounts, Calm(n)'
      PROVE  ThreadInOrder(n)'
  <2>1. ThreadInOrder(n)
    BY <1>3, <1>7 DEF HistoryInv
  <2>2. \A p \in Asked : Active(ask'[p]) => Active(ask[p])
    BY <1>1
  <2>3. \A p \in Asked : Placed(p, ask[p], rows[n]) => Placed(p, ask'[p], rows[n])
    BY <1>1 DEF Placed
  <2> QED
    BY <1>1, <2>1, <2>2, <2>3 DEF ThreadInOrder
<1> QED
  BY <1>4, <1>5, <1>6, <1>7 DEF HistoryInv

\* The screen as it was, the stream of q moving on behind it.
LEMMA ScreenKept ==
    ASSUME Inv, HistoryInv, NEW q \in Asked, NEW x, Becomes(q, x), UNCHANGED <<rows, inst, view>>,
           ask[q].broken => x.broken, ask[q].pc = "over" => x.pc = "over",
           \/ q \notin Ours
           \/ /\ x.open <=> ask[q].open
              /\ x.wire = Rest => ask[q].wire = Rest
              /\ \/ x.broken
                 \/ /\ ask[q].open /\ ask[q].pc = "reply" => x.pc = "reply" \/ x.wire = Full
                    /\ ask[q].open /\ ask[q].wire = Full => x.wire = Full
    PROVE  ShownIsOver' /\ (inst # 0 /\ Calm(inst)' => ScreenFollows')
<1>1. /\ ask'[q] = x /\ \A p \in Asked : p # q => ask'[p] = ask[p]
      /\ \A p \in Asked : ask'[p].to = ask[p].to /\ ask'[p].among = ask[p].among
  BY OthersStay DEF Inv
<1>2. \A n : Calm(n)' => Calm(n)
  <2>1. \A p \in Asked : ask[p].broken => ask'[p].broken
    BY <1>1
  <2> QED
    BY <1>1, <2>1, CalmBefore
<1>3. \A role : OnScreen(role)' = OnScreen(role)
  BY DEF OnScreen
<1>4. ShownIsOver'
  <2>1. ASSUME inst # 0, NEW p \in OnScreen("assistant")
        PROVE  p \in Asked
    BY ViewFacts, MessageFacts DEF OnScreen, Inv
  <2> QED
    BY <1>1, <1>3, <2>1 DEF HistoryInv, ShownIsOver
<1>5. ASSUME inst # 0, Calm(inst)'
      PROVE  ScreenFollows'
  <2>1. Calm(inst) /\ ScreenFollows /\ inst \in Mounts
    BY <1>2, <1>5 DEF HistoryInv, Inv, StreamInv, TypeOK
  <2>2. \A p \in Answered(rows[inst]) : p \in Asked /\ p \in Ours
    BY <1>5, <2>1, AnsweredIsAsked DEF Ours
  <2>3. q \in Ours => ~ x.broken
    BY <1>1, <1>5 DEF Calm, Ours
  <2>4. ASSUME NEW p \in Asked, p \in Answered(rows[inst])
        PROVE  \/ p \in OnScreen("assistant")
               \/ ask'[p].open /\ (ask'[p].pc = "reply" \/ ask'[p].wire = Full)
    BY <1>1, <2>1, <2>2, <2>3, <2>4 DEF ScreenFollows
  <2>5. ASSUME NEW p \in Streaming', ask'[p].wire = Rest
        PROVE  p \in Streaming /\ ask[p].wire = Rest
    BY <1>1, <2>5 DEF Streaming, Ours
  <2> QED
    BY <1>3, <2>1, <2>4, <2>5 DEF ScreenFollows
<1> QED
  BY <1>4, <1>5

\* A statement that fails, or the last one: the handler is over.
LEMMA OverHistory ==
    ASSUME Inv, HistoryInv, NEW q \in Asked, ask[q].pc \notin {"none", "over"}, Server,
           UNCHANGED rows, NEW events \in {<<"error">>, Full}, Sends(q, events, "over"),
           ask[q].pc = "reply" => events = Full
    PROVE  HistoryInv'
<1>1. PICK x : /\ Becomes(q, x) /\ (x.open <=> ask[q].open) /\ x.pc = "over"
               /\ x.wire = events \/ x.wire = ask[q].wire
               /\ ask[q].open /\ ask[q].wire # <<"error">> => x.wire = events
               /\ x.broken = ask[q].broken
  BY SendsFacts DEF Inv
<1>2. UNCHANGED <<rows, inst, view>>
  BY DEF Server
<1>3. <<"error">> # Rest /\ <<"error">> # Full /\ Full # Rest /\ <<>> # Full
  BY DEF Full, Rest
<1>4. ask[q].open => ask[q].wire \in {<<>>, <<"error">>}
  BY QuestionFacts DEF Inv, Sound
<1>5. ask[q].open /\ ask[q].wire = <<"error">> => ask[q].broken
  BY DEF HistoryInv, Attended
<1>6. ShownIsOver' /\ (inst # 0 /\ Calm(inst)' => ScreenFollows')
  BY <1>1, <1>2, <1>3, <1>4, <1>5, ScreenKept
<1>7. Attended(x, inst)
  BY <1>1 DEF Attended
<1> QED
  BY <1>1, <1>2, <1>6, <1>7, HistoryStep DEF Active

\* A connection that breaks.
LEMMA CutHistory ==
    ASSUME Inv, HistoryInv, NEW q \in Asked, Cut(q)
    PROVE  HistoryInv'
<1> DEFINE t == ask[q]
<1>1. t \in Question /\ t.open /\ UNCHANGED <<rows, inst, view>>
  BY QuestionFacts DEF Cut, Inv
<1>2. PICK pc \in {t.pc, "over"} :
         ask' = [ask EXCEPT ![q].wire = <<"error">>, ![q].pc = pc, ![q].broken = TRUE]
  BY DEF Cut
<1> DEFINE w == <<"error">>
           x == [t EXCEPT !.wire = w, !.pc = pc, !.broken = TRUE]
<1>3. ask' = [ask EXCEPT ![q] = x]
  BY <1>2
<1>4. w \in Seq({"delta", "done", "end", "error"}) /\ w \notin {Full, Rest}
  BY DEF Full, Rest
<1> HIDE DEF w
<1>5. /\ x \in Question /\ x.to = t.to /\ x.seen = t.seen /\ x.among = t.among
      /\ (x.open <=> t.open) /\ x.pc = pc /\ x.wire = w /\ x.given = t.given /\ x.broken
  BY <1>1, <1>4 DEF Question
<1> HIDE DEF x
<1>6. Becomes(q, x)
  BY <1>3, <1>5 DEF Becomes
<1>7. ShownIsOver' /\ (inst # 0 /\ Calm(inst)' => ScreenFollows')
  BY <1>1, <1>4, <1>5, <1>6, ScreenKept
<1>8. Attended(x, inst)
  BY <1>5 DEF Attended
<1>9. Active(x) => Active(t)
  BY <1>1 DEF Active
<1> QED
  BY <1>1, <1>5, <1>6, <1>7, <1>8, <1>9, HistoryStep

\* A statement that adds no row: the history is read, or the thread is named.
LEMMA NoRowHistory ==
    ASSUME Inv, HistoryInv, NEW q \in Asked, NEW x, Becomes(q, x), UNCHANGED <<rows, inst, view>>,
           x.open <=> ask[q].open, x.wire = ask[q].wire, x.broken = ask[q].broken,
           \/ ask[q].pc = "load" /\ x.pc = "store" /\ x.given = History(rows[ask[q].to])
           \/ ask[q].pc = "title" /\ x.pc = "answer" /\ x.given = ask[q].given
    PROVE  HistoryInv'
<1>1. ShownIsOver' /\ (inst # 0 /\ Calm(inst)' => ScreenFollows')
  BY ScreenKept
<1>2. Attended(x, inst)
  BY DEF HistoryInv, Attended, Becomes
<1> QED
  BY <1>1, <1>2, HistoryStep DEF Active

\* The history is read.
LEMMA LoadHistory ==
    ASSUME Inv, HistoryInv, NEW q \in Asked, Load(q)
    PROVE  HistoryInv'
<1>1. ask[q].pc = "load" /\ Server
  BY DEF Load
<1>2. CASE Refuse(q)
  BY <1>1, <1>2, OverHistory DEF Refuse
<1>3. CASE ~ Refuse(q)
  <2> DEFINE t == ask[q]
             k == History(rows[t.to])
             u == (title[t.to] = 0)
             x == [t EXCEPT !.pc = "store", !.given = k, !.untitled = u]
  <2>1. t \in Question /\ rows[t.to] \in Seq(Row)
    BY <1>1, QuestionFacts DEF Inv
  <2>2. k \in SUBSET Turn
    BY <2>1, HistoryTyped
  <2>3. u \in BOOLEAN /\ ask' = [ask EXCEPT ![q] = x] /\ UNCHANGED <<rows, inst, view>>
    BY <1>3 DEF Load, Server
  <2> HIDE DEF k, u
  <2>4. /\ x \in Question /\ x.to = t.to /\ x.seen = t.seen /\ x.among = t.among
        /\ (x.open <=> t.open) /\ x.pc = "store" /\ x.wire = t.wire /\ x.given = k
        /\ x.broken = t.broken
    BY <2>1, <2>2, <2>3 DEF Question
  <2> HIDE DEF x
  <2>5. Becomes(q, x)
    BY <2>3, <2>4 DEF Becomes
  <2> QED
    BY <1>1, <2>3, <2>4, <2>5, NoRowHistory DEF k
<1> QED
  BY <1>2, <1>3

\* The handler goes on to its next statement: what is known of the question then.
LEMMA PcShape ==
    ASSUME Inv, NEW q \in Asked, NEW pc \in {"title", "answer", "reply"},
           ask' = [ask EXCEPT ![q].pc = pc]
    PROVE  \E x : /\ Becomes(q, x) /\ (x.open <=> ask[q].open) /\ x.wire = ask[q].wire
                  /\ x.broken = ask[q].broken /\ x.given = ask[q].given /\ x.pc = pc
<1> DEFINE t == ask[q]
           x == [t EXCEPT !.pc = pc]
<1>1. t \in Question
  BY QuestionFacts DEF Inv
<1>2. ask' = [ask EXCEPT ![q] = x]
  OBVIOUS
<1>3. /\ x \in Question /\ x.to = t.to /\ x.seen = t.seen /\ x.among = t.among
      /\ (x.open <=> t.open) /\ x.pc = pc /\ x.wire = t.wire /\ x.given = t.given
      /\ x.broken = t.broken
  BY <1>1 DEF Question
<1> HIDE DEF x
<1> QED
  BY <1>2, <1>3 DEF Becomes

\* The conversation gets its name, or does not.
LEMMA TitleHistory ==
    ASSUME Inv, HistoryInv, NEW q \in Asked, Title(q)
    PROVE  HistoryInv'
<1>1. /\ ask[q].pc = "title" /\ ask' = [ask EXCEPT ![q].pc = "answer"]
      /\ UNCHANGED <<rows, inst, view>>
  BY DEF Title, Server
<1>2. PICK x : /\ Becomes(q, x) /\ (x.open <=> ask[q].open) /\ x.wire = ask[q].wire
               /\ x.broken = ask[q].broken /\ x.given = ask[q].given /\ x.pc = "answer"
  BY <1>1, PcShape
<1> QED
  BY <1>1, <1>2, NoRowHistory

\* A row more at the end of rows in order.
LEMMA OrderGrows ==
    ASSUME NEW l \in Seq(Row), InOrder(l), NEW q \in Asked, NEW row \in Row, row.q = q,
           \/ row.role = "user" /\ \A i \in DOMAIN l : l[i].q < q
           \/ row.role = "assistant" /\ l # <<>> /\ l[Len(l)] = [role |-> "user", q |-> q]
    PROVE  InOrder(Append(l, row)) /\ Answered(Append(l, row)) \subseteq Answered(l) \cup {q}
<1> DEFINE a == Append(l, row)
<1>1. /\ Len(l) \in Nat /\ DOMAIN l = 1..Len(l) /\ DOMAIN a = 1..(Len(l) + 1)
      /\ \A i \in 1..Len(l) : a[i] = l[i]
      /\ a[Len(l) + 1] = row
      /\ \A i \in DOMAIN l : l[i] \in Row
      /\ l # <<>> => Len(l) > 0
  OBVIOUS
<1> HIDE DEF a
<1>2. \A i \in 1..(Len(l) + 1) : i \in 1..Len(l) \/ i = Len(l) + 1
  BY <1>1
<1>3. \A i \in DOMAIN l : l[i].q \in Int /\ l[i].role \in {"user", "assistant"} /\ i \in Nat
  BY <1>1 DEF Row, Asked
<1>4. q \in Int
  BY DEF Asked
<1>5. \A i \in DOMAIN l : l[i].q <= q /\ (l[i].role = row.role => l[i].q < q)
  <2>1. CASE row.role = "user" /\ \A i \in DOMAIN l : l[i].q < q
    BY <1>3, <1>4, <2>1
  <2>2. CASE row.role = "assistant" /\ l # <<>> /\ l[Len(l)] = [role |-> "user", q |-> q]
    <3> DEFINE n == Len(l)
    <3>1. n \in DOMAIN l /\ l[n].q = q /\ l[n].role = "user" /\ n \in Nat
      BY <1>1, <2>2
    <3>2. \A i \in DOMAIN l : i # n => i < n
      BY <1>1, <3>1
    <3>3. \A i \in DOMAIN l : l[i].q <= q
      BY <1>3, <1>4, <3>1, <3>2 DEF InOrder
    <3>4. ASSUME NEW i \in DOMAIN l, l[i].role = "assistant"
          PROVE  l[i].q < q
      <4>1. i > 1 /\ l[i - 1].role = "user" /\ l[i - 1].q = l[i].q
        BY <3>4 DEF InOrder
      <4>2. i < n
        BY <3>1, <3>2, <3>4
      <4>3. i - 1 \in DOMAIN l /\ i - 1 < n
        BY <1>1, <3>1, <4>1, <4>2
      <4>4. l[i - 1].q < l[n].q
        BY <3>1, <4>1, <4>3 DEF InOrder
      <4> QED
        BY <3>1, <4>1, <4>4
    <3> QED
      BY <2>2, <3>3, <3>4
  <2> QED
    BY <2>1, <2>2
<1>6. \A i \in DOMAIN a : a[i].role = "assistant" =>
          i > 1 /\ a[i - 1].role = "user" /\ a[i - 1].q = a[i].q
  <2> SUFFICES ASSUME NEW i \in DOMAIN a, a[i].role = "assistant"
               PROVE  i > 1 /\ a[i - 1].role = "user" /\ a[i - 1].q = a[i].q
    OBVIOUS
  <2>1. CASE i \in 1..Len(l)
    <3>1. i > 1 /\ l[i - 1].role = "user" /\ l[i - 1].q = l[i].q
      BY <1>1, <2>1 DEF InOrder
    <3>2. i - 1 \in 1..Len(l)
      BY <1>1, <2>1, <3>1
    <3> QED
      BY <1>1, <2>1, <3>1, <3>2
  <2>2. CASE i = Len(l) + 1
    <3>1. l # <<>> /\ l[Len(l)] = [role |-> "user", q |-> q]
      BY <1>1, <2>2
    <3>2. Len(l) \in 1..Len(l) /\ Len(l) > 0 /\ (Len(l) + 1) - 1 = Len(l)
      BY <1>1, <3>1
    <3> QED
      BY <1>1, <2>2, <3>1, <3>2
  <2> QED
    BY <1>1, <1>2, <2>1, <2>2
<1>7. \A i, j \in DOMAIN a : i < j =>
          a[i].q <= a[j].q /\ (a[i].role = a[j].role => a[i].q < a[j].q)
  <2> SUFFICES ASSUME NEW i \in DOMAIN a, NEW j \in DOMAIN a, i < j
               PROVE  a[i].q <= a[j].q /\ (a[i].role = a[j].role => a[i].q < a[j].q)
    OBVIOUS
  <2>1. i \in 1..Len(l)
    BY <1>1
  <2>2. CASE j \in 1..Len(l)
    BY <1>1, <2>1, <2>2 DEF InOrder
  <2>3. CASE j = Len(l) + 1
    BY <1>1, <1>5, <2>1, <2>3
  <2> QED
    BY <1>1, <1>2, <2>2, <2>3
<1>8. InOrder(a)
  BY <1>6, <1>7 DEF InOrder
<1>9. Answered(a) \subseteq Answered(l) \cup {q}
  BY <1>1, <1>2 DEF Answered
<1> QED
  BY <1>8, <1>9 DEF a

\* The question, or its answer, is stored.
LEMMA RowHistory ==
    ASSUME Inv, HistoryInv, NEW q \in Asked, NEW x, Becomes(q, x), NEW row \in Row, row.q = q,
           NEW n \in Mounts, n = ask[q].to, rows' = [rows EXCEPT ![n] = Append(@, row)],
           UNCHANGED <<inst, view>>,
           x.open <=> ask[q].open, x.wire = ask[q].wire, x.broken = ask[q].broken,
           x.given = ask[q].given,
           \/ ask[q].pc = "store" /\ row.role = "user" /\ x.pc \in {"title", "answer"}
           \/ ask[q].pc = "answer" /\ row.role = "assistant" /\ x.pc = "reply"
    PROVE  HistoryInv'
<1> DEFINE l == rows[n]
           a == Append(l, row)
<1>1. /\ ask'[q] = x /\ \A p \in Asked : p # q => ask'[p] = ask[p]
      /\ \A p \in Asked : ask'[p].to = ask[p].to /\ ask'[p].among = ask[p].among
      /\ \A p \in Asked : ask'[p].broken = ask[p].broken /\ (ask'[p].open <=> ask[p].open)
      /\ \A p \in Asked : ask'[p].wire = ask[p].wire
  <2>1. /\ ask'[q] = x /\ \A p \in Asked : p # q => ask'[p] = ask[p]
        /\ \A p \in Asked : ask'[p].to = ask[p].to /\ ask'[p].among = ask[p].among
    BY OthersStay DEF Inv
  <2> QED
    BY <2>1
<1>2. /\ \A k : Calm(k)' => Calm(k)
      /\ \A p \in Asked : Undisturbed(p)' => Undisturbed(p)
  <2>1. \A p \in Asked : ask[p].broken => ask'[p].broken
    BY <1>1
  <2> QED
    BY <1>1, <2>1, CalmBefore
<1>3. l \in Seq(Row) /\ rows'[n] = a /\ \A k \in Mounts : k # n => rows'[k] = rows[k]
  BY DEF Inv, StreamInv, TypeOK
<1>4. /\ Len(l) \in Nat /\ DOMAIN l = 1..Len(l) /\ DOMAIN a = 1..(Len(l) + 1)
      /\ \A i \in 1..Len(l) : a[i] = l[i] /\ l[i] \in Row
      /\ a[Len(l) + 1] = row /\ a # <<>> /\ Len(a) = Len(l) + 1
  BY <1>3
<1>5. \A i \in 1..(Len(l) + 1) : i \in 1..Len(l) \/ i = Len(l) + 1
  BY <1>4
<1>6. InSequence'
  <2>1. \A k \in Mounts : \A i \in DOMAIN rows[k] : rows[k][i].q \in Asked /\ ask[rows[k][i].q].to = k
    BY AnsweredIsAsked DEF Row, HistoryInv, InSequence
  <2>2. \A i \in DOMAIN rows'[n] : rows'[n][i].q \in Asked /\ ask[rows'[n][i].q].to = n
    <3> HIDE DEF a
    <3> QED
      BY <1>3, <1>4, <1>5, <2>1
  <2> QED
    BY <1>1, <1>3, <2>1, <2>2 DEF HistoryInv, InSequence
<1>7. ShownIsOver'
  <2>1. OnScreen("assistant")' = OnScreen("assistant")
    BY DEF OnScreen
  <2>2. inst # 0 => \A p \in OnScreen("assistant") : p \in Asked
    BY ViewFacts, MessageFacts DEF OnScreen, Inv
  <2> QED
    BY <1>1, <2>1, <2>2 DEF HistoryInv, ShownIsOver
<1>8. \A p \in Asked : Attended(ask[p], inst)'
  BY <1>1 DEF HistoryInv, Attended
<1>9. ASSUME NEW p \in Asked
      PROVE  Remembers(p)'
  <2> SUFFICES ASSUME Undisturbed(p)'
               PROVE  Remembers(p)'
    BY DEF Remembers
  <2>1. Undisturbed(p) /\ Remembers(p)
    BY <1>2 DEF HistoryInv
  <2>2. ask'[p].to = ask[p].to /\ ask'[p].seen = ask[p].seen /\ ask'[p].given = ask[p].given
    BY <1>1 DEF Becomes
  <2>3. ASSUME ask'[p].pc = "load"
        PROVE  /\ p # q /\ ask[p].pc = "load" /\ ask[p].to # n /\ ask[p].to \in Mounts
               /\ \A o \in Asked \ {p} : ask[o].to = ask[p].to => ask'[o].pc = "over"
    <3>1. p # q /\ ask[p].pc = "load"
      BY <1>1, <2>3
    <3>2. \A o \in Asked \ {p} : ask[o].to = ask[p].to => ask[o].pc = "over"
      BY <2>1, <3>1 DEF Remembers
    <3>3. ask[p].to # n
      BY <3>1, <3>2
    <3>4. ask[p].to \in Mounts
      BY <3>1, QuestionFacts DEF Inv
    <3>5. \A o \in Asked : ask[o].pc = "over" => ask'[o].pc = "over"
      BY <1>1
    <3> QED
      BY <3>1, <3>2, <3>3, <3>4, <3>5
  <2>4. ask'[p].pc \notin {"none", "load", "over"} => ask[p].pc \notin {"none", "load", "over"}
    BY <1>1
  <2> QED
    BY <1>1, <1>3, <2>1, <2>2, <2>3, <2>4 DEF Remembers
<1>10. ASSUME Calm(n)
       PROVE  InOrder(a) /\ Answered(a) \subseteq Answered(l) \cup {q}
  <2>1. ThreadInOrder(n)
    BY <1>10 DEF HistoryInv
  <2>2. InOrder(l) /\ Placed(q, ask[q], l)
    BY <2>1 DEF ThreadInOrder
  <2> QED
    BY <1>3, <2>2, OrderGrows DEF Placed
<1>11. ASSUME NEW k \in Mounts, Calm(k)'
       PROVE  ThreadInOrder(k)'
  <2>1. ThreadInOrder(k) /\ Calm(k)
    BY <1>2, <1>11 DEF HistoryInv
  <2>2. \A p \in Asked : Active(ask'[p]) => Active(ask[p])
    BY <1>1 DEF Active
  <2>3. CASE k # n
    <3>1. \A p \in Asked : ask[p].to = k => Placed(p, ask'[p], rows[k])
      BY <1>1, <2>1, <2>3 DEF ThreadInOrder
    <3> QED
      BY <1>1, <1>3, <2>1, <2>2, <2>3, <3>1 DEF ThreadInOrder
  <2>4. CASE k = n
    <3>1. InOrder(a)
      BY <1>10, <2>1, <2>4
    <3>2. Placed(q, x, a)
      <4>1. x.pc \in {"title", "answer"} => row = [role |-> "user", q |-> q]
        BY DEF Row
      <4> QED
        BY <1>4, <4>1 DEF Placed
    <3>3. ASSUME NEW p \in Asked, ask[p].to = n, p # q
          PROVE  Placed(p, ask'[p], a)
      <4>1. ~ Active(ask[p])
        <5>1. Active(ask[q])
          BY DEF Active
        <5>2. (q <= p /\ p <= q) \/ ~ Active(ask[p])
          BY <2>1, <2>4, <3>3, <5>1 DEF ThreadInOrder
        <5> QED
          BY <3>3, <5>2 DEF Asked
      <4> QED
        BY <1>1, <3>3, <4>1 DEF Active, Placed
    <3> HIDE DEF a
    <3>4. \A p \in Asked : ask'[p].to = n => Placed(p, ask'[p], a)
      BY <1>1, <3>2, <3>3
    <3> QED
      BY <1>1, <1>3, <2>1, <2>2, <2>4, <3>1, <3>4 DEF ThreadInOrder
  <2> QED
    BY <2>3, <2>4
<1>12. ASSUME inst # 0, Calm(inst)'
       PROVE  ScreenFollows'
  <2>1. Calm(inst) /\ ScreenFollows
    BY <1>2, <1>12 DEF HistoryInv
  <2>2. OnScreen("assistant")' = OnScreen("assistant")
    BY DEF OnScreen
  <2>3. ASSUME NEW p \in Asked, p \in Answered(rows'[inst])
        PROVE  \/ p \in OnScreen("assistant")
               \/ ask'[p].open /\ (ask'[p].pc = "reply" \/ ask'[p].wire = Full)
    <3>0. inst \in Mounts
      BY <1>12 DEF Inv, StreamInv, TypeOK
    <3>1. CASE p \in Answered(rows[inst])
      <4>1. ask[p].pc = "reply" => ask'[p].pc = "reply"
        BY <1>1
      <4> QED
        BY <1>1, <2>1, <3>1, <4>1 DEF ScreenFollows
    <3>2. CASE p \notin Answered(rows[inst])
      <4>1. inst = n
        BY <1>3, <2>3, <3>0, <3>2
      <4>2. p = q
        BY <1>3, <1>10, <2>1, <2>3, <3>2, <4>1
      <4>3. row.role = "assistant"
        <5>1. ASSUME row.role # "assistant"
              PROVE  Answered(a) \subseteq Answered(l)
          BY <1>4, <1>5, <5>1 DEF Answered
        <5> QED
          BY <1>3, <2>3, <3>2, <4>1, <5>1
      <4>4. ask[q].open
        BY <2>1, <4>1, <4>3, <1>12 DEF HistoryInv, Attended, Calm
      <4> QED
        BY <1>1, <4>2, <4>3, <4>4
    <3> QED
      BY <3>1, <3>2
  <2>4. ASSUME NEW p \in Streaming', ask'[p].wire = Rest
        PROVE  p \in Streaming /\ ask[p].wire = Rest
    BY <1>1, <2>4 DEF Streaming, Ours
  <2> QED
    BY <2>1, <2>2, <2>3, <2>4 DEF ScreenFollows
<1> QED
  BY <1>6, <1>7, <1>8, <1>9, <1>11, <1>12 DEF HistoryInv

\* The question is stored.
LEMMA StoreHistory ==
    ASSUME Inv, HistoryInv, NEW q \in Asked, Store(q)
    PROVE  HistoryInv'
<1>1. ask[q].pc = "store" /\ Server
  BY DEF Store
<1>2. CASE Refuse(q)
  BY <1>1, <1>2, OverHistory DEF Refuse
<1>3. CASE ~ Refuse(q)
  <2> DEFINE row == [role |-> "user", q |-> q]
             pc == IF ask[q].untitled THEN "title" ELSE "answer"
  <2>1. /\ rows' = [rows EXCEPT ![ask[q].to] = Append(@, row)]
        /\ ask' = [ask EXCEPT ![q].pc = pc] /\ UNCHANGED <<inst, view>>
    BY <1>1, <1>3 DEF Store, Server
  <2>2. row \in Row /\ row.q = q /\ row.role = "user" /\ ask[q].to \in Mounts
    BY <1>1, QuestionFacts DEF Row, Inv
  <2> HIDE DEF row
  <2>3. pc \in {"title", "answer"} /\ pc \in {"title", "answer", "reply"}
    OBVIOUS
  <2> HIDE DEF pc
  <2>4. PICK x : /\ Becomes(q, x) /\ (x.open <=> ask[q].open) /\ x.wire = ask[q].wire
                 /\ x.broken = ask[q].broken /\ x.given = ask[q].given /\ x.pc = pc
    BY <2>1, <2>3, PcShape
  <2> QED
    BY <1>1, <2>1, <2>2, <2>3, <2>4, RowHistory
<1> QED
  BY <1>2, <1>3

\* The answer is stored.
LEMMA AnswerHistory ==
    ASSUME Inv, HistoryInv, NEW q \in Asked, Answer(q)
    PROVE  HistoryInv'
<1>1. ask[q].pc = "answer" /\ Server
  BY DEF Answer
<1>2. CASE Refuse(q)
  BY <1>1, <1>2, OverHistory DEF Refuse
<1>3. CASE ~ Refuse(q)
  <2> DEFINE row == [role |-> "assistant", q |-> q]
  <2>1. /\ rows' = [rows EXCEPT ![ask[q].to] = Append(@, row)]
        /\ ask' = [ask EXCEPT ![q].pc = "reply"] /\ UNCHANGED <<inst, view>>
    BY <1>1, <1>3 DEF Answer, Server
  <2>2. row \in Row /\ row.q = q /\ row.role = "assistant" /\ ask[q].to \in Mounts
    BY <1>1, QuestionFacts DEF Row, Inv
  <2> HIDE DEF row
  <2>3. PICK x : /\ Becomes(q, x) /\ (x.open <=> ask[q].open) /\ x.wire = ask[q].wire
                 /\ x.broken = ask[q].broken /\ x.given = ask[q].given /\ x.pc = "reply"
    BY <2>1, PcShape
  <2> QED
    BY <1>1, <2>1, <2>2, <2>3, RowHistory
<1> QED
  BY <1>2, <1>3

\* Every step of the handler.
LEMMA HandlerHistory ==
    ASSUME Inv, HistoryInv, NEW q \in Asked, SendMessage(q)
    PROVE  HistoryInv'
<1>1. CASE Reply(q)
  <2>1. ask[q].pc = "reply" /\ Server /\ Sends(q, Full, "over") /\ UNCHANGED rows
    BY <1>1 DEF Reply, Full
  <2> QED
    BY <2>1, OverHistory
<1> QED
  BY <1>1, LoadHistory, StoreHistory, TitleHistory, AnswerHistory DEF SendMessage

\* An event is read; the screen after it is accounted for.
LEMMA ReadStep ==
    ASSUME Inv, HistoryInv, NEW q \in Asked, NEW e, NEW x, Reads(q, e, x),
           ShownIsOver', inst # 0 /\ Calm(inst)' => ScreenFollows'
    PROVE  HistoryInv'
<1>1. /\ Becomes(q, x) /\ x.pc = ask[q].pc /\ x.given = ask[q].given /\ x.broken = ask[q].broken
      /\ ask[q].open /\ UNCHANGED <<rows, inst>>
  BY DEF Reads
<1>2. \/ e \in {"delta", "done"} /\ x.open /\ x.wire # <<"error">>
      \/ e \in {"end", "error"} /\ ask[q].wire = <<e>> /\ x.wire = <<>>
  BY DEF Reads, Rest
<1>3. ask[q].wire = <<"end">> => ask[q].pc = "over"
  <2>1. <<"end">> # <<>> /\ <<"end">> # <<"error">>
    OBVIOUS
  <2> QED
    BY <1>1, <2>1, QuestionFacts DEF Inv, Sound
<1>4. <<>> # <<"error">>
  OBVIOUS
<1>5. Attended(x, inst)
  BY <1>1, <1>2, <1>3, <1>4 DEF HistoryInv, Attended, Becomes
<1>6. Active(x) => Active(ask[q])
  BY <1>1 DEF Active
<1> QED
  BY <1>1, <1>5, <1>6, HistoryStep

\* What is read for a Thread that is gone.
LEMMA UnshownHistory ==
    ASSUME Inv, HistoryInv, NEW q \in Asked, NEW e, NEW x, Reads(q, e, x), q \notin Ours
    PROVE  HistoryInv'
<1>1. /\ Becomes(q, x) /\ x.pc = ask[q].pc /\ x.broken = ask[q].broken
      /\ UNCHANGED <<rows, inst, view>>
  BY DEF Reads
<1>2. ShownIsOver' /\ (inst # 0 /\ Calm(inst)' => ScreenFollows')
  BY <1>1, ScreenKept
<1> QED
  BY <1>2, ReadStep

\* While one stream of a calm thread is open, there is no other.
LEMMA OneStream ==
    ASSUME Inv, HistoryInv, NEW q \in Streaming, Calm(inst)
    PROVE  Streaming = {q}
<1>1. inst \in Mounts
  BY DEF Inv, StreamInv, TypeOK, Streaming, Ours
<1>2. ThreadInOrder(inst)
  BY <1>1 DEF HistoryInv
<1>3. \A p \in Streaming : p \in Asked /\ ask[p].to = inst /\ Active(ask[p])
  BY DEF Streaming, Ours, Active
<1>4. \A p \in Streaming : p <= q /\ q <= p
  BY <1>2, <1>3 DEF ThreadInOrder
<1>5. \A p \in Streaming : p \in Int
  BY <1>3 DEF Asked
<1> QED
  BY <1>4, <1>5

\* The text of an answer, or the finished message in its place.
LEMMA ShownHistory ==
    ASSUME Inv, HistoryInv, NEW q \in Ours, NEW e \in {"delta", "done"}, NEW x, Reads(q, e, x)
    PROVE  HistoryInv'
<1>1. /\ Becomes(q, x) /\ x.open /\ x.pc = ask[q].pc /\ x.broken = ask[q].broken /\ ask[q].open
      /\ UNCHANGED <<rows, inst>> /\ view' = Shown(q, e, view)
      /\ \/ e = "delta" /\ ask[q].wire = Full
         \/ e = "done" /\ ask[q].wire = Rest /\ x.wire = <<"end">>
  BY DEF Reads
<1>2. /\ ask'[q] = x /\ \A p \in Asked : p # q => ask'[p] = ask[p]
      /\ \A p \in Asked : ask'[p].to = ask[p].to /\ ask'[p].among = ask[p].among
  BY <1>1, OthersStay DEF Inv, Ours
<1>3. q \in Asked /\ q \in Streaming /\ inst # 0 /\ ask[q].to = inst
  BY <1>1 DEF Streaming, Ours
<1>4. \A n : Calm(n)' => Calm(n)
  <2>1. \A p \in Asked : ask[p].broken => ask'[p].broken
    BY <1>1, <1>2
  <2> QED
    BY <1>2, <2>1, CalmBefore
<1>5. ask[q].pc = "over"
  <2>0. Full \notin {<<>>, <<"error">>} /\ Rest \notin {<<>>, <<"error">>}
    BY DEF Full, Rest
  <2>1. ask[q].wire \notin {<<>>, <<"error">>}
    BY <1>1, <2>0
  <2> QED
    BY <1>1, <1>3, <2>1, QuestionFacts DEF Inv, Sound
<1>6. Streaming' = Streaming
  BY <1>1, <1>2, <1>3 DEF Streaming, Ours
<1>7. /\ view'.shown # <<>>
      /\ view'.shown[Len(view'.shown)].role = "assistant"
      /\ view'.shown[Len(view'.shown)].q = q
      /\ q \in OnScreen("assistant")'
      /\ OnScreen("assistant")' \subseteq OnScreen("assistant") \cup {q}
      /\ Calm(inst) => OnScreen("assistant") \subseteq OnScreen("assistant")'
  <2>1. CASE e = "delta"
    <3> DEFINE m == [role |-> "assistant", q |-> q, id |-> FALSE]
    <3>1. m \in Message /\ m.role = "assistant" /\ m.q = q
      BY <1>3 DEF Message
    <3> HIDE DEF m
    <3>2. view.shown \in Seq(Message) /\ view \in View
      BY ViewFacts DEF Inv
    <3>3. view'.shown = Append(view.shown, m)
      <4>1. view' = [view EXCEPT !.waiting = FALSE, !.shown = Append(@, m)]
        BY <1>1, <2>1 DEF Shown, m
      <4> QED
        BY <3>2, <4>1 DEF View
    <3> QED
      BY <3>1, <3>2, <3>3, ScreenGrows
  <2>2. CASE e = "done"
    <3> DEFINE m == [role |-> "assistant", q |-> q, id |-> TRUE]
    <3>1. m \in Message /\ m.role = "assistant" /\ m.q = q
      BY <1>3 DEF Message
    <3> HIDE DEF m
    <3>2. view.shown \in Seq(Message) /\ view \in View /\ view.shown # <<>>
      <4>1. LastMayGo
        BY <1>1, <1>3, <2>2 DEF Inv, ScreenInv, LastInv
      <4> QED
        BY <4>1, ViewFacts DEF Inv, LastMayGo
    <3>3. view'.shown = ReplaceLast(view.shown, m)
      <4>1. view' = [view EXCEPT !.shown = ReplaceLast(@, m)]
        BY <1>1, <2>2 DEF Shown, m
      <4> QED
        BY <3>2, <4>1 DEF View
    <3>4. /\ view'.shown \in Seq(Message) /\ Len(view'.shown) = Len(view.shown)
          /\ view'.shown # <<>> /\ view'.shown[Len(view'.shown)] = m
          /\ \A i \in 1..(Len(view.shown) - 1) : view'.shown[i] = view.shown[i]
          /\ OnScreen("assistant")' \subseteq OnScreen("assistant") \cup {m.q}
          /\ m.q \in OnScreen("assistant")'
      BY <3>1, <3>2, <3>3, ScreenReplaces
    <3>5. ASSUME Calm(inst), NEW p \in OnScreen("assistant")
          PROVE  p \in OnScreen("assistant")'
      <4>1. PICK i \in DOMAIN view.shown : view.shown[i].role = "assistant" /\ view.shown[i].q = p
        BY <3>5 DEF OnScreen
      <4>2. view.shown[Len(view.shown)].q = q
        BY <1>1, <1>3, <2>2, <3>5 DEF HistoryInv, ScreenFollows
      <4>3. /\ Len(view.shown) \in Nat /\ DOMAIN view.shown = 1..Len(view.shown)
            /\ DOMAIN view'.shown = 1..Len(view'.shown)
        BY <3>2, <3>4
      <4>4. i \in 1..(Len(view.shown) - 1) \/ i = Len(view.shown)
        BY <4>1, <4>3
      <4>5. CASE i = Len(view.shown)
        BY <3>1, <3>4, <4>1, <4>2, <4>5
      <4>6. CASE i \in 1..(Len(view.shown) - 1)
        <5>1. i \in DOMAIN view'.shown /\ view'.shown[i] = view.shown[i]
          BY <3>4, <4>1, <4>3, <4>6
        <5> QED
          BY <4>1, <5>1 DEF OnScreen
      <4> QED
        BY <4>4, <4>5, <4>6
    <3> QED
      BY <3>1, <3>4, <3>5
  <2> QED
    BY <2>1, <2>2
<1>8. ShownIsOver'
  <2>1. \A p \in OnScreen("assistant") : p \in Asked
    BY ViewFacts, MessageFacts DEF OnScreen, Inv
  <2> QED
    BY <1>1, <1>2, <1>3, <1>5, <1>7, <2>1 DEF HistoryInv, ShownIsOver
<1>9. ASSUME Calm(inst)'
      PROVE  ScreenFollows'
  <2>1. Calm(inst) /\ ScreenFollows /\ Streaming = {q}
    BY <1>1, <1>3, <1>4, <1>9, OneStream DEF HistoryInv
  <2>2. ASSUME NEW p \in Asked, p \in Answered(rows[inst])
        PROVE  \/ p \in OnScreen("assistant")'
               \/ ask'[p].open /\ (ask'[p].pc = "reply" \/ ask'[p].wire = Full)
    BY <1>2, <1>7, <2>1, <2>2 DEF ScreenFollows
  <2> QED
    BY <1>1, <1>6, <1>7, <2>1, <2>2 DEF ScreenFollows
<1> QED
  BY <1>1, <1>3, <1>8, <1>9, ReadStep

\* The end of a stream, good or bad.
LEMMA EndHistory ==
    ASSUME Inv, HistoryInv, NEW q \in Ours, NEW e \in {"end", "error"}, NEW x, Reads(q, e, x)
    PROVE  HistoryInv'
<1>1. /\ Becomes(q, x) /\ ~ x.open /\ x.pc = ask[q].pc /\ x.broken = ask[q].broken
      /\ ask[q].open /\ ask[q].wire = <<e>> /\ x.wire = <<>>
      /\ UNCHANGED <<rows, inst>> /\ view' = Shown(q, e, view)
  BY DEF Reads
<1>2. /\ ask'[q] = x /\ \A p \in Asked : p # q => ask'[p] = ask[p]
      /\ \A p \in Asked : ask'[p].to = ask[p].to /\ ask'[p].among = ask[p].among
  BY <1>1, OthersStay DEF Inv, Ours
<1>3. q \in Asked /\ q \in Streaming /\ inst # 0 /\ ask[q].to = inst
  BY <1>1 DEF Streaming, Ours
<1>4. \A n : Calm(n)' => Calm(n)
  <2>1. \A p \in Asked : ask[p].broken => ask'[p].broken
    BY <1>1, <1>2
  <2> QED
    BY <1>2, <2>1, CalmBefore
<1>5. view'.shown = view.shown
  <2>1. view \in View
    BY ViewFacts DEF Inv
  <2>2. CASE e = "end"
    <3>1. view' = [view EXCEPT !.waiting = FALSE, !.since = FALSE]
      BY <1>1, <2>2 DEF Shown
    <3> QED
      BY <2>1, <3>1 DEF View
  <2>3. CASE e = "error"
    <3>1. view' = [view EXCEPT !.waiting = FALSE, !.since = FALSE, !.error = TRUE]
      BY <1>1, <2>3 DEF Shown
    <3> QED
      BY <2>1, <3>1 DEF View
  <2> QED
    BY <2>2, <2>3
<1>6. \A role : OnScreen(role)' = OnScreen(role)
  BY <1>5 DEF OnScreen
<1>7. ShownIsOver'
  <2>1. \A p \in OnScreen("assistant") : p \in Asked
    BY ViewFacts, MessageFacts DEF OnScreen, Inv
  <2> QED
    BY <1>1, <1>2, <1>6, <2>1 DEF HistoryInv, ShownIsOver
<1>8. ASSUME Calm(inst)'
      PROVE  ScreenFollows'
  <2>1. Calm(inst) /\ ScreenFollows
    BY <1>1, <1>3, <1>4, <1>8 DEF HistoryInv
  <2>2. ask[q].pc # "reply" /\ ask[q].wire # Full
    <3>1. <<e>> # Full /\ <<e>> # <<>>
      BY DEF Full
    <3>2. e = "end" => <<e>> # <<"error">>
      OBVIOUS
    <3>3. CASE e = "end"
      BY <1>1, <1>3, <3>1, <3>2, <3>3, QuestionFacts DEF Inv, Sound
    <3>4. CASE e = "error"
      <4>1. ask[q].pc = "over"
        BY <1>1, <1>3, <2>1, <3>4 DEF HistoryInv, Attended, Calm
      <4> QED
        BY <1>1, <3>1, <4>1
    <3> QED
      BY <3>3, <3>4
  <2>3. ASSUME NEW p \in Asked, p \in Answered(rows[inst])
        PROVE  \/ p \in OnScreen("assistant")
               \/ ask'[p].open /\ (ask'[p].pc = "reply" \/ ask'[p].wire = Full)
    BY <1>2, <2>1, <2>2, <2>3 DEF ScreenFollows
  <2>4. ASSUME NEW p \in Streaming', ask'[p].wire = Rest
        PROVE  p \in Streaming /\ ask[p].wire = Rest
    BY <1>1, <1>2, <2>4 DEF Streaming, Ours
  <2> QED
    BY <1>1, <1>5, <1>6, <2>1, <2>3, <2>4 DEF ScreenFollows
<1> QED
  BY <1>1, <1>3, <1>7, <1>8, ReadStep

\* Whatever is read.
LEMMA ReadHistory ==
    ASSUME Inv, HistoryInv, NEW q \in Asked, Read(q)
    PROVE  HistoryInv'
<1>1. PICK e, x : Reads(q, e, x)
  BY ReadShape DEF Inv
<1>2. e \in {"delta", "done", "end", "error"}
  BY <1>1 DEF Reads
<1> QED
  BY <1>1, <1>2, UnshownHistory, ShownHistory, EndHistory

\* Nothing is asked, answered or stored, and the screen shows the same answers or the
\* Thread has none.
LEMMA IdleHistory ==
    ASSUME Inv, HistoryInv, UNCHANGED <<inst, ask, rows>>,
           \/ view'.shown = view.shown
           \/ Ours = {} /\ OnScreen("assistant")' \subseteq OnScreen("assistant")
    PROVE  HistoryInv'
<1>1. ShownIsOver'
  <2>1. OnScreen("assistant")' \subseteq OnScreen("assistant")
    BY DEF OnScreen
  <2> QED
    BY <2>1 DEF HistoryInv, ShownIsOver
<1>2. InSequence' /\ \A q \in Asked : Attended(ask[q], inst)' /\ Remembers(q)'
  BY DEF HistoryInv, InSequence, Attended, Remembers, Undisturbed
<1>3. \A n \in Mounts : Calm(n)' => ThreadInOrder(n)'
  BY DEF HistoryInv, Calm, ThreadInOrder
<1>4. ASSUME inst # 0, Calm(inst)'
      PROVE  ScreenFollows'
  <2>1. ScreenFollows /\ inst \in Mounts
    BY <1>4 DEF HistoryInv, Calm, Inv, StreamInv, TypeOK
  <2>2. Streaming' = Streaming
    BY DEF Streaming, Ours
  <2>3. CASE view'.shown = view.shown
    BY <2>1, <2>2, <2>3 DEF ScreenFollows, OnScreen
  <2>4. CASE Ours = {}
    <3>1. \A p \in Answered(rows[inst]) : p \in Ours
      BY <1>4, <2>1, AnsweredIsAsked DEF Ours
    <3>2. Streaming = {}
      BY <2>4 DEF Streaming
    <3> QED
      BY <2>2, <2>4, <3>1, <3>2 DEF ScreenFollows
  <2> QED
    BY <2>3, <2>4
<1> QED
  BY <1>1, <1>2, <1>3, <1>4 DEF HistoryInv

\* A question is asked.
LEMMA AskHistory ==
    ASSUME Inv, HistoryInv, NEW q \in Asked, Ask(q)
    PROVE  HistoryInv'
<1> DEFINE a == OnScreen("assistant")
           g == Streaming
           x == [NoQuestion EXCEPT !.to = inst, !.open = TRUE, !.pc = "load",
                                   !.seen = a, !.among = g]
           m == [role |-> "user", q |-> q, id |-> FALSE]
<1>1. /\ inst # 0 /\ ~ view.waiting /\ ask[q].to = 0
      /\ \A p \in 1..(q - 1) : ask[p].to # 0
      /\ ask' = [ask EXCEPT ![q] = x] /\ UNCHANGED <<rows, inst>>
  BY DEF Ask, CanAsk
<1>2. inst \in Mounts /\ ask \in [Asked -> Question]
  BY <1>1 DEF Inv, StreamInv, TypeOK
<1>3. OnScreen("assistant")' = a
  <2>1. m \in Message /\ m.role = "user"
    BY DEF Message
  <2>2. view \in View /\ view.shown \in Seq(Message)
    BY ViewFacts DEF Inv
  <2>3. view'.shown = Append(view.shown, m)
    BY <2>2 DEF Ask, View
  <2> HIDE DEF m
  <2> QED
    BY <2>1, <2>2, <2>3, ScreenGrows
<1>4. g = Streaming /\ a = OnScreen("assistant")
  OBVIOUS
<1> HIDE DEF a, g
<1>5. /\ x.to = inst /\ x.seen = a /\ x.among = g /\ x.open /\ x.pc = "load"
      /\ x.wire = <<>> /\ ~ x.broken
  BY DEF NoQuestion
<1> HIDE DEF x
<1>6. ask'[q] = x /\ \A p \in Asked : p # q => ask'[p] = ask[p]
  BY <1>1, <1>2
<1>7. \A p \in Asked : ask[p].to # 0 => p < q
  <2> SUFFICES ASSUME NEW p \in Asked, ask[p].to # 0
               PROVE  p < q
    OBVIOUS
  <2>1. ~ (q < p)
    BY <1>1 DEF HistoryInv, InSequence
  <2> QED
    BY <1>1, <2>1 DEF Asked
<1>8. \A n \in Mounts : \A p \in Answered(rows[n]) : p \in Asked /\ p # q /\ ask[p].to = n
  BY <1>1, AnsweredIsAsked DEF Mounts
<1>9. \A p \in a : p \in Asked /\ p # q
  <2>1. ask[q].pc = "none"
    BY <1>1, QuestionFacts DEF Inv, Sound
  <2>2. \A p \in a : p \in Asked
    BY <1>4, ViewFacts, MessageFacts DEF OnScreen, Inv
  <2> QED
    BY <1>1, <1>4, <2>1, <2>2 DEF HistoryInv, ShownIsOver
<1>10. ShownIsOver'
  BY <1>1, <1>3, <1>4, <1>6, <1>9 DEF HistoryInv, ShownIsOver
<1>11. InSequence'
  <2>1. \A p, r \in Asked : p < r /\ ask'[r].to # 0 => ask'[p].to # 0
    <3>1. \A p \in Asked : p < q => ask[p].to # 0
      BY <1>1 DEF Asked
    <3> QED
      BY <1>1, <1>5, <1>6, <3>1 DEF HistoryInv, InSequence
  <2>2. ASSUME NEW n \in Mounts, NEW i \in DOMAIN rows[n]
        PROVE  ask'[rows[n][i].q].to = n
    <3>1. rows[n][i].q \in Asked /\ ask[rows[n][i].q].to = n /\ n # 0
      BY AnsweredIsAsked DEF Row, Mounts, HistoryInv, InSequence
    <3> QED
      BY <1>1, <1>6, <3>1
  <2> QED
    BY <1>1, <2>1, <2>2 DEF InSequence
<1>12. \A p \in Asked : Attended(ask[p], inst)'
  <2>1. <<>> # <<"error">>
    OBVIOUS
  <2> QED
    BY <1>1, <1>5, <1>6, <2>1 DEF HistoryInv, Attended
\* The other questions of the thread, when it was calm.
<1>13. \A p \in Asked : (ask[p].to = inst /\ ~ ask[p].broken) =>
          /\ ask[p].open => p \in g
          /\ ~ ask[p].open => ask[p].pc = "over"
  BY <1>1, <1>4 DEF HistoryInv, Attended, Streaming, Ours
<1>14. \A p \in g : ask[p].among = {} => p \in a /\ ask[p].pc = "over"
  <2> SUFFICES ASSUME NEW p \in g, ask[p].among = {}
               PROVE  p \in a /\ ask[p].pc = "over"
    OBVIOUS
  <2>1. p \in OnScreen("assistant") \/ Settled(p)
    BY <1>1, <1>4 DEF Inv, ScreenInv, Alone
  <2>2. p \in a
    <3>1. \A k \in 1..(Len(view.shown) - 1) : k \in DOMAIN view.shown
      BY ViewFacts DEF Inv
    <3> QED
      BY <1>4, <2>1, <3>1 DEF OnScreen, Settled
  <2> QED
    BY <1>1, <1>4, <2>2 DEF HistoryInv, ShownIsOver
<1>15. ASSUME Calm(inst)
       PROVE  /\ \A p \in Asked : ask[p].to = inst => ask[p].pc = "over"
              /\ a = Answered(rows[inst])
  <2>1. ScreenFollows
    BY <1>1, <1>15 DEF HistoryInv
  <2>2. \A p \in Asked : ask[p].to = inst => ask[p].pc = "over"
    BY <1>13, <1>14, <1>15 DEF Calm
  <2>3. a \subseteq Answered(rows[inst])
    BY <1>1, <1>4 DEF Inv, StreamInv, ShownIsStored
  <2>4. \A p \in Answered(rows[inst]) : p \in a
    BY <1>2, <1>4, <1>8, <1>13, <1>14, <1>15, <2>1 DEF ScreenFollows, Calm
  <2> QED
    BY <2>2, <2>3, <2>4
<1>16. ASSUME Calm(inst)'
       PROVE  Calm(inst) /\ g = {}
  <2>1. g = {}
    BY <1>1, <1>5, <1>6, <1>16 DEF Calm
  <2>2. Calm(inst)
    BY <1>1, <1>6, <1>16 DEF Calm
  <2> QED
    BY <2>1, <2>2
<1>17. ASSUME NEW n \in Mounts, Calm(n)'
       PROVE  ThreadInOrder(n)'
  <2>1. CASE n # inst
    <3>1. Calm(n)
      BY <1>1, <1>2, <1>6, <1>17, <2>1 DEF Calm, Mounts
    <3>2. ThreadInOrder(n)
      BY <3>1 DEF HistoryInv
    <3>3. \A p \in Asked : ask'[p].to = n => p # q /\ ask[p].to = n
      BY <1>5, <1>6, <2>1
    <3> QED
      BY <1>1, <1>6, <3>2, <3>3 DEF ThreadInOrder
  <2>2. CASE n = inst
    <3>0. Calm(inst)'
      BY <1>1, <1>17, <2>2 DEF Calm
    <3>1. Calm(inst) /\ g = {} /\ ThreadInOrder(inst)
      BY <1>2, <1>16, <3>0 DEF HistoryInv
    <3>2. \A p \in Asked : ask[p].to = inst => p < q /\ ~ Active(ask[p]) /\ ask[p].pc = "over"
      BY <1>2, <1>7, <1>13, <1>15, <3>1 DEF Active, Calm, Mounts
    <3>3. \A p \in Asked : ask'[p].to = inst => p = q \/ ask[p].to = inst
      BY <1>6
    <3>4. \A p, r \in Asked : ask'[p].to = inst /\ ask'[r].to = inst /\ Active(ask'[p]) => r <= p
      <4> SUFFICES ASSUME NEW p \in Asked, NEW r \in Asked, ask'[p].to = inst, ask'[r].to = inst,
                          Active(ask'[p])
                   PROVE  r <= p
        OBVIOUS
      <4>1. p = q
        BY <1>6, <3>2, <3>3
      <4>2. r = q \/ r < q
        BY <3>2, <3>3
      <4> QED
        BY <4>1, <4>2 DEF Asked
    <3>5. Placed(q, x, rows[inst])
      <4>1. \A i \in DOMAIN rows[inst] : rows[inst][i].q \in Asked /\ ask[rows[inst][i].q].to = inst
        BY <1>2, AnsweredIsAsked DEF Row, HistoryInv, InSequence
      <4> QED
        BY <1>5, <3>2, <4>1 DEF Placed
    <3>6. \A p \in Asked : ask'[p].to = inst => Placed(p, ask'[p], rows[inst])
      <4>1. \A p \in Asked : ask[p].to = inst => Placed(p, ask[p], rows[inst])
        BY <3>1 DEF ThreadInOrder
      <4> QED
        BY <1>6, <3>3, <3>5, <4>1
    <3>7. InOrder(rows[inst])
      BY <3>1 DEF ThreadInOrder
    <3> QED
      BY <1>1, <2>2, <3>4, <3>6, <3>7 DEF ThreadInOrder
  <2> QED
    BY <2>1, <2>2
<1>18. ASSUME Calm(inst)'
       PROVE  ScreenFollows'
  <2>1. Calm(inst) /\ g = {}
    BY <1>16, <1>18
  <2>2. \A p \in Answered(rows[inst]) : p \in a
    BY <1>15, <2>1
  <2>3. ASSUME NEW p \in Streaming', ask'[p].wire = Rest
        PROVE  FALSE
    <3>1. <<>> # Rest
      BY DEF Rest
    <3>2. p # q
      BY <1>5, <1>6, <2>3, <3>1
    <3>3. p \in Asked /\ ask[p].to = inst /\ ask[p].open
      BY <1>1, <1>6, <2>3, <3>2 DEF Streaming, Ours
    <3> QED
      BY <1>13, <2>1, <3>3 DEF Calm
  <2> QED
    BY <1>1, <1>3, <2>2, <2>3 DEF ScreenFollows
<1>19. ASSUME NEW p \in Asked
       PROVE  Remembers(p)'
  <2> SUFFICES ASSUME Undisturbed(p)'
               PROVE  Remembers(p)'
    BY DEF Remembers
  <2>1. CASE p = q
    <3>1. Calm(inst)
      BY <1>1, <1>2, <1>5, <1>6, <2>1 DEF Undisturbed, Calm, Mounts
    <3>2. InOrder(rows[inst])
      BY <1>2, <3>1 DEF HistoryInv, ThreadInOrder
    <3> QED
      BY <1>1, <1>5, <1>6, <1>15, <2>1, <3>1, <3>2 DEF Remembers
  <2>2. CASE p # q
    <3>1. ask'[p] = ask[p]
      BY <1>6, <2>2
    <3>2. CASE ask[p].to = 0
      <4>1. ask[p].pc = "none"
        BY <3>2, QuestionFacts DEF Inv, Sound
      <4> QED
        BY <3>1, <4>1 DEF Remembers
    <3>3. CASE ask[p].to # 0
      <4>1. ask[p].to # inst
        <5>1. p < q
          BY <1>7, <3>3
        <5>2. ask'[q].to = ask'[p].to => q < p
          BY <2>2 DEF Undisturbed
        <5> QED
          BY <1>5, <1>6, <3>1, <5>1, <5>2 DEF Asked
      <4>2. Undisturbed(p)
        BY <1>1, <1>6, <3>1, <3>3 DEF Undisturbed
      <4>3. Remembers(p)
        BY DEF HistoryInv
      <4>4. \A o \in Asked \ {p} : ask'[o].to = ask[p].to => o # q /\ ask'[o] = ask[o]
        BY <1>5, <1>6, <4>1
      <4> QED
        BY <1>1, <3>1, <4>2, <4>3, <4>4 DEF Remembers
    <3> QED
      BY <3>2, <3>3
  <2> QED
    BY <2>1, <2>2
<1> QED
  BY <1>1, <1>10, <1>11, <1>12, <1>17, <1>18, <1>19 DEF HistoryInv

\* Another Thread, or none, and perhaps every stream closed.
LEMMA MoveHistory ==
    ASSUME Inv, Inv', HistoryInv, NEW p, MoveTo(p), UNCHANGED rows,
           \A q \in Asked : /\ ask'[q].to = ask[q].to /\ ask'[q].among = ask[q].among
                            /\ ask'[q].seen = ask[q].seen /\ ask'[q].given = ask[q].given
                            /\ ask'[q].broken = ask[q].broken
                            /\ ask'[q].wire = ask[q].wire \/ ask'[q].wire = <<>>
                            /\ ask'[q].pc = ask[q].pc \/ ask'[q].pc = "over"
                            /\ Active(ask'[q]) => Active(ask[q])
    PROVE  HistoryInv'
<1>1. inst' # 0 => \A q \in Asked : ask'[q].to # inst'
  <2>1. \A q \in Asked : ask[q].to <= made /\ ask[q].to \in Int
    BY QuestionFacts DEF Inv, StreamInv, Mounted, Question, Mounts
  <2>2. inst' = 0 \/ inst' = made + 1
    BY DEF MoveTo
  <2>3. made \in Int
    BY AskAssumption DEF Inv, StreamInv, TypeOK
  <2> QED
    BY <2>1, <2>2, <2>3
<1>2. OnScreen("assistant")' = {} /\ Streaming' = {}
  <2>1. view'.shown = <<>>
    BY DEF MoveTo, Fresh
  <2> QED
    BY <1>1, <2>1 DEF OnScreen, Streaming, Ours
<1>3. /\ \A n : Calm(n)' => Calm(n)
      /\ \A q \in Asked : Undisturbed(q)' => Undisturbed(q)
  BY CalmBefore
<1>4. InSequence'
  <2>1. \A n \in Mounts : \A i \in DOMAIN rows[n] : rows[n][i].q \in Asked
    BY AnsweredIsAsked DEF Row
  <2> QED
    BY <2>1 DEF HistoryInv, InSequence
<1>5. ASSUME NEW q \in Asked
      PROVE  Attended(ask[q], inst)'
  <2>1. <<>> # <<"error">>
    OBVIOUS
  <2> QED
    BY <1>1, <2>1 DEF HistoryInv, Attended
<1>6. ASSUME NEW q \in Asked
      PROVE  Remembers(q)'
  <2> SUFFICES ASSUME Undisturbed(q)'
               PROVE  Remembers(q)'
    BY DEF Remembers
  <2>1. Remembers(q) /\ Undisturbed(q)
    BY <1>3 DEF HistoryInv
  <2> QED
    BY <2>1 DEF Remembers
<1>7. ASSUME NEW n \in Mounts, Calm(n)'
      PROVE  ThreadInOrder(n)'
  <2>1. ThreadInOrder(n)
    BY <1>3, <1>7 DEF HistoryInv
  <2> QED
    BY <2>1 DEF ThreadInOrder, Placed
<1>8. inst' # 0 => ScreenFollows'
  <2> SUFFICES ASSUME inst' # 0
               PROVE  ScreenFollows'
    OBVIOUS
  <2>1. inst' \in Mounts
    BY DEF Inv, StreamInv, TypeOK
  <2>2. Answered(rows[inst']) = {}
    BY <1>1, <2>1, AnsweredIsAsked
  <2> QED
    BY <1>2, <2>2 DEF ScreenFollows
<1> QED
  BY <1>2, <1>4, <1>5, <1>6, <1>7, <1>8 DEF HistoryInv, ShownIsOver

\* Nothing was asked at first.
LEMMA InitHistory == Init => HistoryInv
<1> SUFFICES ASSUME Init PROVE HistoryInv
  OBVIOUS
<1>1. /\ inst = 0 /\ \A q \in Asked : ask[q].to = 0 /\ ask[q].pc = "none" /\ ask[q].wire = <<>>
      /\ \A n \in Mounts : rows[n] = <<>> /\ n # 0
  BY DEF Init, NoQuestion, Mounts
<1>2. InSequence /\ ShownIsOver
  BY <1>1 DEF InSequence, ShownIsOver
<1>3. \A q \in Asked : Attended(ask[q], inst) /\ Remembers(q)
  <2>1. <<>> # <<"error">>
    OBVIOUS
  <2> QED
    BY <1>1, <2>1 DEF Attended, Remembers
<1>4. \A n \in Mounts : ThreadInOrder(n)
  BY <1>1 DEF ThreadInOrder, InOrder
<1> QED
  BY <1>1, <1>2, <1>3, <1>4 DEF HistoryInv

\* Every step keeps it.
LEMMA StepHistory ==
    ASSUME Inv, HistoryInv, [Next]_vars
    PROVE  HistoryInv'
<1>1. CASE OpenPanel \/ ClosePanel \/ Navigate
  <2>1. Inv' /\ UNCHANGED <<ask, rows>> /\ \E p : MoveTo(p)
    BY <1>1, LeaveKeeps DEF OpenPanel, ClosePanel, Navigate
  <2> QED
    BY <2>1, MoveHistory
<1>2. CASE Reload
  <2>1. Inv' /\ MoveTo(place) /\ UNCHANGED rows
    BY <1>2, ReloadKeeps DEF Reload
  <2>2. PICK noticed \in SUBSET {q \in Asked : ask[q].open} :
            ask' = [q \in Asked |->
                      [ask[q] EXCEPT !.open = FALSE, !.wire = <<>>,
                                     !.pc = IF q \in noticed THEN "over" ELSE @]]
    BY <1>2 DEF Reload
  <2>3. ASSUME NEW q \in Asked
        PROVE  /\ ask'[q].to = ask[q].to /\ ask'[q].among = ask[q].among
               /\ ask'[q].seen = ask[q].seen /\ ask'[q].given = ask[q].given
               /\ ask'[q].broken = ask[q].broken /\ ask'[q].wire = <<>> /\ ~ ask'[q].open
               /\ ask'[q].pc = ask[q].pc \/ ask'[q].pc = "over"
    <3>1. ask[q] \in Question
      BY QuestionFacts DEF Inv
    <3>2. ask'[q] = [ask[q] EXCEPT !.open = FALSE, !.wire = <<>>,
                                   !.pc = IF q \in noticed THEN "over" ELSE @]
      BY <2>2
    <3> QED
      BY <3>1, <3>2 DEF Question
  <2>4. \A q \in Asked : Active(ask'[q]) => Active(ask[q])
    BY <2>3 DEF Active
  <2> QED
    BY <2>1, <2>3, <2>4, MoveHistory
<1>3. CASE OpenConversation
  <2>1. UNCHANGED <<inst, ask, rows>> /\ Ours = {}
    BY <1>3 DEF OpenConversation, Inv, ScreenInv, AskedWhenOpen
  <2>2. OnScreen("assistant")' \subseteq OnScreen("assistant")
    <3> DEFINE m == [role |-> "disclosure", q |-> 0, id |-> FALSE]
               s == <<m>>
    <3>1. view \in View
      BY ViewFacts DEF Inv
    <3>2. m.role = "disclosure"
      OBVIOUS
    <3> HIDE DEF m
    <3>3. \A i \in DOMAIN s : s[i] = m
      OBVIOUS
    <3>4. view'.shown = s \/ view'.shown = view.shown
      BY <1>3, <3>1 DEF OpenConversation, View, m
    <3> HIDE DEF s
    <3> QED
      BY <3>2, <3>3, <3>4 DEF OnScreen
  <2> QED
    BY <2>1, <2>2, IdleHistory
<1>4. CASE AskTooEarly
  <2>1. view \in View
    BY ViewFacts DEF Inv
  <2>2. UNCHANGED <<inst, ask, rows>> /\ view'.shown = view.shown
    BY <1>4, <2>1 DEF AskTooEarly, View
  <2> QED
    BY <2>2, IdleHistory
<1>5. ASSUME NEW q \in Asked, Ask(q)
      PROVE  HistoryInv'
  BY <1>5, AskHistory
<1>6. ASSUME NEW q \in Asked, Read(q)
      PROVE  HistoryInv'
  BY <1>6, ReadHistory
<1>7. ASSUME NEW q \in Asked, Cut(q) \/ SendMessage(q)
      PROVE  HistoryInv'
  BY <1>7, CutHistory, HandlerHistory
<1>8. CASE UNCHANGED vars
  <2>1. UNCHANGED <<inst, ask, rows>> /\ view'.shown = view.shown
    BY <1>8 DEF vars
  <2> QED
    BY <2>1, IdleHistory
<1> QED
  BY <1>1, <1>2, <1>3, <1>4, <1>5, <1>6, <1>7, <1>8 DEF Next

\* It holds of every reachable state.
LEMMA AlwaysHistory == Spec => []HistoryInv
<1>1. Inv /\ HistoryInv /\ [Next]_vars => HistoryInv'
  BY StepHistory
<1> QED
  BY InitHistory, AlwaysInv, <1>1, PTL DEF Spec

\* However many exchanges the model is shown, an undisturbed follow-up is answered from the
\* last that the reader had on the screen, each answer with its own question.
THEOREM FollowUpsKnow == Spec => []FollowUpsAreInformed
<1>1. HistoryInv => FollowUpsAreInformed
  BY DEF HistoryInv, Remembers, FollowUpsAreInformed
<1> QED
  BY AlwaysHistory, <1>1, PTL
=============================================================================
