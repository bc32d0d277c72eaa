------------------------- MODULE BookingScreenProofs -------------------------
(***************************************************************************)
(* What is proved of the booking page, for every set of times and lengths, *)
(* every number of meetings, of clicks and of faults:                      *)
(*                                                                         *)
(*   OffersAreFree  a page at rest offers no time that a meeting it lists, *)
(*                  or one the member was told of, has taken for the       *)
(*                  length chosen, unless that was changed while a booking *)
(*                  or a cancellation was on its way                       *)
(*   ListIsWhole    a page at rest lists every meeting the member holds,   *)
(*                  save those landed late or held behind an error         *)
(*                                                                         *)
(* Both are about a page at rest.  The inductive invariant says what every *)
(* action still in the tab's queue will bring: a reading of the times is   *)
(* free of every meeting known when it was made, and nothing the member    *)
(* does meanwhile makes it wrong that the queue does not put right.        *)
(***************************************************************************)
EXTENDS BookingScreen, FiniteSetTheorems, SequenceTheorems, TLAPS

-----------------------------------------------------------------------------
(* The inductive invariant *)

\* A call, without the bound on the ids.
Stub == [kind : {"avail", "all", "book", "cancel"}, len : Lengths, start : {0} \cup Starts,
         id : Nat, effect : BOOLEAN, live : BOOLEAN, step : {"sent", "half", "done"},
         avail : Avail, list : SUBSET Nat, heard : BOOLEAN,
         answer : {"", "ok", "stale", "error"}, clash : SUBSET Nat]

Slot == [id : Nat, lo : Nat, hi : Nat]

\* The ids given out so far.
Known == closed \cup Held

\* The page and the calls without a page are of their types.
PageOK ==
    /\ length \in Lengths /\ avail \in Avail /\ pick \in {0} \cup Starts /\ orphans \subseteq Stub

\* Ids are given out in order.
IdsInOrder == diary \subseteq Slot /\ \E n \in Nat : Known = 1..n

\* The page knows only of meetings that were booked, and lists only the member's.
Remembered == mine \subseteq member /\ member \cup refused \subseteq Known

\* A reading of the times is free of the meetings named, those that landed late aside.
Honest(times, ids) ==
    times.ok => \A t \in times.slots, b \in diary :
                    b.id \in ids \ late => ~ D!Clash(Time(t, times.len), b)

\* What a call has been answered so far is true of the meetings known to the page.
CallOK(c) ==
    /\ c.step = "sent" => c.answer = "" /\ ~ c.avail.ok
    /\ c.step = "half" => c.kind = "all"
    /\ c.kind = "all" => c.live /\ ~ c.effect
    /\ c.answer # "stale" => c.clash = {}
    /\ c.avail.ok => c.avail.len = c.len
    /\ c.list \subseteq member /\ c.clash \subseteq Known
    /\ c.kind \in {"avail", "all"} /\ c.step # "sent" => Honest(c.avail, member \cup refused)
    /\ c.kind = "all" /\ c.step = "done" /\ c.heard => member \cap Held \subseteq c.list \cup late

\* Only the head of the queue has been carried out.
QueueOK ==
    /\ calls \in Seq(Stub)
    /\ \A i \in DOMAIN calls : CallOK(calls[i]) /\ (i > 1 => calls[i].step = "sent")

\* The times are going to be read again, or those shown are free.
Rereads  == \E i \in DOMAIN calls : calls[i].live /\ calls[i].kind \in {"avail", "all"}
TimesInv == Rereads \/ Honest(avail, mine \cup refused)

\* The meetings are going to be listed again, or the list is whole.
Relists == \E i \in DOMAIN calls :
               calls[i].kind = "all" \/ (calls[i].kind = "book" /\ calls[i].answer = "ok")
ListInv == Relists \/ blind \/ member \cap Held \subseteq mine \cup late \cup kept

Inv == PageOK /\ IdsInOrder /\ Remembered /\ QueueOK /\ TimesInv /\ ListInv

-----------------------------------------------------------------------------
(* The scheduler *)

\* The next id is new.
LEMMA NextIdIsNew ==
    ASSUME NEW n \in Nat, Known = 1..n
    PROVE  NextId = n + 1 /\ NextId \notin Known /\ Known \cup {NextId} = 1..(n + 1)
<1>1. Cardinality(1..n) = n
  BY FS_Interval
<1>2. NextId = Cardinality(Known) + 1
  BY DEF NextId, Known
<1>3. NextId = n + 1
  BY <1>1, <1>2
<1> QED
  BY <1>3

\* What a step may do to the meetings: ids stay known, and what is new has a new id.
Moves ==
    /\ IdsInOrder'
    /\ member \subseteq member' /\ late \subseteq late' /\ Known \subseteq Known'
    /\ member' \subseteq member \cup Known'
    /\ \A i \in member' \ member : i \notin Known
    /\ \A b \in diary' : b \in diary \/ b.id \notin Known
    /\ Held' \cap Known \subseteq Held

\* Nothing happens to the meetings.
LEMMA StillMoves ==
    ASSUME IdsInOrder, UNCHANGED <<diary, closed, member, late>>
    PROVE  Moves
BY DEF IdsInOrder, Moves, Known, Held

\* A meeting is booked, by the member or by somebody else.
LEMMA AgreeMoves ==
    ASSUME IdsInOrder, NEW a \in Slot, a.id = NextId, D!Agree(a),
           member' = member \/ member' = member \cup {NextId},
           late' = late \/ late' = late \cup {NextId}
    PROVE  Moves
<1>1. PICK n \in Nat : Known = 1..n
  BY DEF IdsInOrder
<1>2. NextId \notin Known /\ Known \cup {NextId} = 1..(n + 1)
  BY <1>1, NextIdIsNew
<1>3. diary' = diary \cup {a} /\ closed' = closed
  BY DEF D!Agree
<1>4. Held' = Held \cup {NextId} /\ Known' = Known \cup {NextId}
  BY <1>3 DEF Held, Known
<1>5. IdsInOrder'
  BY <1>2, <1>3, <1>4 DEF IdsInOrder
<1> QED
  BY <1>2, <1>3, <1>4, <1>5 DEF Moves

\* A meeting is called off.
LEMMA CallOffMoves ==
    ASSUME IdsInOrder, NEW a \in diary, D!CallOff(a), UNCHANGED <<member, late>>
    PROVE  Moves
<1>1. diary' = diary \ {a} /\ closed' = closed \cup {a.id}
  BY DEF D!CallOff
<1>2. Held' \subseteq Held /\ a.id \in Held /\ Held \subseteq Held' \cup {a.id}
  BY <1>1 DEF Held
<1>3. Known' = Known
  BY <1>1, <1>2 DEF Known
<1>4. IdsInOrder'
  BY <1>1, <1>3 DEF IdsInOrder
<1> QED
  BY <1>1, <1>2, <1>3, <1>4 DEF Moves

\* What a booking asks for is a stretch of time with the next id.
LEMMA AskedTyped ==
    ASSUME IdsInOrder, NEW c \in Stub
    PROVE  Asked(c) \in Slot /\ Asked(c).id = NextId
<1>1. PICK n \in Nat : Known = 1..n
  BY DEF IdsInOrder
<1>2. NextId \in Nat
  BY <1>1, NextIdIsNew
<1>3. c.start \in Nat /\ c.len \in Nat
  <2>1. c.start \in {0} \cup Starts /\ c.len \in Lengths
    BY DEF Stub
  <2>2. Starts \subseteq Nat /\ Lengths \subseteq Nat
    BY BookingAssumption
  <2>3. \A t \in {0} \cup Starts : t \in Nat
    BY <2>2
  <2> QED
    BY <2>1, <2>2, <2>3, Zenon
<1>4. ASSUME NEW i \in Nat, NEW t \in Nat, NEW d \in Nat
      PROVE  [id |-> i, lo |-> t, hi |-> t + d] \in Slot
  BY DEF Slot
<1> QED
  BY <1>2, <1>3, <1>4 DEF Asked

\* A reading stays free of the meetings it knew.
LEMMA HonestStays ==
    ASSUME Moves, NEW times, NEW ids, Honest(times, ids), ids \subseteq Known
    PROVE  Honest(times, ids)'
BY DEF Moves, Honest

\* A reading made now is free of every meeting there is.
LEMMA ReadingIsHonest ==
    ASSUME NEW times, times.slots = Free(times.len), NEW ids
    PROVE  Honest(times, ids)
BY DEF Honest, Free

-----------------------------------------------------------------------------
(* The queue *)

\* A call that was not carried out yet.
IsNew(c, kind) ==
    /\ c \in Stub /\ c.kind = kind /\ c.step = "sent" /\ c.answer = "" /\ c.live
    /\ c.effect => c.kind = "avail"
    /\ c.clash = {} /\ c.list = {} /\ ~ c.avail.ok

\* The button presses and the replies send new calls.
LEMMA NewCalls ==
    ASSUME NEW len \in Lengths
    PROVE  /\ \A kind \in {"avail", "all", "book", "cancel"} : IsNew(NewCall(kind, len), kind)
           /\ IsNew(Effect(len), "avail")
           /\ \A t \in Starts : IsNew([NewCall("book", len) EXCEPT !.start = t], "book")
           /\ \A i \in Ids : IsNew([NewCall("cancel", len) EXCEPT !.id = i], "cancel")
<1>1. NotLoaded \in Avail /\ ~ NotLoaded.ok
  BY BookingAssumption DEF NotLoaded, Avail
<1>2. ASSUME NEW kind \in {"avail", "all", "book", "cancel"}, NEW t \in {0} \cup Starts,
             NEW i \in Nat, NEW effect \in BOOLEAN, effect => kind = "avail", NEW times \in Avail, ~ times.ok
      PROVE  IsNew([kind |-> kind, len |-> len, start |-> t, id |-> i,
                    effect |-> effect, live |-> TRUE, step |-> "sent",
                    avail |-> times, list |-> {}, heard |-> TRUE,
                    answer |-> "", clash |-> {}], kind)
  BY <1>2 DEF IsNew, Stub
<1>3. \A kind \in {"avail", "all", "book", "cancel"} : IsNew(NewCall(kind, len), kind)
  BY <1>1, <1>2 DEF NewCall
<1>4. IsNew(Effect(len), "avail")
  <2>1. ASSUME NEW c, IsNew(c, "avail")
        PROVE  IsNew([c EXCEPT !.effect = TRUE], "avail")
    BY <2>1 DEF IsNew, Stub
  <2> QED
    BY <1>3, <2>1 DEF Effect
<1>5. ASSUME NEW t \in Starts
      PROVE  IsNew([NewCall("book", len) EXCEPT !.start = t], "book")
  <2>1. ASSUME NEW c, IsNew(c, "book")
        PROVE  IsNew([c EXCEPT !.start = t], "book")
    BY <2>1 DEF IsNew, Stub
  <2> QED
    BY <1>3, <2>1
<1>6. ASSUME NEW i \in Ids
      PROVE  IsNew([NewCall("cancel", len) EXCEPT !.id = i], "cancel")
  <2>1. i \in Nat
    BY DEF Ids
  <2>2. ASSUME NEW c, IsNew(c, "cancel")
        PROVE  IsNew([c EXCEPT !.id = i], "cancel")
    BY <2>1, <2>2 DEF IsNew, Stub
  <2> QED
    BY <1>3, <2>2
<1> QED
  BY <1>3, <1>4, <1>5, <1>6

\* A new call has been told nothing that could be wrong.
LEMMA NewIsOK ==
    ASSUME NEW c, NEW kind, IsNew(c, kind)
    PROVE  CallOK(c) /\ CallOK(c)'
BY DEF IsNew, CallOK

\* What a call was told stays true, unless it was told and the member's meetings or
\* what the page knows of them are about to change.
LEMMA CallStays ==
    ASSUME Remembered, Moves, NEW c, CallOK(c),
           c.step = "sent" \/ (member' \subseteq member \cup late' /\ refused' = refused)
    PROVE  CallOK(c)'
<1>1. c.list \subseteq member' /\ c.clash \subseteq Known'
  BY DEF CallOK, Moves
<1>2. CASE c.step = "sent"
  BY <1>1, <1>2 DEF CallOK
<1>3. CASE member' \subseteq member \cup late' /\ refused' = refused
  <2>1. ASSUME Honest(c.avail, member \cup refused)
        PROVE  Honest(c.avail, member \cup refused)'
    BY <1>3, <2>1 DEF Remembered, Moves, Honest
  <2>2. ASSUME member \cap Held \subseteq c.list \cup late
        PROVE  (member \cap Held \subseteq c.list \cup late)'
    BY <1>3, <2>2 DEF Remembered, Moves
  <2> QED
    BY <1>1, <2>1, <2>2 DEF CallOK
<1> QED
  BY <1>2, <1>3

\* The queue holds what its calls were told.
LEMMA QueueBecomes ==
    ASSUME NEW q \in Seq(Stub), calls' = q,
           \A c : \A i \in DOMAIN q : c = q[i] => CallOK(c)' /\ (i > 1 => c.step = "sent")
    PROVE  QueueOK'
BY DEF QueueOK, CallOK, Honest

\* Only the meetings move.
LEMMA QueueStays ==
    ASSUME Remembered, QueueOK, Moves, UNCHANGED <<calls, refused>>,
           member' \subseteq member \cup late'
    PROVE  QueueOK'
<1>1. \A i \in DOMAIN calls : CallOK(calls[i])
  BY DEF QueueOK
<1>2. \A c : CallOK(c) => CallOK(c)'
  BY CallStays
<1> QED
  BY <1>1, <1>2, QueueBecomes DEF QueueOK

\* A button adds a call.
LEMMA QueueGrows ==
    ASSUME Remembered, QueueOK, Moves, UNCHANGED refused, member' \subseteq member \cup late',
           NEW c, NEW kind, IsNew(c, kind), calls' = Append(calls, c)
    PROVE  /\ QueueOK' /\ Len(calls') = Len(calls) + 1 /\ calls'[Len(calls')] = c
           /\ \A i \in DOMAIN calls : i \in DOMAIN calls' /\ calls'[i] = calls[i]
<1> DEFINE q == Append(calls, c)
<1>1. calls \in Seq(Stub) /\ c \in Stub
  BY DEF QueueOK, IsNew
<1>2. /\ q \in Seq(Stub) /\ Len(q) = Len(calls) + 1 /\ q[Len(calls) + 1] = c
      /\ \A i \in DOMAIN calls : i \in DOMAIN q /\ q[i] = calls[i]
      /\ \A i \in DOMAIN q : i \in DOMAIN calls \/ i = Len(calls) + 1
  BY <1>1
<1> HIDE DEF q
<1>3. \A d : \A i \in DOMAIN calls : d = calls[i] => CallOK(d)' /\ (i > 1 => d.step = "sent")
  BY CallStays DEF QueueOK
<1>4. CallOK(c)' /\ c.step = "sent"
  BY NewIsOK DEF IsNew
<1>5. QueueOK'
  BY <1>2, <1>3, <1>4, QueueBecomes DEF q
<1> QED
  BY <1>2, <1>5 DEF q

\* The head of the queue is carried out.
LEMMA QueueAnswers ==
    ASSUME Remembered, QueueOK, Moves, UNCHANGED refused, calls # <<>>,
           NEW c \in Stub, CallOK(c)', calls' = <<c>> \o Tail(calls)
    PROVE  /\ QueueOK' /\ DOMAIN calls' = DOMAIN calls /\ calls'[1] = c
           /\ \A i \in DOMAIN calls : i > 1 => calls'[i] = calls[i]
<1> DEFINE q == <<c>> \o Tail(calls)
<1>1. calls \in Seq(Stub)
  BY DEF QueueOK
<1>2. /\ q \in Seq(Stub) /\ Len(q) = Len(calls) /\ q[1] = c /\ DOMAIN q = DOMAIN calls
      /\ \A i \in DOMAIN calls : i > 1 => q[i] = calls[i]
  BY <1>1
<1> HIDE DEF q
<1>3. \A d : \A i \in DOMAIN calls : i > 1 /\ d = calls[i] => CallOK(d)' /\ d.step = "sent"
  BY CallStays DEF QueueOK
<1>4. \A i \in DOMAIN calls : i = 1 \/ i > 1
  BY <1>1
<1>5. \A d : \A i \in DOMAIN q : d = q[i] => CallOK(d)' /\ (i > 1 => d.step = "sent")
  BY <1>2, <1>3, <1>4
<1>6. QueueOK'
  BY <1>2, <1>5, QueueBecomes DEF q
<1> QED
  BY <1>2, <1>6 DEF q

\* The head of the queue returns; the others were not carried out yet.
LEMMA QueueShrinks ==
    ASSUME Remembered, QueueOK, Moves, calls # <<>>, calls' = Tail(calls)
    PROVE  /\ QueueOK' /\ Len(calls') = Len(calls) - 1
           /\ \A i \in DOMAIN calls : i > 1 => i - 1 \in DOMAIN calls' /\ calls'[i - 1] = calls[i]
<1> DEFINE q == Tail(calls)
<1>1. calls \in Seq(Stub)
  BY DEF QueueOK
<1>2. /\ q \in Seq(Stub) /\ Len(q) = Len(calls) - 1
      /\ \A i \in DOMAIN q : i + 1 \in DOMAIN calls /\ i + 1 > 1 /\ q[i] = calls[i + 1]
      /\ \A i \in DOMAIN calls : i > 1 => i - 1 \in DOMAIN q /\ q[i - 1] = calls[i]
  BY <1>1
<1> HIDE DEF q
<1>3. \A d : \A i \in DOMAIN calls : i > 1 /\ d = calls[i] => CallOK(d)' /\ d.step = "sent"
  BY CallStays DEF QueueOK
<1>4. \A d : \A i \in DOMAIN q : d = q[i] => CallOK(d)' /\ d.step = "sent"
  BY <1>2, <1>3
<1>5. QueueOK'
  BY <1>2, <1>4, QueueBecomes DEF q
<1> QED
  BY <1>2, <1>5 DEF q

\* The head of the queue returns and sends another call.
LEMMA QueueTurns ==
    ASSUME Remembered, QueueOK, Moves, calls # <<>>, NEW c, NEW kind, IsNew(c, kind),
           calls' = Append(Tail(calls), c)
    PROVE  /\ QueueOK' /\ Len(calls') = Len(calls) /\ calls'[Len(calls)] = c
           /\ \A i \in DOMAIN calls : i > 1 => i - 1 \in DOMAIN calls' /\ calls'[i - 1] = calls[i]
<1> DEFINE q == Append(Tail(calls), c)
<1>1. calls \in Seq(Stub) /\ c \in Stub
  BY DEF QueueOK, IsNew
<1>2. /\ q \in Seq(Stub) /\ Len(q) = Len(calls) /\ q[Len(calls)] = c
      /\ \A i \in DOMAIN q : \/ i + 1 \in DOMAIN calls /\ i + 1 > 1 /\ q[i] = calls[i + 1]
                             \/ q[i] = c
      /\ \A i \in DOMAIN calls : i > 1 => i - 1 \in DOMAIN q /\ q[i - 1] = calls[i]
  BY <1>1
<1> HIDE DEF q
<1>3. \A d : \A i \in DOMAIN calls : i > 1 /\ d = calls[i] => CallOK(d)' /\ d.step = "sent"
  BY CallStays DEF QueueOK
<1>4. CallOK(c)' /\ c.step = "sent"
  BY NewIsOK DEF IsNew
<1>5. \A d : \A i \in DOMAIN q : d = q[i] => CallOK(d)' /\ d.step = "sent"
  BY <1>2, <1>3, <1>4
<1>6. QueueOK'
  BY <1>2, <1>5, QueueBecomes DEF q
<1> QED
  BY <1>2, <1>6 DEF q

-----------------------------------------------------------------------------
(* The buttons *)

\* While the screen stays as it is, it remains right, or is going to be put right.
LEMMA ScreenStays ==
    ASSUME Inv, Moves, UNCHANGED <<avail, mine, refused, blind>>, kept \subseteq kept',
           Rereads => Rereads', Relists => Relists',
           Relists' \/ member' \subseteq member \cup late' \cup kept'
    PROVE  IdsInOrder' /\ Remembered' /\ TimesInv' /\ ListInv'
<1>1. IdsInOrder' /\ Remembered'
  BY DEF Inv, Remembered, Moves
<1>2. Honest(avail, mine \cup refused) => Honest(avail, mine \cup refused)'
  BY DEF Inv, Remembered, Moves, Honest
<1>3. TimesInv'
  BY <1>2 DEF Inv, TimesInv
<1>4. ASSUME ~ Relists', member \cap Held \subseteq mine \cup late \cup kept
      PROVE  (member \cap Held \subseteq mine \cup late \cup kept)'
  BY <1>4 DEF Inv, Remembered, Moves
<1>5. ListInv'
  BY <1>4 DEF Inv, ListInv
<1> QED
  BY <1>1, <1>3, <1>5

\* A button that only adds a call.
LEMMA PressKeeps ==
    ASSUME Inv, UNCHANGED <<server, avail, mine, orphans, ghosts>>,
           length' \in Lengths, pick' \in {0} \cup Starts,
           NEW c, NEW kind, IsNew(c, kind), calls' = Append(calls, c)
    PROVE  Inv'
<1>1. Moves
  BY StillMoves DEF Inv, server, ghosts
<1>2. /\ QueueOK' /\ Len(calls') = Len(calls) + 1 /\ calls'[Len(calls')] = c
      /\ \A i \in DOMAIN calls : i \in DOMAIN calls' /\ calls'[i] = calls[i]
  BY <1>1, QueueGrows DEF Inv, server, ghosts
<1>3. (Rereads => Rereads') /\ (Relists => Relists')
  BY <1>2 DEF Rereads, Relists
<1>4. IdsInOrder' /\ Remembered' /\ TimesInv' /\ ListInv'
  BY <1>1, <1>3, ScreenStays DEF server, ghosts
<1>5. PageOK'
  BY DEF Inv, PageOK
<1> QED
  BY <1>2, <1>4, <1>5 DEF Inv

\* A new length cancels the effect of the old one, and sends its own.
LEMMA PickLengthKeeps ==
    ASSUME Inv, NEW d \in Lengths, PickLength(d)
    PROVE  Inv'
<1>1. Moves /\ UNCHANGED <<avail, mine, refused, blind, kept>>
  BY StillMoves DEF Inv, PickLength, server
<1>2. PageOK'
  BY DEF Inv, PageOK, PickLength
<1>3. CASE d = length
  <2>1. UNCHANGED calls
    BY <1>3 DEF PickLength
  <2>2. QueueOK'
    BY <1>1, <2>1, QueueStays DEF Inv, PickLength, server
  <2>3. (Rereads => Rereads') /\ (Relists => Relists')
    BY <2>1 DEF Rereads, Relists
  <2> QED
    BY <1>1, <1>2, <2>2, <2>3, ScreenStays DEF Inv, PickLength, server
<1>4. CASE d # length
  <2> DEFINE m == [i \in DOMAIN calls |->
                      IF calls[i].effect THEN [calls[i] EXCEPT !.live = FALSE] ELSE calls[i]]
             e == Effect(d)
             q == Append(m, e)
  <2>1. calls' = q
    BY <1>4 DEF PickLength
  <2>2. IsNew(e, "avail") /\ e \in Stub
    BY NewCalls DEF IsNew
  <2>3. calls \in Seq(Stub)
    BY DEF Inv, QueueOK
  <2>4. ASSUME NEW i \in DOMAIN calls
        PROVE  /\ m[i] \in Stub /\ CallOK(m[i]) /\ m[i].kind = calls[i].kind
               /\ m[i].answer = calls[i].answer /\ m[i].step = calls[i].step
    <3>1. calls[i] \in Stub /\ CallOK(calls[i])
      BY <2>3 DEF Inv, QueueOK
    <3>2. ASSUME NEW c \in Stub, CallOK(c), c.effect
          PROVE  LET x == [c EXCEPT !.live = FALSE]
                 IN  x \in Stub /\ CallOK(x) /\ x.kind = c.kind /\ x.answer = c.answer
                     /\ x.step = c.step
      <4> DEFINE x == [c EXCEPT !.live = FALSE]
      <4>1. /\ x \in Stub /\ x.kind = c.kind /\ x.answer = c.answer /\ x.step = c.step
            /\ x.clash = c.clash /\ x.list = c.list /\ x.avail = c.avail
            /\ (x.heard <=> c.heard) /\ x.len = c.len
        BY DEF Stub
      <4>2. c.kind # "all"
        BY <3>2 DEF CallOK
      <4> HIDE DEF x
      <4>3. CallOK(x)
        BY <3>2, <4>1, <4>2 DEF CallOK
      <4> QED
        BY <4>1, <4>3 DEF x
    <3> QED
      BY <3>1, <3>2
  <2>5. m \in Seq(Stub) /\ DOMAIN m = DOMAIN calls
    <3>1. DOMAIN calls = 1..Len(calls) /\ Len(calls) \in Nat
      BY <2>3
    <3> QED
      BY <2>4, <3>1, IsASeq
  <2> HIDE DEF m
  <2>6. /\ q \in Seq(Stub) /\ Len(calls) + 1 \in DOMAIN q /\ q[Len(calls) + 1] = e
        /\ \A i \in DOMAIN calls : i \in DOMAIN q /\ q[i] = m[i]
        /\ \A i \in DOMAIN q : i \in DOMAIN calls \/ i = Len(calls) + 1
    BY <2>2, <2>3, <2>5
  <2> HIDE DEF q
  <2>7. \A c : \A i \in DOMAIN calls : c = m[i] => CallOK(c)' /\ (i > 1 => c.step = "sent")
    BY <1>1, <2>4, CallStays DEF Inv, QueueOK, PickLength, server
  <2>8. CallOK(e)' /\ e.step = "sent"
    BY <2>2, NewIsOK DEF IsNew
  <2> HIDE DEF e
  <2>9. \A c : \A i \in DOMAIN q : c = q[i] => CallOK(c)' /\ (i > 1 => c.step = "sent")
    BY <2>6, <2>7, <2>8
  <2>10. QueueOK'
    BY <2>1, <2>6, <2>9, QueueBecomes
  <2>11. Rereads'
    BY <2>1, <2>2, <2>6 DEF Rereads, IsNew
  <2>12. Relists => Relists'
    BY <2>1, <2>4, <2>6 DEF Relists
  <2> QED
    BY <1>1, <1>2, <2>10, <2>11, <2>12, ScreenStays DEF Inv, PickLength, server
<1> QED
  BY <1>3, <1>4

\* A press of a time sends nothing.
LEMMA PickSlotKeeps ==
    ASSUME Inv, NEW t \in Starts, PickSlot(t)
    PROVE  Inv'
<1>1. Moves
  BY StillMoves DEF Inv, PickSlot, server, ghosts
<1>2. PageOK'
  BY DEF Inv, PageOK, PickSlot
<1>3. QueueOK'
  BY <1>1, QueueStays DEF Inv, PickSlot, server, ghosts
<1>4. (Rereads => Rereads') /\ (Relists => Relists')
  BY DEF Rereads, Relists, PickSlot
<1> QED
  BY <1>1, <1>2, <1>3, <1>4, ScreenStays DEF Inv, PickSlot, server, ghosts

\* The buttons that send a booking, a cancellation, or a look at the times.
LEMMA ButtonsKeep ==
    Inv /\ (Confirm \/ BookAnother \/ \E i \in Ids : CancelMine(i)) => Inv'
<1> SUFFICES ASSUME Inv, Confirm \/ BookAnother \/ \E i \in Ids : CancelMine(i)
             PROVE  Inv'
  OBVIOUS
<1>1. length \in Lengths /\ pick \in {0} \cup Starts
  BY DEF Inv, PageOK
<1>2. CASE Confirm
  <2>1. pick \in Starts /\ calls' = Append(calls, [NewCall("book", length) EXCEPT !.start = pick])
        /\ UNCHANGED <<server, page, orphans, ghosts>>
    BY <1>1, <1>2 DEF Confirm
  <2> QED
    BY <1>1, <2>1, NewCalls, PressKeeps DEF page
<1>3. CASE BookAnother
  <2>1. calls' = Append(calls, NewCall("avail", length))
        /\ UNCHANGED <<server, length, avail, mine, pick, orphans, ghosts>>
    BY <1>3 DEF BookAnother
  <2> QED
    BY <1>1, <2>1, NewCalls, PressKeeps
<1>4. CASE \E i \in Ids : CancelMine(i)
  <2>1. PICK i \in Ids : CancelMine(i)
    BY <1>4
  <2>2. calls' = Append(calls, [NewCall("cancel", length) EXCEPT !.id = i])
        /\ UNCHANGED <<server, page, orphans, ghosts>>
    BY <2>1 DEF CancelMine
  <2> QED
    BY <1>1, <2>2, NewCalls, PressKeeps DEF page
<1> QED
  BY <1>2, <1>3, <1>4

-----------------------------------------------------------------------------
(* The server actions *)

\* The head of the queue, and what is known of it.
LEMMA HeadFacts ==
    ASSUME Inv, calls # <<>>
    PROVE  /\ Head(calls) = calls[1] /\ 1 \in DOMAIN calls
           /\ Head(calls) \in Stub /\ CallOK(Head(calls))
           /\ \A i \in DOMAIN calls : i = 1 \/ i > 1
<1>1. calls \in Seq(Stub)
  BY DEF Inv, QueueOK
<1>2. Head(calls) = calls[1] /\ 1 \in DOMAIN calls /\ \A i \in DOMAIN calls : i = 1 \/ i > 1
  BY <1>1
<1> QED
  BY <1>1, <1>2 DEF Inv, QueueOK

\* An action of the head of the queue: the meetings move, the page stays.
LEMMA ActionKeeps ==
    ASSUME Inv, Moves, UNCHANGED <<page, orphans, refused, blind>>, kept \subseteq kept', calls # <<>>,
           NEW c \in Stub, CallOK(c)', calls' = <<c>> \o Tail(calls),
           c.kind = Head(calls).kind, c.live <=> Head(calls).live,
           Head(calls).kind = "all" \/ Head(calls).answer = "",
           member' \subseteq member \cup kept' \/ (c.kind = "book" /\ c.answer = "ok")
    PROVE  Inv'
<1>1. /\ QueueOK' /\ DOMAIN calls' = DOMAIN calls /\ calls'[1] = c
      /\ \A i \in DOMAIN calls : i > 1 => calls'[i] = calls[i]
  BY QueueAnswers DEF Inv
<1>2. Head(calls) = calls[1] /\ 1 \in DOMAIN calls /\ \A i \in DOMAIN calls : i = 1 \/ i > 1
  BY HeadFacts
<1>3. Rereads => Rereads'
  BY <1>1, <1>2 DEF Rereads
<1>4. Relists => Relists'
  <2> SUFFICES ASSUME NEW i \in DOMAIN calls,
                      calls[i].kind = "all" \/ (calls[i].kind = "book" /\ calls[i].answer = "ok")
               PROVE  Relists'
    BY DEF Relists
  <2>1. CASE i = 1
    BY <1>1, <1>2, <2>1 DEF Relists
  <2>2. CASE i > 1
    BY <1>1, <2>2 DEF Relists
  <2> QED
    BY <1>2, <2>1, <2>2
<1>5. member' \subseteq member \cup kept' \/ Relists'
  BY <1>1, <1>2 DEF Relists
<1>6. IdsInOrder' /\ Remembered' /\ TimesInv' /\ ListInv'
  BY <1>3, <1>4, <1>5, ScreenStays DEF page
<1>7. PageOK'
  BY DEF Inv, PageOK, page
<1> QED
  BY <1>1, <1>6, <1>7 DEF Inv

\* The times are read as they are, for the length of the call; or not at all.
LEMMA GetAvailabilityKeeps == Inv /\ GetAvailability => Inv'
<1> SUFFICES ASSUME Inv, GetAvailability
             PROVE  Inv'
  OBVIOUS
<1> DEFINE c == Head(calls)
           next == IF c.kind = "all" THEN "half" ELSE "done"
           free == [ok |-> TRUE, len |-> c.len, slots |-> Free(c.len)]
<1>1. /\ calls # <<>> /\ c.step = "sent" /\ c.kind \in {"avail", "all"}
      /\ UNCHANGED <<server, page, orphans, ghosts>>
  BY DEF GetAvailability
<1>2. c \in Stub /\ CallOK(c) /\ c.answer = ""
  BY <1>1, HeadFacts DEF CallOK
<1>3. Moves
  BY <1>1, StillMoves DEF Inv, server, ghosts
<1>4. free \in Avail /\ c.avail \in Avail /\ free.slots = Free(free.len)
  BY <1>2 DEF Avail, Free, Stub
<1>5. PICK times \in Avail :
        /\ calls' = <<[c EXCEPT !.step = next, !.avail = times]>> \o Tail(calls)
        /\ times.ok => times.slots = Free(times.len) /\ times.len = c.len
  <2>1. CASE calls' = <<[c EXCEPT !.step = next, !.avail = free]>> \o Tail(calls)
    BY <1>4, <2>1
  <2>2. CASE calls' = <<[c EXCEPT !.step = next]>> \o Tail(calls)
    <3>1. [c EXCEPT !.step = next] = [c EXCEPT !.step = next, !.avail = c.avail]
      BY <1>2 DEF Stub
    <3>2. ~ c.avail.ok
      BY <1>1, <1>2 DEF CallOK
    <3> QED
      BY <1>4, <2>2, <3>1, <3>2
  <2> QED
    BY <2>1, <2>2 DEF GetAvailability, Answered
<1> DEFINE x == [c EXCEPT !.step = next, !.avail = times]
<1>6. /\ x \in Stub /\ x.kind = c.kind /\ (x.live <=> c.live) /\ (x.effect <=> c.effect)
      /\ x.answer = "" /\ x.clash = c.clash /\ x.list = c.list /\ x.avail = times
      /\ x.step = next /\ x.len = c.len
  BY <1>2 DEF Stub
<1> HIDE DEF x
<1>7. Honest(times, member \cup refused)
  BY <1>5, ReadingIsHonest DEF Honest
<1>8. CallOK(x)
  BY <1>1, <1>2, <1>5, <1>6, <1>7 DEF CallOK
<1>9. \A y : y = x => CallOK(y)'
  BY <1>1, <1>3, <1>8, CallStays DEF Inv, server, ghosts
<1>10. calls' = <<x>> \o Tail(calls)
  BY <1>5 DEF x
<1> QED
  BY <1>1, <1>2, <1>3, <1>6, <1>9, <1>10, ActionKeeps DEF server, ghosts

\* The meetings are listed as they are, or the listing is known to have failed.
LEMMA ListMyMeetingsKeeps == Inv /\ ListMyMeetings => Inv'
<1> SUFFICES ASSUME Inv, ListMyMeetings
             PROVE  Inv'
  OBVIOUS
<1> DEFINE c == Head(calls)
           list == member \cap Held
<1>1. /\ calls # <<>> /\ c.step = "half"
      /\ UNCHANGED <<server, page, orphans, ghosts>>
  BY DEF ListMyMeetings
<1>2. c \in Stub /\ CallOK(c) /\ c.kind = "all"
  BY <1>1, HeadFacts DEF CallOK
<1>3. Moves
  BY <1>1, StillMoves DEF Inv, server, ghosts
<1>4. list \in SUBSET Nat /\ list \subseteq member
  <2>1. PICK n \in Nat : Known = 1..n
    BY DEF Inv, IdsInOrder
  <2> QED
    BY <2>1 DEF Known
<1>5. PICK l \in SUBSET Nat, h \in BOOLEAN :
        /\ calls' = <<[c EXCEPT !.step = "done", !.list = l, !.heard = h]>> \o Tail(calls)
        /\ l \subseteq member /\ (h => l = list)
  <2>1. CASE calls' = <<[c EXCEPT !.step = "done", !.list = list]>> \o Tail(calls)
    <3>1. [c EXCEPT !.step = "done", !.list = list]
            = [c EXCEPT !.step = "done", !.list = list, !.heard = c.heard]
      BY <1>2, <1>4 DEF Stub
    <3>2. c.heard \in BOOLEAN
      BY <1>2 DEF Stub
    <3> QED
      BY <1>4, <2>1, <3>1, <3>2
  <2>2. CASE calls' = <<[c EXCEPT !.step = "done", !.heard = FALSE]>> \o Tail(calls)
    <3>1. [c EXCEPT !.step = "done", !.heard = FALSE]
            = [c EXCEPT !.step = "done", !.list = c.list, !.heard = FALSE]
      BY <1>2 DEF Stub
    <3>2. c.list \in SUBSET Nat /\ c.list \subseteq member
      BY <1>2 DEF Stub, CallOK
    <3> QED
      BY <2>2, <3>1, <3>2
  <2> QED
    BY <2>1, <2>2 DEF ListMyMeetings, Answered
<1> DEFINE x == [c EXCEPT !.step = "done", !.list = l, !.heard = h]
<1>6. /\ x \in Stub /\ x.kind = c.kind /\ (x.live <=> c.live) /\ (x.effect <=> c.effect)
      /\ x.answer = c.answer /\ x.clash = c.clash /\ x.list = l /\ x.avail = c.avail
      /\ x.step = "done" /\ (x.heard <=> h) /\ x.len = c.len
  BY <1>2 DEF Stub
<1> HIDE DEF x
<1>8. CallOK(x)
  BY <1>1, <1>2, <1>5, <1>6 DEF CallOK
<1>9. \A y : y = x => CallOK(y)'
  BY <1>1, <1>3, <1>8, CallStays DEF Inv, server, ghosts
<1>10. calls' = <<x>> \o Tail(calls)
  BY <1>5 DEF x
<1> QED
  BY <1>1, <1>2, <1>3, <1>6, <1>9, <1>10, ActionKeeps DEF server, ghosts

\* What a booking that lost its time is told of was there.
LEMMA ClashIsKnown ==
    ASSUME NEW c
    PROVE  {b.id : b \in {a \in diary : D!Clash(Asked(c), a)}} \subseteq Known
BY DEF Known, Held

\* The head is carried out and answered with an answer of its own.
LEMMA AnsweredKeeps ==
    ASSUME Inv, Moves, UNCHANGED <<page, orphans, refused, blind>>, kept \subseteq kept', calls # <<>>,
           Head(calls).step = "sent", Head(calls).kind \in {"book", "cancel"},
           NEW a \in {"ok", "stale", "error"}, NEW clash \in SUBSET Known,
           a # "stale" => clash = {},
           calls' = <<[Head(calls) EXCEPT !.step = "done", !.answer = a, !.clash = clash]>>
                        \o Tail(calls),
           member' \subseteq member \cup kept' \/ (Head(calls).kind = "book" /\ a = "ok")
    PROVE  Inv'
<1> DEFINE c == Head(calls)
           x == [c EXCEPT !.step = "done", !.answer = a, !.clash = clash]
<1>1. c \in Stub /\ CallOK(c) /\ c.answer = "" /\ c.clash = {} /\ ~ c.avail.ok
  BY HeadFacts DEF CallOK
<1>2. clash \in SUBSET Nat
  <2>1. PICK n \in Nat : Known = 1..n
    BY DEF Inv, IdsInOrder
  <2> QED
    BY <2>1
<1>3. /\ x \in Stub /\ x.kind = c.kind /\ (x.live <=> c.live)
      /\ x.answer = a /\ x.clash = clash /\ x.list = c.list /\ x.step = "done"
      /\ x.avail = c.avail
  BY <1>1, <1>2 DEF Stub
<1> HIDE DEF x
<1>4. clash \subseteq Known' /\ c.list \subseteq member'
  BY <1>1 DEF Moves, CallOK
<1>5. \A y : y = x => CallOK(y)'
  <2> SUFFICES ASSUME NEW y, y = x
               PROVE  CallOK(y)'
    OBVIOUS
  <2>1. /\ y.kind \in {"book", "cancel"} /\ y.step = "done" /\ y.list \subseteq member'
        /\ y.clash \subseteq Known' /\ (y.answer # "stale" => y.clash = {}) /\ ~ y.avail.ok
    BY <1>1, <1>3, <1>4
  <2> QED
    BY <2>1 DEF CallOK
<1>6. calls' = <<x>> \o Tail(calls)
  BY DEF x
<1> QED
  BY <1>1, <1>3, <1>5, <1>6, ActionKeeps

\* An answer that names no meeting is one that names none of them.
LEMMA NoClash ==
    ASSUME Inv, calls # <<>>, Head(calls).step = "sent", Head(calls).kind \in {"book", "cancel"},
           NEW a \in {"ok", "stale", "error"}
    PROVE  [Head(calls) EXCEPT !.step = "done", !.answer = a]
             = [Head(calls) EXCEPT !.step = "done", !.answer = a, !.clash = {}]
<1>1. Head(calls) \in Stub /\ Head(calls).clash = {}
  BY HeadFacts DEF CallOK
<1> QED
  BY <1>1 DEF Stub

\* A booking that is agreed is the member's from then on, and both lists are going to
\* be read again; one that lost its time is told of the meetings in its way.
LEMMA BookMeetingKeeps == Inv /\ BookMeeting => Inv'
<1> SUFFICES ASSUME Inv, BookMeeting
             PROVE  Inv'
  OBVIOUS
<1> DEFINE c == Head(calls)
           in == {b.id : b \in {a \in diary : D!Clash(Asked(c), a)}}
<1>1. /\ calls # <<>> /\ c.step = "sent" /\ c.kind = "book"
      /\ UNCHANGED <<page, orphans, refused, blind, late>>
  BY DEF BookMeeting
<1>2. c \in Stub
  BY <1>1, HeadFacts
<1>b. Booked(c) => Moves
  BY <1>1, <1>2, AskedTyped, AgreeMoves DEF Inv, Booked
<1>s. UNCHANGED server => Moves
  BY <1>1, StillMoves DEF Inv, server
<1>0. {} \in SUBSET Known
  OBVIOUS
<1>3. CASE /\ Booked(c) /\ UNCHANGED kept
           /\ calls' = <<[c EXCEPT !.step = "done", !.answer = "ok"]>> \o Tail(calls)
  <2>1. calls' = <<[c EXCEPT !.step = "done", !.answer = "ok", !.clash = {}]>> \o Tail(calls)
    BY <1>1, <1>3, NoClash
  <2> QED
    BY <1>0, <1>1, <1>b, <1>3, <2>1, AnsweredKeeps
<1>4. CASE /\ UNCHANGED <<server, kept>>
           /\ calls' = <<[c EXCEPT !.step = "done", !.answer = "stale", !.clash = in]>> \o Tail(calls)
  <2>1. in \in SUBSET Known
    BY ClashIsKnown
  <2> HIDE DEF in
  <2> QED
    BY <1>1, <1>s, <1>4, <2>1, AnsweredKeeps DEF server
<1>5. CASE /\ UNCHANGED server \/ Booked(c)
           /\ kept' = (IF Booked(c) THEN kept \cup {NextId} ELSE kept) \/ UNCHANGED <<server, kept>>
           /\ calls' = <<[c EXCEPT !.step = "done", !.answer = "error"]>> \o Tail(calls)
  <2>1. calls' = <<[c EXCEPT !.step = "done", !.answer = "error", !.clash = {}]>> \o Tail(calls)
    BY <1>1, <1>5, NoClash
  <2>2. kept \subseteq kept' /\ member' \subseteq member \cup kept'
    BY <1>5 DEF Booked, server
  <2> QED
    BY <1>0, <1>1, <1>b, <1>s, <1>5, <2>1, <2>2, AnsweredKeeps
<1> QED
  BY <1>3, <1>4, <1>5 DEF BookMeeting, Taken, Answered

\* A cancellation takes a meeting off the diary, or finds none.
LEMMA CancelMeetingKeeps == Inv /\ CancelMeeting => Inv'
<1> SUFFICES ASSUME Inv, CancelMeeting
             PROVE  Inv'
  OBVIOUS
<1> DEFINE c == Head(calls)
<1>1. /\ calls # <<>> /\ c.step = "sent" /\ c.kind = "cancel"
      /\ UNCHANGED <<member, page, orphans, ghosts>>
  BY DEF CancelMeeting
<1>2. PICK said \in {"ok", "error"} :
        calls' = <<[c EXCEPT !.step = "done", !.answer = said]>> \o Tail(calls)
  BY DEF CancelMeeting, Answered
<1>3. Moves
  <2>1. CASE \E a \in diary : D!CallOff(a)
    BY <1>1, <2>1, CallOffMoves DEF Inv, ghosts
  <2>2. CASE UNCHANGED <<diary, closed>>
    BY <1>1, <2>2, StillMoves DEF Inv, ghosts
  <2> QED
    BY <2>1, <2>2 DEF CancelMeeting
<1>4. calls' = <<[c EXCEPT !.step = "done", !.answer = said, !.clash = {}]>> \o Tail(calls)
  BY <1>1, <1>2, NoClash
<1>5. {} \in SUBSET Known
  OBVIOUS
<1> QED
  BY <1>1, <1>3, <1>4, <1>5, AnsweredKeeps DEF ghosts

-----------------------------------------------------------------------------
(* The replies *)

\* The times that come back are free of the meetings listed and refused, the member's
\* included.
LEMMA AvailabilityReplyKeeps == Inv /\ AvailabilityReply => Inv'
<1> SUFFICES ASSUME Inv, AvailabilityReply
             PROVE  Inv'
  OBVIOUS
<1> DEFINE c == Head(calls)
<1>1. /\ calls # <<>> /\ c.step = "done" /\ c.kind = "avail" /\ calls' = Tail(calls)
      /\ UNCHANGED <<server, length, mine, pick, result, orphans, ghosts>>
      /\ avail' = IF c.live THEN c.avail ELSE avail
  BY DEF AvailabilityReply, Reply
<1>2. /\ c \in Stub /\ CallOK(c) /\ c = calls[1]
      /\ \A i \in DOMAIN calls : i = 1 \/ i > 1
  BY <1>1, HeadFacts
<1>3. Moves
  BY <1>1, StillMoves DEF Inv, server, ghosts
<1>4. /\ QueueOK' /\ \A i \in DOMAIN calls : i > 1 => i - 1 \in DOMAIN calls'
                                                      /\ calls'[i - 1] = calls[i]
  BY <1>1, <1>3, QueueShrinks DEF Inv
<1>5. PageOK'
  <2>1. c.avail \in Avail
    BY <1>2 DEF Stub
  <2> QED
    BY <1>1, <2>1 DEF Inv, PageOK
<1>6. IdsInOrder' /\ Remembered'
  BY <1>1, <1>3 DEF Moves, Inv, Remembered, server, ghosts
<1>7. TimesInv'
  <2>1. CASE c.live
    BY <1>1, <1>2, <2>1 DEF CallOK, Honest, TimesInv, Inv, Remembered, server, ghosts
  <2>2. CASE ~ c.live
    <3>1. Rereads => Rereads'
      BY <1>2, <1>4, <2>2 DEF Rereads
    <3>2. Honest(avail, mine \cup refused) => Honest(avail, mine \cup refused)'
      BY <1>1, <2>2 DEF Honest, server, ghosts
    <3> QED
      BY <3>1, <3>2 DEF Inv, TimesInv
  <2> QED
    BY <2>1, <2>2
<1>8. ListInv'
  <2>1. Relists => Relists'
    BY <1>1, <1>2, <1>4 DEF Relists
  <2> QED
    BY <1>1, <2>1 DEF Inv, ListInv, Held, server, ghosts
<1> QED
  BY <1>4, <1>5, <1>6, <1>7, <1>8 DEF Inv

\* Both lists move together: the times were free of everything the list holds.
LEMMA AllReplyKeeps == Inv /\ AllReply => Inv'
<1> SUFFICES ASSUME Inv, AllReply
             PROVE  Inv'
  OBVIOUS
<1> DEFINE c == Head(calls)
<1>1. /\ calls # <<>> /\ c.step = "done" /\ c.kind = "all" /\ calls' = Tail(calls)
      /\ UNCHANGED <<server, length, pick, result, orphans, refused, late>>
      /\ avail' = (IF c.live THEN c.avail ELSE avail) /\ mine' = c.list /\ blind' = ~ c.heard
  BY DEF AllReply, Reply
<1>2. /\ c \in Stub /\ CallOK(c) /\ c = calls[1] /\ c.live /\ avail' = c.avail
      /\ c.list \subseteq member
  BY <1>1, HeadFacts DEF CallOK
<1>3. Moves
  BY <1>1, StillMoves DEF Inv, server
<1>4. QueueOK'
  BY <1>1, <1>3, QueueShrinks DEF Inv
<1>5. PageOK'
  <2>1. c.avail \in Avail
    BY <1>2 DEF Stub
  <2> QED
    BY <1>1, <1>2, <2>1 DEF Inv, PageOK
<1>6. IdsInOrder' /\ Remembered'
  BY <1>1, <1>2, <1>3 DEF Moves, Inv, Remembered, server
<1>7. TimesInv'
  BY <1>1, <1>2 DEF CallOK, Honest, TimesInv, server
<1>8. ListInv'
  BY <1>1, <1>2 DEF CallOK, ListInv, Held, server
<1> QED
  BY <1>4, <1>5, <1>6, <1>7, <1>8 DEF Inv

\* A reply that sends another call, with the lists as they were.
LEMMA TurnKeeps ==
    ASSUME Inv, UNCHANGED <<server, length, avail, mine, orphans, blind, late, kept>>, calls # <<>>,
           pick' \in {0} \cup Starts, refused' \subseteq Known,
           NEW c, NEW kind \in {"avail", "all"}, IsNew(c, kind),
           calls' = Append(Tail(calls), c),
           kind = "all" \/ (Head(calls).kind = "book" /\ Head(calls).answer # "ok")
    PROVE  Inv'
<1>1. Moves
  BY StillMoves DEF Inv, server
<1>2. /\ QueueOK' /\ Len(calls') = Len(calls) /\ calls'[Len(calls)] = c
      /\ \A i \in DOMAIN calls : i > 1 => i - 1 \in DOMAIN calls' /\ calls'[i - 1] = calls[i]
  BY <1>1, QueueTurns DEF Inv
<1>3. Len(calls) \in DOMAIN calls'
  <2>1. calls \in Seq(Stub) /\ calls' \in Seq(Stub)
    BY <1>2 DEF Inv, QueueOK
  <2>2. DOMAIN calls' = 1..Len(calls') /\ Len(calls) \in Nat /\ Len(calls) >= 1
    BY <2>1
  <2> QED
    BY <1>2, <2>2
<1>4. Rereads'
  BY <1>2, <1>3 DEF Rereads, IsNew
<1>5. Relists => Relists'
  <2>1. CASE kind = "all"
    BY <1>2, <1>3, <2>1 DEF Relists, IsNew
  <2>2. CASE Head(calls).kind = "book" /\ Head(calls).answer # "ok"
    BY <1>2, <2>2, HeadFacts DEF Relists
  <2> QED
    BY <2>1, <2>2
<1>6. TimesInv' /\ ListInv'
  BY <1>4, <1>5 DEF TimesInv, ListInv, Inv, Held, server
<1>7. IdsInOrder' /\ Remembered'
  BY <1>1 DEF Moves, Inv, Remembered, server
<1>8. PageOK'
  BY DEF Inv, PageOK
<1> QED
  BY <1>2, <1>6, <1>7, <1>8 DEF Inv

\* A booking that came through is followed by a look at both lists, one that lost its
\* time by a look at the times; one that failed leaves them as they are.
LEMMA BookReplyKeeps == Inv /\ BookReply => Inv'
<1> SUFFICES ASSUME Inv, BookReply
             PROVE  Inv'
  OBVIOUS
<1> DEFINE c == Head(calls)
<1>1. /\ calls # <<>> /\ c.step = "done" /\ c.kind = "book"
      /\ UNCHANGED <<server, length, avail, mine, orphans, blind, late, kept>>
      /\ refused' = refused \cup c.clash
      /\ pick' = IF c.answer \in {"ok", "stale"} THEN 0 ELSE pick
  BY DEF BookReply, Reply
<1>2. /\ c \in Stub /\ CallOK(c) /\ c = calls[1] /\ c.len \in Lengths
      /\ \A i \in DOMAIN calls : i = 1 \/ i > 1
  <2>1. c \in Stub /\ CallOK(c) /\ c = calls[1] /\ \A i \in DOMAIN calls : i = 1 \/ i > 1
    BY <1>1, HeadFacts
  <2> QED
    BY <2>1 DEF Stub
<1>3. refused' \subseteq Known /\ pick' \in {0} \cup Starts
  BY <1>1, <1>2 DEF CallOK, Inv, Remembered, PageOK
<1>4. CASE c.answer = "ok"
  <2>1. calls' = Append(Tail(calls), NewCall("all", c.len))
    BY <1>4 DEF BookReply, Then, RefreshAll
  <2>2. IsNew(NewCall("all", c.len), "all")
    BY <1>2, NewCalls
  <2> QED
    BY <1>1, <1>3, <2>1, <2>2, TurnKeeps
<1>5. CASE c.answer = "stale"
  <2>1. calls' = Append(Tail(calls), NewCall("avail", c.len))
    BY <1>5 DEF BookReply, Then
  <2>2. IsNew(NewCall("avail", c.len), "avail")
    BY <1>2, NewCalls
  <2> QED
    BY <1>1, <1>3, <1>5, <2>1, <2>2, TurnKeeps
<1>6. CASE c.answer \notin {"ok", "stale"}
  <2>1. calls' = Tail(calls) /\ refused' = refused
    BY <1>1, <1>2, <1>6 DEF BookReply, CallOK
  <2>2. Moves
    BY <1>1, StillMoves DEF Inv, server
  <2>3. /\ QueueOK' /\ \A i \in DOMAIN calls : i > 1 => i - 1 \in DOMAIN calls'
                                                        /\ calls'[i - 1] = calls[i]
    BY <1>1, <2>1, <2>2, QueueShrinks DEF Inv
  <2>4. (Rereads => Rereads') /\ (Relists => Relists')
    BY <1>1, <1>2, <1>6, <2>3 DEF Rereads, Relists
  <2>5. PageOK'
    BY <1>1, <1>3 DEF Inv, PageOK
  <2> QED
    BY <1>1, <2>1, <2>2, <2>3, <2>4, <2>5, ScreenStays DEF Inv, server
<1> QED
  BY <1>4, <1>5, <1>6

\* A cancellation is followed by a look at both lists.
LEMMA CancelReplyKeeps == Inv /\ CancelReply => Inv'
<1> SUFFICES ASSUME Inv, CancelReply
             PROVE  Inv'
  OBVIOUS
<1> DEFINE c == Head(calls)
<1>1. /\ calls # <<>> /\ UNCHANGED <<server, page, orphans, ghosts>>
      /\ calls' = Append(Tail(calls), NewCall("all", c.len))
  BY DEF CancelReply, Reply, Then, RefreshAll
<1>2. c \in Stub
  BY <1>1, HeadFacts
<1>3. c.len \in Lengths
  BY <1>2 DEF Stub
<1>4. IsNew(NewCall("all", c.len), "all")
  BY <1>3, NewCalls
<1>5. refused' \subseteq Known /\ pick' \in {0} \cup Starts
  BY <1>1 DEF Inv, Remembered, PageOK, page, ghosts
<1> QED
  BY <1>1, <1>4, <1>5, TurnKeeps DEF page, ghosts

\* A page that is loaded again starts with the times to be read and the list as the
\* server renders it.
LEMMA PageLostKeeps == Inv /\ PageLost => Inv'
<1> SUFFICES ASSUME Inv, PageLost
             PROVE  Inv'
  OBVIOUS
<1> DEFINE e == Effect(Default)
           q == <<e>>
<1>1. /\ length' = Default /\ avail' = NotLoaded /\ pick' = 0 /\ calls' = q /\ refused' = {}
      /\ UNCHANGED <<server, late>> /\ calls # <<>>
      /\ (mine' = member \cap Held /\ blind' = FALSE) \/ (mine' = {} /\ blind' = TRUE)
  BY DEF PageLost, Load
<1>2. Moves
  BY <1>1, StillMoves DEF Inv, server
<1>3. Default \in Lengths /\ IsNew(e, "avail") /\ e \in Stub
  BY NewCalls, BookingAssumption DEF IsNew
<1>4. PageOK'
  <2>1. NotLoaded \in Avail
    BY BookingAssumption DEF NotLoaded, Avail
  <2>2. Head(calls) \in Stub
    BY <1>1, HeadFacts
  <2>3. orphans' \subseteq Stub
    BY <2>2 DEF PageLost, Inv, PageOK
  <2> QED
    BY <1>1, <1>3, <2>1, <2>3 DEF PageOK
<1>5. CallOK(e)' /\ e.step = "sent"
  BY <1>3, NewIsOK DEF IsNew
<1> HIDE DEF e
<1>6. q \in Seq(Stub) /\ q[1] = e /\ DOMAIN q = {1}
  BY <1>3
<1> HIDE DEF q
<1>7. \A c : \A i \in DOMAIN q : c = q[i] => CallOK(c)' /\ (i > 1 => c.step = "sent")
  BY <1>5, <1>6
<1>8. QueueOK'
  BY <1>1, <1>6, <1>7, QueueBecomes
<1>9. TimesInv'
  BY <1>1, <1>3, <1>6 DEF TimesInv, Rereads, IsNew
<1>10. ListInv'
  BY <1>1 DEF ListInv, Held, server
<1>11. IdsInOrder' /\ Remembered'
  BY <1>1, <1>2 DEF Moves, Inv, Remembered, server
<1> QED
  BY <1>4, <1>8, <1>9, <1>10, <1>11 DEF Inv

-----------------------------------------------------------------------------
(* The meetings, behind the page's back *)

\* What the page does not see leaves it right: new meetings are not on its list, and a
\* booking that lands after its page was gone is known as such.
LEMMA BehindKeeps ==
    ASSUME Inv, Moves, UNCHANGED <<page, calls, refused, blind, kept>>, orphans' \subseteq orphans,
           member' \subseteq member \cup late'
    PROVE  Inv'
<1>1. QueueOK'
  BY QueueStays DEF Inv
<1>2. (Rereads => Rereads') /\ (Relists => Relists')
  BY DEF Rereads, Relists
<1>3. PageOK'
  BY DEF Inv, PageOK, page
<1> QED
  BY <1>1, <1>2, <1>3, ScreenStays DEF Inv, page

\* A call whose page is gone.
LEMMA LateActionKeeps == Inv /\ LateAction => Inv'
<1> SUFFICES ASSUME Inv, LateAction
             PROVE  Inv'
  OBVIOUS
<1>1. PICK c \in orphans :
        /\ orphans' = orphans \ {c}
        /\ \/ c.kind = "book" /\ Booked(c) /\ late' = late \cup {NextId}
           \/ /\ c.kind = "cancel" /\ \E a \in diary : a.id = c.id /\ D!CallOff(a)
              /\ UNCHANGED <<member, late>>
           \/ UNCHANGED <<server, late>>
  BY DEF LateAction
<1>2. UNCHANGED <<page, calls, refused, blind, kept>>
  BY DEF LateAction
<1>3. CASE Booked(c) /\ late' = late \cup {NextId}
  <2>1. c \in Stub
    BY DEF Inv, PageOK
  <2>2. Moves
    BY <1>3, <2>1, AskedTyped, AgreeMoves DEF Inv, Booked
  <2> QED
    BY <1>1, <1>2, <1>3, <2>2, BehindKeeps DEF Booked
<1>4. CASE (\E a \in diary : D!CallOff(a)) /\ UNCHANGED <<member, late>>
  <2>1. Moves
    BY <1>4, CallOffMoves DEF Inv
  <2> QED
    BY <1>1, <1>2, <1>4, <2>1, BehindKeeps
<1>5. CASE UNCHANGED <<server, late>>
  <2>1. Moves
    BY <1>5, StillMoves DEF Inv, server
  <2> QED
    BY <1>1, <1>2, <1>5, <2>1, BehindKeeps DEF server
<1> QED
  BY <1>1, <1>3, <1>4, <1>5

\* The other members, and the owner.
LEMMA OthersKeep == Inv /\ (OtherBooks \/ OtherCancels) => Inv'
<1> SUFFICES ASSUME Inv, OtherBooks \/ OtherCancels
             PROVE  Inv'
  OBVIOUS
<1>1. UNCHANGED <<member, page, calls, orphans, ghosts>>
  BY DEF OtherBooks, OtherCancels
<1>2. Moves
  <2>1. CASE OtherBooks
    <3>1. PICK a \in Appointments : a.id = NextId /\ D!Agree(a)
      BY <2>1 DEF OtherBooks
    <3>2. a \in Slot
      <4>1. PICK i \in Ids, t \in Starts, d \in Lengths : a = [id |-> i, lo |-> t, hi |-> t + d]
        BY DEF Appointments
      <4>2. Starts \subseteq Nat /\ Lengths \subseteq Nat /\ Ids \subseteq Nat
        BY BookingAssumption DEF Ids
      <4>3. i \in Nat /\ t \in Nat /\ d \in Nat
        BY <4>2
      <4> QED
        BY <4>1, <4>3 DEF Slot
    <3> QED
      BY <1>1, <3>1, <3>2, AgreeMoves DEF Inv, ghosts
  <2>2. CASE OtherCancels
    BY <1>1, <2>2, CallOffMoves DEF OtherCancels, Inv, ghosts
  <2> QED
    BY <2>1, <2>2
<1> QED
  BY <1>1, <1>2, BehindKeeps DEF ghosts

-----------------------------------------------------------------------------
(* The theorems *)

\* The page as it is first rendered, nothing booked.
LEMMA InitInv == Init => Inv
<1> SUFFICES ASSUME Init
             PROVE  Inv
  OBVIOUS
<1> DEFINE e == Effect(Default)
<1>1. Default \in Lengths /\ IsNew(e, "avail") /\ e \in Stub
  BY NewCalls, BookingAssumption DEF IsNew
<1>2. NotLoaded \in Avail /\ ~ NotLoaded.ok
  BY BookingAssumption DEF NotLoaded, Avail
<1>3. calls = <<e>> /\ CallOK(e)
  BY <1>1, NewIsOK DEF Init
<1> HIDE DEF e
<1>4. calls \in Seq(Stub) /\ calls[1] = e /\ DOMAIN calls = {1}
  BY <1>1, <1>3
<1>5. QueueOK
  BY <1>3, <1>4 DEF QueueOK
<1>6. PageOK
  BY <1>1, <1>2 DEF Init, PageOK
<1>7. IdsInOrder
  <2>1. diary = {} /\ closed = {}
    BY DEF Init
  <2>2. Known = {}
    BY <2>1 DEF Known, Held
  <2>3. 1..0 = {} /\ 0 \in Nat
    OBVIOUS
  <2> QED
    BY <2>1, <2>2, <2>3 DEF IdsInOrder
<1>8. Remembered /\ TimesInv /\ ListInv
  BY <1>2 DEF Init, Remembered, TimesInv, Honest, ListInv
<1> QED
  BY <1>5, <1>6, <1>7, <1>8 DEF Inv

\* Every step keeps the invariant.
LEMMA NextKeeps == Inv /\ [Next]_vars => Inv'
<1> SUFFICES ASSUME Inv, [Next]_vars
             PROVE  Inv'
  OBVIOUS
<1>1. CASE \E d \in Lengths : PickLength(d)
  BY <1>1, PickLengthKeeps
<1>2. CASE \E t \in Starts : PickSlot(t)
  BY <1>2, PickSlotKeeps
<1>3. CASE Confirm \/ BookAnother \/ \E i \in Ids : CancelMine(i)
  BY <1>3, ButtonsKeep
<1>4. CASE Action
  BY <1>4, GetAvailabilityKeeps, ListMyMeetingsKeeps, BookMeetingKeeps, CancelMeetingKeeps DEF Action
<1>5. CASE Return
  BY <1>5, AvailabilityReplyKeeps, AllReplyKeeps, BookReplyKeeps, CancelReplyKeeps DEF Return
<1>6. CASE PageLost \/ LateAction
  BY <1>6, PageLostKeeps, LateActionKeeps
<1>7. CASE OtherBooks \/ OtherCancels
  BY <1>7, OthersKeep
<1>8. CASE UNCHANGED vars
  <2>1. Moves
    BY <1>8, StillMoves DEF Inv, vars, server, ghosts
  <2> QED
    BY <1>8, <2>1, BehindKeeps DEF vars, server, ghosts
<1> QED
  BY <1>1, <1>2, <1>3, <1>4, <1>5, <1>6, <1>7, <1>8 DEF Next

-----------------------------------------------------------------------------
(* The length the times are for *)

\* A reading of the times whose answer will be shown.
Looks(c) == c.kind \in {"avail", "all"} /\ c.live

\* Unless the length crossed a booking or a cancellation: what is on its way of those
\* is for the length chosen, and the times shown, or on their way for another length,
\* are followed by times for the length chosen.
SentForLength == \A i \in DOMAIN calls : calls[i].kind \in {"book", "cancel"} => calls[i].len = length
PutRight == \A i \in DOMAIN calls : Looks(calls[i]) /\ calls[i].len # length =>
                \E j \in DOMAIN calls : j > i /\ Looks(calls[j]) /\ calls[j].len = length
ShownRight == avail.ok /\ avail.len # length =>
                \E j \in DOMAIN calls : Looks(calls[j]) /\ calls[j].len = length

LengthInv == ~ crossed => SentForLength /\ PutRight /\ ShownRight

\* Positions in the queue.
LEMMA Positions ==
    ASSUME Inv
    PROVE  /\ Len(calls) \in Nat /\ DOMAIN calls = 1..Len(calls)
           /\ \A i \in DOMAIN calls : i \in Nat /\ i >= 1 /\ (i = 1 \/ (i > 1 /\ i - 1 \in Nat))
<1>1. calls \in Seq(Stub)
  BY DEF Inv, QueueOK
<1> QED
  BY <1>1

\* A call for the length chosen joins the queue.
LEMMA LengthGrows ==
    ASSUME Inv, LengthInv, UNCHANGED <<length, avail, crossed>>,
           NEW c \in Stub, c.len = length, calls' = Append(calls, c)
    PROVE  LengthInv'
<1> SUFFICES ASSUME ~ crossed
             PROVE  SentForLength' /\ PutRight' /\ ShownRight'
  BY DEF LengthInv
<1>1. /\ \A i \in DOMAIN calls : i \in DOMAIN calls' /\ calls'[i] = calls[i]
      /\ \A i \in DOMAIN calls' : i \in DOMAIN calls \/ calls'[i] = c
  <2>1. calls \in Seq(Stub)
    BY DEF Inv, QueueOK
  <2> QED
    BY <2>1
<1>2. SentForLength'
  BY <1>1 DEF LengthInv, SentForLength
<1>3. PutRight'
  BY <1>1 DEF LengthInv, PutRight, Looks
<1>4. ShownRight'
  BY <1>1 DEF LengthInv, ShownRight, Looks
<1> QED
  BY <1>2, <1>3, <1>4

\* The head of the queue is carried out.
LEMMA LengthAnswers ==
    ASSUME Inv, LengthInv, UNCHANGED <<length, avail, crossed>>, calls # <<>>, NEW c \in Stub,
           c.kind = Head(calls).kind, c.live <=> Head(calls).live, c.len = Head(calls).len,
           calls' = <<c>> \o Tail(calls)
    PROVE  LengthInv'
<1>1. /\ DOMAIN calls' = DOMAIN calls /\ calls'[1] = c
      /\ \A i \in DOMAIN calls : i > 1 => calls'[i] = calls[i]
  <2>1. calls \in Seq(Stub)
    BY DEF Inv, QueueOK
  <2> QED
    BY <2>1
<1>2. Head(calls) = calls[1] /\ \A i \in DOMAIN calls : i = 1 \/ i > 1
  BY HeadFacts
<1>3. \A i \in DOMAIN calls : /\ calls'[i].kind = calls[i].kind /\ calls'[i].len = calls[i].len
                              /\ (Looks(calls'[i]) <=> Looks(calls[i]))
  BY <1>1, <1>2 DEF Looks
<1> SUFFICES ASSUME ~ crossed
             PROVE  SentForLength' /\ PutRight' /\ ShownRight'
  BY DEF LengthInv
<1>4. SentForLength'
  BY <1>1, <1>3 DEF LengthInv, SentForLength
<1>5. PutRight'
  <2> SUFFICES ASSUME NEW i \in DOMAIN calls', Looks(calls'[i]), calls'[i].len # length
               PROVE  \E j \in DOMAIN calls' : j > i /\ Looks(calls'[j]) /\ calls'[j].len = length
    BY DEF PutRight, Looks
  <2>1. PICK j \in DOMAIN calls : j > i /\ Looks(calls[j]) /\ calls[j].len = length
    BY <1>1, <1>3 DEF LengthInv, PutRight
  <2> QED
    BY <1>1, <1>3, <2>1
<1>6. ShownRight'
  <2> SUFFICES ASSUME avail.ok, avail.len # length
               PROVE  \E j \in DOMAIN calls' : Looks(calls'[j]) /\ calls'[j].len = length
    BY DEF ShownRight, Looks
  <2>1. PICK j \in DOMAIN calls : Looks(calls[j]) /\ calls[j].len = length
    BY DEF LengthInv, ShownRight
  <2> QED
    BY <1>1, <1>3, <2>1
<1> QED
  BY <1>4, <1>5, <1>6

\* The head of the queue returns; the times shown are its own or stay.
LEMMA LengthShrinks ==
    ASSUME Inv, LengthInv, UNCHANGED <<length, crossed>>, calls # <<>>, calls' = Tail(calls),
           avail' = IF Looks(Head(calls)) THEN Head(calls).avail ELSE avail
    PROVE  LengthInv'
<1> DEFINE c == Head(calls)
<1> SUFFICES ASSUME ~ crossed
             PROVE  SentForLength' /\ PutRight' /\ ShownRight'
  BY DEF LengthInv
<1>1. /\ \A i \in DOMAIN calls' : i \in Nat /\ i + 1 \in DOMAIN calls /\ calls'[i] = calls[i + 1]
      /\ \A i \in DOMAIN calls : i > 1 => i - 1 \in DOMAIN calls' /\ calls'[i - 1] = calls[i]
  <2>1. calls \in Seq(Stub)
    BY DEF Inv, QueueOK
  <2> QED
    BY <2>1
<1>2. /\ c = calls[1] /\ 1 \in DOMAIN calls /\ CallOK(c)
      /\ \A i \in DOMAIN calls : i \in Nat /\ (i = 1 \/ i > 1)
  BY HeadFacts, Positions
<1>3. SentForLength'
  BY <1>1 DEF LengthInv, SentForLength
<1>4. PutRight'
  <2> SUFFICES ASSUME NEW i \in DOMAIN calls', Looks(calls'[i]), calls'[i].len # length
               PROVE  \E j \in DOMAIN calls' : j > i /\ Looks(calls'[j]) /\ calls'[j].len = length
    BY DEF PutRight, Looks
  <2>1. i + 1 \in DOMAIN calls /\ calls'[i] = calls[i + 1] /\ i \in Nat
    BY <1>1
  <2>2. PICK j \in DOMAIN calls : j > i + 1 /\ Looks(calls[j]) /\ calls[j].len = length
    BY <2>1 DEF LengthInv, PutRight
  <2>3. j \in Nat /\ j > 1 /\ j - 1 > i
    BY <1>2, <2>1, <2>2
  <2> QED
    BY <1>1, <2>2, <2>3
<1>5. ShownRight'
  <2> SUFFICES ASSUME avail'.ok, avail'.len # length
               PROVE  \E j \in DOMAIN calls' : Looks(calls'[j]) /\ calls'[j].len = length
    BY DEF ShownRight, Looks
  <2>1. PICK j \in DOMAIN calls : j > 1 /\ Looks(calls[j]) /\ calls[j].len = length
    <3>1. CASE Looks(c)
      <4>1. c.len # length
        BY <1>2, <3>1 DEF CallOK
      <4> QED
        BY <1>2, <3>1, <4>1 DEF LengthInv, PutRight
    <3>2. CASE ~ Looks(c)
      BY <1>2, <3>2 DEF LengthInv, ShownRight
    <3> QED
      BY <3>1, <3>2
  <2> QED
    BY <1>1, <2>1
<1> QED
  BY <1>3, <1>4, <1>5

\* A booking or a cancellation returns, and sends a reading for its own length.
LEMMA LengthTurns ==
    ASSUME Inv, LengthInv, UNCHANGED <<length, avail, crossed>>, calls # <<>>,
           Head(calls).kind \in {"book", "cancel"},
           NEW c \in Stub, c.len = Head(calls).len, c.kind \notin {"book", "cancel"},
           calls' = Append(Tail(calls), c)
    PROVE  LengthInv'
<1> SUFFICES ASSUME ~ crossed
             PROVE  SentForLength' /\ PutRight' /\ ShownRight'
  BY DEF LengthInv
<1>1. /\ \A i \in DOMAIN calls' : /\ i \in Nat
                                  /\ (i + 1 \in DOMAIN calls /\ calls'[i] = calls[i + 1]) \/ calls'[i] = c
      /\ \A i \in DOMAIN calls : i > 1 => i - 1 \in DOMAIN calls' /\ calls'[i - 1] = calls[i]
  <2>1. calls \in Seq(Stub)
    BY DEF Inv, QueueOK
  <2> QED
    BY <2>1
<1>2. /\ Head(calls) = calls[1] /\ 1 \in DOMAIN calls
      /\ \A i \in DOMAIN calls : i \in Nat /\ (i = 1 \/ i > 1)
  BY HeadFacts, Positions
<1>3. c.len = length /\ ~ Looks(calls[1])
  BY <1>2 DEF LengthInv, SentForLength, Looks
<1>4. SentForLength'
  BY <1>1, <1>3 DEF LengthInv, SentForLength
<1>5. PutRight'
  <2> SUFFICES ASSUME NEW i \in DOMAIN calls', Looks(calls'[i]), calls'[i].len # length
               PROVE  \E j \in DOMAIN calls' : j > i /\ Looks(calls'[j]) /\ calls'[j].len = length
    BY DEF PutRight, Looks
  <2>1. i + 1 \in DOMAIN calls /\ calls'[i] = calls[i + 1] /\ i \in Nat
    BY <1>1, <1>3
  <2>2. PICK j \in DOMAIN calls : j > i + 1 /\ Looks(calls[j]) /\ calls[j].len = length
    BY <2>1 DEF LengthInv, PutRight
  <2>3. j \in Nat /\ j > 1 /\ j - 1 > i
    BY <1>2, <2>1, <2>2
  <2> QED
    BY <1>1, <2>2, <2>3
<1>6. ShownRight'
  <2> SUFFICES ASSUME avail.ok, avail.len # length
               PROVE  \E j \in DOMAIN calls' : Looks(calls'[j]) /\ calls'[j].len = length
    BY DEF ShownRight, Looks
  <2>1. PICK j \in DOMAIN calls : Looks(calls[j]) /\ calls[j].len = length
    BY DEF LengthInv, ShownRight
  <2>2. j > 1
    BY <1>2, <1>3, <2>1
  <2> QED
    BY <1>1, <2>1, <2>2
<1> QED
  BY <1>4, <1>5, <1>6

\* A new length crosses what is on its way, or finds only readings there, and its own
\* comes last.
LEMMA LengthPicked ==
    ASSUME Inv, LengthInv, NEW d \in Lengths, PickLength(d)
    PROVE  LengthInv'
<1>1. CASE d = length
  <2>1. UNCHANGED <<calls, length, avail, crossed>>
    BY <1>1 DEF PickLength
  <2> QED
    BY <2>1 DEF LengthInv, SentForLength, PutRight, ShownRight, Looks
<1>2. CASE d # length
  <2> DEFINE m == [i \in DOMAIN calls |->
                      IF calls[i].effect THEN [calls[i] EXCEPT !.live = FALSE] ELSE calls[i]]
             e == Effect(d)
  <2> SUFFICES ASSUME ~ crossed'
               PROVE  SentForLength' /\ PutRight' /\ ShownRight'
    BY DEF LengthInv
  <2>1. calls' = Append(m, e) /\ length' = d /\ avail' = avail
    BY <1>2 DEF PickLength
  <2>2. calls \in Seq(Stub)
    BY DEF Inv, QueueOK
  <2>3. \A i \in DOMAIN calls : calls[i].kind \notin {"book", "cancel"}
    BY <1>2 DEF PickLength, Pending
  <2>4. \A i \in DOMAIN calls : m[i].kind = calls[i].kind /\ m[i] \in Stub
    <3> SUFFICES ASSUME NEW i \in DOMAIN calls
                 PROVE  m[i].kind = calls[i].kind /\ m[i] \in Stub
      OBVIOUS
    <3>1. calls[i] \in Stub
      BY <2>2
    <3> QED
      BY <3>1 DEF Stub
  <2>5. e \in Stub /\ Looks(e) /\ e.len = d
    <3>1. IsNew(e, "avail")
      BY NewCalls
    <3>2. e.len = d
      BY DEF Effect, NewCall
    <3> QED
      BY <3>1, <3>2 DEF IsNew, Looks
  <2>6. m \in Seq(Stub) /\ DOMAIN m = DOMAIN calls
    <3>1. DOMAIN calls = 1..Len(calls) /\ Len(calls) \in Nat
      BY <2>2
    <3> QED
      BY <2>4, <3>1, IsASeq
  <2> HIDE DEF m, e
  <2>7. /\ Len(calls) + 1 \in DOMAIN calls' /\ calls'[Len(calls) + 1] = e
        /\ \A i \in DOMAIN calls' : \/ i \in DOMAIN calls /\ calls'[i] = m[i] /\ Len(calls) + 1 > i
                                    \/ i = Len(calls) + 1
    BY <2>1, <2>2, <2>5, <2>6
  <2>8. SentForLength'
    BY <2>3, <2>4, <2>5, <2>7 DEF SentForLength, Looks
  <2>9. PutRight'
    <3> SUFFICES ASSUME NEW i \in DOMAIN calls', calls'[i].len # d
                 PROVE  \E j \in DOMAIN calls' : j > i /\ Looks(calls'[j]) /\ calls'[j].len = d
      BY <2>1 DEF PutRight, Looks
    <3> QED
      BY <2>5, <2>7
  <2>10. ShownRight'
    BY <2>1, <2>5, <2>7 DEF ShownRight, Looks
  <2> QED
    BY <2>8, <2>9, <2>10
<1> QED
  BY <1>1, <1>2

\* The buttons send for the length chosen.
LEMMA LengthPressed ==
    ASSUME Inv, LengthInv, Confirm \/ BookAnother \/ \E i \in Ids : CancelMine(i)
    PROVE  LengthInv'
<1>1. length \in Lengths /\ pick \in {0} \cup Starts
  BY DEF Inv, PageOK
<1>2. UNCHANGED <<length, avail, crossed>>
  BY DEF Confirm, BookAnother, CancelMine, page, ghosts
<1>3. CASE Confirm
  <2> DEFINE c == [NewCall("book", length) EXCEPT !.start = pick]
  <2>1. calls' = Append(calls, c) /\ pick \in Starts
    BY <1>1, <1>3 DEF Confirm
  <2>2. c \in Stub
    BY <1>1, <2>1, NewCalls DEF IsNew
  <2>3. c.len = length
    BY DEF NewCall
  <2> HIDE DEF c
  <2> QED
    BY <1>2, <2>1, <2>2, <2>3, LengthGrows
<1>4. CASE BookAnother
  <2> DEFINE c == NewCall("avail", length)
  <2>1. calls' = Append(calls, c)
    BY <1>4 DEF BookAnother
  <2>2. c \in Stub
    BY <1>1, NewCalls DEF IsNew
  <2>3. c.len = length
    BY DEF NewCall
  <2> HIDE DEF c
  <2> QED
    BY <1>2, <2>1, <2>2, <2>3, LengthGrows
<1>5. ASSUME NEW i \in Ids, CancelMine(i)
      PROVE  LengthInv'
  <2> DEFINE c == [NewCall("cancel", length) EXCEPT !.id = i]
  <2>1. calls' = Append(calls, c)
    BY <1>5 DEF CancelMine
  <2>2. c \in Stub
    BY <1>1, NewCalls DEF IsNew
  <2>3. c.len = length
    BY DEF NewCall
  <2> HIDE DEF c
  <2> QED
    BY <1>2, <2>1, <2>2, <2>3, LengthGrows
<1> QED
  BY <1>3, <1>4, <1>5

\* Carrying a call out changes neither what it is nor the length it is for.
LEMMA LengthOfAnswer ==
    ASSUME Inv, Action
    PROVE  \E c \in Stub : /\ calls' = <<c>> \o Tail(calls)
                           /\ c.kind = Head(calls).kind /\ (c.live <=> Head(calls).live)
                           /\ c.len = Head(calls).len
<1> DEFINE h == Head(calls)
           Like(c) == /\ c \in Stub /\ c.kind = h.kind /\ (c.live <=> h.live) /\ c.len = h.len
<1>1. calls # <<>>
  BY DEF Action, GetAvailability, ListMyMeetings, BookMeeting, CancelMeeting
<1>2. h \in Stub
  BY <1>1, HeadFacts
<1>3. \A i \in Nat : 1..i \subseteq Nat
  OBVIOUS
<1>4. Held \subseteq Nat
  <2>1. PICK n \in Nat : Known = 1..n
    BY DEF Inv, IdsInOrder
  <2> QED
    BY <2>1 DEF Known
<1>5. /\ \A step \in {"sent", "half", "done"} : Like([h EXCEPT !.step = step])
      /\ \A a \in {"ok", "error"} : Like([h EXCEPT !.step = "done", !.answer = a])
      /\ \A step \in {"sent", "half", "done"}, times \in Avail :
            Like([h EXCEPT !.step = step, !.avail = times])
      /\ \A l \in SUBSET Nat : Like([h EXCEPT !.step = "done", !.list = l])
      /\ Like([h EXCEPT !.step = "done", !.heard = FALSE])
      /\ \A ids \in SUBSET Nat : Like([h EXCEPT !.step = "done", !.answer = "stale", !.clash = ids])
  BY <1>2 DEF Stub
<1>6. [ok |-> TRUE, len |-> h.len, slots |-> Free(h.len)] \in Avail
  BY <1>2 DEF Avail, Free, Stub
<1>7. member \cap Held \in SUBSET Nat
  BY <1>4
<1>8. {b.id : b \in {a \in diary : D!Clash(Asked(h), a)}} \in SUBSET Nat
  BY <1>4 DEF Held
<1>9. CASE GetAvailability
  BY <1>5, <1>6, <1>9 DEF GetAvailability, Answered
<1>10. CASE ListMyMeetings
  BY <1>5, <1>7, <1>10 DEF ListMyMeetings, Answered
<1>11. CASE BookMeeting
  <2>1. \/ \E a \in {"ok", "error"} :
              calls' = <<[h EXCEPT !.step = "done", !.answer = a]>> \o Tail(calls)
        \/ calls' = <<[h EXCEPT !.step = "done", !.answer = "stale",
                         !.clash = {b.id : b \in {a \in diary : D!Clash(Asked(h), a)}}]>> \o Tail(calls)
    BY <1>11 DEF BookMeeting, Taken, Answered
  <2> QED
    BY <1>5, <1>8, <2>1
<1>12. CASE CancelMeeting
  <2>1. \E a \in {"ok", "error"} :
              calls' = <<[h EXCEPT !.step = "done", !.answer = a]>> \o Tail(calls)
    BY <1>12 DEF CancelMeeting, Answered
  <2> QED
    BY <1>5, <2>1
<1> QED
  BY <1>9, <1>10, <1>11, <1>12 DEF Action

\* A call that is carried out stays the call it was.
LEMMA LengthActed ==
    ASSUME Inv, LengthInv, Action
    PROVE  LengthInv'
<1>1. calls # <<>> /\ UNCHANGED <<length, avail, crossed>>
  BY DEF Action, GetAvailability, ListMyMeetings, BookMeeting, CancelMeeting, page, ghosts
<1>2. Head(calls) \in Stub
  BY <1>1, HeadFacts
<1>3. PICK c : /\ calls' = <<c>> \o Tail(calls) /\ c \in Stub
               /\ c.kind = Head(calls).kind /\ (c.live <=> Head(calls).live)
               /\ c.len = Head(calls).len
  BY <1>1, LengthOfAnswer
<1> QED
  BY <1>1, <1>3, LengthAnswers

\* The replies.
LEMMA LengthReturned ==
    ASSUME Inv, LengthInv, Return
    PROVE  LengthInv'
<1> DEFINE c == Head(calls)
<1>1. calls # <<>> /\ UNCHANGED <<length, crossed>>
  BY DEF Return, Reply, AvailabilityReply, AllReply, BookReply, CancelReply, page, ghosts
<1>2. c \in Stub /\ c.len \in Lengths
  <2>1. c \in Stub
    BY <1>1, HeadFacts
  <2> QED
    BY <2>1 DEF Stub
<1>3. CASE AvailabilityReply \/ AllReply
  BY <1>1, <1>3, LengthShrinks DEF AvailabilityReply, AllReply, Reply, Looks
<1>4. CASE BookReply \/ CancelReply
  <2>1. c.kind \in {"book", "cancel"} /\ avail' = avail
    BY <1>4 DEF BookReply, CancelReply, Reply, page
  <2>2. ASSUME NEW kind \in {"avail", "all"}, calls' = Append(Tail(calls), NewCall(kind, c.len))
        PROVE  LengthInv'
    <3> DEFINE x == NewCall(kind, c.len)
    <3>1. x.len = c.len /\ x.kind = kind
      BY DEF NewCall
    <3>2. x \in Stub
      BY <1>2, NewCalls DEF IsNew
    <3> HIDE DEF x
    <3>3. calls' = Append(Tail(calls), x)
      BY <2>2 DEF x
    <3> QED
      BY <1>1, <2>1, <3>1, <3>2, <3>3, LengthTurns
  <2>3. CASE calls' = Tail(calls)
    BY <1>1, <2>1, <2>3, LengthShrinks DEF Looks
  <2> QED
    BY <1>4, <2>2, <2>3 DEF BookReply, CancelReply, Then, RefreshAll
<1> QED
  BY <1>3, <1>4 DEF Return

\* LengthInv is inductive.
LEMMA LengthKeeps == Inv /\ LengthInv /\ [Next]_vars => LengthInv'
<1> SUFFICES ASSUME Inv, LengthInv, [Next]_vars
             PROVE  LengthInv'
  OBVIOUS
<1>1. CASE UNCHANGED <<calls, length, avail, crossed>>
  BY <1>1 DEF LengthInv, SentForLength, PutRight, ShownRight, Looks
<1>2. CASE PageLost
  <2> DEFINE e == Effect(Default)
  <2>1. calls' = <<e>> /\ length' = Default /\ avail' = NotLoaded
    BY <1>2 DEF PageLost, Load
  <2>2. e.len = Default /\ e.kind = "avail"
    BY DEF Effect, NewCall
  <2>3. ~ NotLoaded.ok
    BY DEF NotLoaded
  <2> HIDE DEF e
  <2>4. DOMAIN calls' = {1} /\ calls'[1] = e
    BY <2>1
  <2>5. \A i \in DOMAIN calls' : calls'[i].len = length'
    BY <2>1, <2>2, <2>4
  <2> QED
    BY <2>1, <2>3, <2>5 DEF LengthInv, SentForLength, PutRight, ShownRight
<1>3. CASE (\E t \in Starts : PickSlot(t)) \/ LateAction \/ OtherBooks \/ OtherCancels \/ UNCHANGED vars
  BY <1>1, <1>3 DEF PickSlot, LateAction, OtherBooks, OtherCancels, vars, page, ghosts
<1> QED
  BY <1>2, <1>3, LengthPicked, LengthPressed, LengthActed, LengthReturned DEF Next

\* At rest the page offers no time that clashes, for the length it would be booked
\* with, with a meeting it lists and the member still holds, nor with one the member
\* was told had taken the time, whatever was clicked and whoever booked meanwhile;
\* unless the length was changed while a booking or a cancellation was on its way
\* (booking.tsx refreshAll, submit, the effect of duration).
THEOREM OffersAreFree == Spec => []TakenIsNotOffered
<1>1. Inv /\ LengthInv => TakenIsNotOffered
  <2> SUFFICES ASSUME Inv, LengthInv, AtRest, avail.ok, ~ crossed
               PROVE  \A t \in avail.slots, b \in diary :
                          b.id \in (mine \cup refused) \ late => ~ D!Clash(Time(t, length), b)
    BY DEF TakenIsNotOffered
  <2>1. ~ Rereads /\ DOMAIN calls = {}
    BY DEF AtRest, Rereads
  <2>2. avail.len = length
    BY <2>1 DEF LengthInv, ShownRight
  <2> QED
    BY <2>1, <2>2 DEF Inv, TimesInv, Honest
<1>2. Init => LengthInv
  <2> SUFFICES ASSUME Init PROVE LengthInv
    OBVIOUS
  <2> DEFINE e == Effect(Default)
  <2>1. calls = <<e>> /\ length = Default /\ ~ avail.ok
    BY DEF Init, NotLoaded
  <2>2. e.len = Default
    BY DEF Effect, NewCall
  <2> HIDE DEF e
  <2>3. \A i \in DOMAIN calls : calls[i].len = length
    BY <2>1, <2>2
  <2> QED
    BY <2>1, <2>3 DEF LengthInv, SentForLength, PutRight, ShownRight
<1> QED
  BY <1>1, <1>2, InitInv, NextKeeps, LengthKeeps, PTL DEF Spec

\* At rest the page lists every meeting the member holds, unless the last listing
\* failed, a booking landed after its page was gone, or one was answered with an error
\* and held all the same (booking.tsx meetings, book.go Release).
THEOREM ListIsWhole == Spec => []HeldIsListed
<1>1. Inv => HeldIsListed
  <2> SUFFICES ASSUME Inv, AtRest
               PROVE  blind \/ member \cap Held \subseteq mine \cup late \cup kept
    BY DEF HeldIsListed
  <2>1. ~ Relists
    BY DEF AtRest, Relists
  <2> QED
    BY <2>1 DEF Inv, ListInv
<1> QED
  BY <1>1, InitInv, NextKeeps, PTL DEF Spec
=============================================================================
