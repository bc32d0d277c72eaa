--------------------------- MODULE MeetingsProofs ---------------------------
(***************************************************************************)
(* Theorems about Meetings, for any rows, requests, settings and calendar. *)
(***************************************************************************)
EXTENDS Meetings, TLAPS

-----------------------------------------------------------------------------
(* Type correctness *)

\* What TypeOK says of one goroutine, and of one row.
RequestOK(q) ==
    /\ q \in Request
    /\ q.op \in {"look", "check", "claim"} => q.start \in Starts /\ q.dur \in q.config.durations
    /\ q.op \in OnRow => q.id \in Rows

RowOK(w) ==
    /\ w \in Row
    /\ w.state # "none" => w.start \in Starts /\ w.dur \in Durations /\ w.gap \in Gaps

\* The type invariant, goroutine by goroutine and row by row.
LEMMA TypeOKParts ==
  TypeOK <=> /\ LinkOK
             /\ own \subseteq OwnTimes /\ events \subseteq Rows /\ excused \subseteq Rows
             /\ config \in Configs
             /\ rows \in [Rows -> Row] /\ \A i \in Rows : RowOK(rows[i])
             /\ req \in [Reqs -> Request] /\ \A r \in Reqs : RequestOK(req[r])
  BY DEF TypeOK, RequestOK, RowOK

\* A goroutine at rest, and a row that does not exist, are typed.
LEMMA IdleTyped == RequestOK(Idle) /\ Idle.op = "idle"
  <1>1. (CHOOSE c \in Configs : TRUE) \in Configs
    BY TimesAssumption
  <1> QED BY <1>1 DEF Idle, RequestOK, Request, OnRow

\* The row that does not exist.
LEMMA NoRowTyped == RowOK(NoRow)
  BY DEF NoRow, RowOK, Row

\* A length some settings offer, with their clearance.
LEMMA OfferedTyped ==
  ASSUME NEW c \in Configs
  PROVE  /\ c.durations \subseteq Durations /\ c.gap \in Gaps
         /\ Durations \subseteq Nat /\ Gaps \subseteq Nat
  BY TimesAssumption DEF Durations, Gaps

\* Only the step of a goroutine is written.
LEMMA OpWritten ==
  ASSUME NEW q \in Request, NEW p,
         NEW op \in {"idle", "look", "check", "claim", "create", "attach", "release",
                     "cancel", "uncreate"},
         p = [q EXCEPT !.op = op]
  PROVE  /\ p \in Request /\ p.op = op /\ p.id = q.id /\ p.start = q.start
         /\ p.dur = q.dur /\ p.config = q.config /\ p.known = q.known /\ p.free = q.free
  BY DEF Request

\* Of a row, its state is written, or its event.
LEMMA StateWritten ==
  ASSUME NEW w \in Row, NEW v, NEW state \in {"none", "held", "cancelled", "deleted"},
         v = [w EXCEPT !.state = state]
  PROVE  /\ v \in Row /\ v.state = state /\ v.start = w.start /\ v.dur = w.dur
         /\ v.gap = w.gap /\ v.event = w.event /\ v.avoids = w.avoids
  BY DEF Row

\* Only whether its event exists is written.
LEMMA EventWritten ==
  ASSUME NEW w \in Row, NEW v, NEW event \in BOOLEAN, v = [w EXCEPT !.event = event]
  PROVE  /\ v \in Row /\ v.state = w.state /\ v.start = w.start /\ v.dur = w.dur
         /\ v.gap = w.gap /\ v.event = event /\ v.avoids = w.avoids
  BY DEF Row

\* No row, no request.
LEMMA InitTyped == Init => TypeOK
<1> SUFFICES ASSUME Init PROVE TypeOK
  OBVIOUS
<1>1. rows \in [Rows -> Row] /\ \A i \in Rows : RowOK(rows[i])
  BY NoRowTyped DEF Init, RowOK
<1>2. req \in [Reqs -> Request] /\ \A r \in Reqs : RequestOK(req[r])
  BY IdleTyped DEF Init, RequestOK
<1> QED
  BY <1>1, <1>2, TypeOKParts DEF Init, LinkInit, LinkOK

-----------------------------------------------------------------------------
(* The shape of a step *)

\* Goroutine r goes on to op with what it knows, or ends.
Keeps(r, op) ==
    /\ req' \in [Reqs -> Request] /\ \A p \in Reqs : p # r => req'[p] = req[p]
    /\ RequestOK(req'[r]) /\ req'[r].op = op
    /\ req'[r].id = req[r].id /\ req'[r].start = req[r].start /\ req'[r].dur = req[r].dur
    /\ req'[r].config = req[r].config /\ req'[r].known = req[r].known

Ends(r) ==
    /\ req' \in [Reqs -> Request] /\ \A p \in Reqs : p # r => req'[p] = req[p]
    /\ RequestOK(req'[r]) /\ req'[r] = Idle

\* Row i gets a state and an event, or keeps them; its times stay.
Sets(i, state, event) ==
    /\ rows' \in [Rows -> Row] /\ \A j \in Rows : j # i => rows'[j] = rows[j]
    /\ RowOK(rows'[i]) /\ rows'[i].state = state /\ rows'[i].event = event
    /\ rows'[i].start = rows[i].start /\ rows'[i].dur = rows[i].dur
    /\ rows'[i].gap = rows[i].gap /\ rows'[i].avoids = rows[i].avoids

\* Whatever happens on the link, it stays one.
LEMMA LinkTyped ==
  ASSUME LinkOK,
         \/ CallWorks \/ CallFails \/ ConnectLink \/ DisconnectLink \/ RevokedLink
         \/ LapsedToken
         \/ Fault /\ UNCHANGED link
         \/ UNCHANGED linkVars
  PROVE  LinkOK'
  BY DEF LinkOK, Accepted, CallWorks, CallFails, ConnectLink, DisconnectLink, RevokedLink,
         LapsedToken,
         Fault, linkVars

\* A goroutine that ends, or goes on, has its shape.
LEMMA DoneEnds ==
  ASSUME TypeOK, NEW r \in Reqs, Done(r)
  PROVE  Ends(r)
<1>1. req \in [Reqs -> Request] /\ Idle \in Request
  BY IdleTyped, TypeOKParts DEF RequestOK
<1> QED BY <1>1, IdleTyped DEF Done, Ends

\* It keeps what it knows.
LEMMA GoesKeeps ==
  ASSUME TypeOK, NEW r \in Reqs,
         NEW op \in {"check", "claim", "create", "attach", "release", "cancel", "uncreate"},
         op \in {"check", "claim"} => req[r].op \in {"look", "check", "claim"},
         op \in OnRow => req[r].op \in OnRow,
         Goes(r, op)
  PROVE  Keeps(r, op)
<1> DEFINE q == [req[r] EXCEPT !.op = op]
<1>1. req \in [Reqs -> Request] /\ RequestOK(req[r])
  BY TypeOKParts
<1>2. /\ q \in Request /\ q.op = op /\ q.id = req[r].id /\ q.start = req[r].start
      /\ q.dur = req[r].dur /\ q.config = req[r].config /\ q.known = req[r].known
  BY <1>1, OpWritten DEF RequestOK
<1>3. req' = [req EXCEPT ![r] = q]
  BY DEF Goes
<1> HIDE DEF q
<1>4. RequestOK(q)
  BY <1>1, <1>2 DEF RequestOK, OnRow
<1> QED BY <1>1, <1>2, <1>3, <1>4 DEF Keeps

\* Writing the event, or the state, of a row has its shape.
LEMMA EventSets ==
  ASSUME TypeOK, NEW i \in Rows, NEW event \in BOOLEAN, rows' = [rows EXCEPT ![i].event = event]
  PROVE  Sets(i, rows[i].state, event)
<1> DEFINE w == [rows[i] EXCEPT !.event = event]
<1>1. rows \in [Rows -> Row] /\ RowOK(rows[i])
  BY TypeOKParts
<1>2. /\ w \in Row /\ w.state = rows[i].state /\ w.start = rows[i].start
      /\ w.dur = rows[i].dur /\ w.gap = rows[i].gap /\ w.event = event
      /\ w.avoids = rows[i].avoids
  BY <1>1, EventWritten DEF RowOK
<1>3. rows' = [rows EXCEPT ![i] = w]
  OBVIOUS
<1> HIDE DEF w
<1>4. RowOK(w)
  BY <1>1, <1>2 DEF RowOK
<1> QED BY <1>1, <1>2, <1>3, <1>4 DEF Sets

\* A row that exists is cancelled or deleted.
LEMMA StateSets ==
  ASSUME TypeOK, NEW i \in Rows, rows[i].state # "none", NEW state \in {"cancelled", "deleted"},
         rows' = [rows EXCEPT ![i].state = state]
  PROVE  Sets(i, state, rows[i].event)
<1> DEFINE w == [rows[i] EXCEPT !.state = state]
<1>1. rows \in [Rows -> Row] /\ RowOK(rows[i])
  BY TypeOKParts
<1>2. /\ w \in Row /\ w.state = state /\ w.start = rows[i].start
      /\ w.dur = rows[i].dur /\ w.gap = rows[i].gap /\ w.event = rows[i].event
      /\ w.avoids = rows[i].avoids
  BY <1>1, StateWritten DEF RowOK
<1>3. rows' = [rows EXCEPT ![i] = w]
  OBVIOUS
<1> HIDE DEF w
<1>4. RowOK(w)
  BY <1>1, <1>2 DEF RowOK
<1> QED BY <1>1, <1>2, <1>3, <1>4 DEF Sets

\* A goroutine is only at work on a row that was inserted.  Without it TypeOK is not
\* inductive: a release would give a row its state and not its times.
RowsExist == \A r \in Reqs : req[r].op \in OnRow => rows[req[r].id].state # "none"

\* What a step leaves of the bookings alone.
SameRows == UNCHANGED <<rows, events, excused>>

\* The steps of goroutine r, by what they do to it, to the rows and to the calendar.
Submits(r) ==   \* BookMeeting
    /\ req[r].op = "idle" /\ req' \in [Reqs -> Request] /\ \A p \in Reqs : p # r => req'[p] = req[p]
    /\ RequestOK(req'[r]) /\ req'[r].op = "look" /\ req'[r].known = own
    /\ SameRows
Looks(r) ==     \* BookLook
    /\ req[r].op = "look" /\ Keeps(r, "check") /\ SameRows
    /\ req'[r].free => \A b \in Busy : ~ Clash(Guard(req[r].config, req[r].start, req[r].dur), b)
Checks(r) ==    \* BookCheck
    req[r].op = "check" /\ req[r].free /\ Keeps(r, "claim") /\ SameRows
GivesUp(r) ==   \* any of the three, or the claim, ends the request
    req[r].op \in {"look", "check", "claim"} /\ Ends(r) /\ SameRows
Inserts(r, i) ==
    LET q == req[r] IN
    /\ q.op = "claim" /\ rows[i].state = "none" /\ NoOverlap(Held(q.start, q.dur, q.config.gap))
    /\ rows' \in [Rows -> Row] /\ \A j \in Rows : j # i => rows'[j] = rows[j]
    /\ RowOK(rows'[i]) /\ rows'[i].state = "held" /\ ~ rows'[i].event
    /\ rows'[i].start = q.start /\ rows'[i].dur = q.dur /\ rows'[i].gap = q.config.gap
    /\ rows'[i].avoids = q.known /\ events' = events
Claims(r, i) == \* ClaimBooking
    /\ Inserts(r, i) /\ excused' = excused
    /\ req' \in [Reqs -> Request] /\ \A p \in Reqs : p # r => req'[p] = req[p]
    /\ RequestOK(req'[r]) /\ req'[r].op = "create" /\ req'[r].id = i /\ req'[r].known = {}
Loses(r, i) ==  \* ClaimIsLost
    Inserts(r, i) /\ Ends(r) /\ Excuse(i)
Creates(r) ==   \* CreateEvent
    LET i == req[r].id IN
    /\ req[r].op = "create" /\ rows' = rows
    /\ \/ Keeps(r, "attach") /\ events' = events \cup {i} /\ excused' = excused
       \/ Keeps(r, "release") /\ events' = events \cup {i} /\ Excuse(i)
       \/ Keeps(r, "release") /\ UNCHANGED <<events, excused>>
Attaches(r) ==  \* AttachBookingEvent
    LET i == req[r].id IN
    /\ req[r].op = "attach" /\ Ends(r) /\ events' = events
    /\ \/ Sets(i, rows[i].state, rows[i].state # "deleted") /\ excused' = excused
       \/ rows' = rows /\ Excuse(i)
Releases(r) ==  \* ReleaseBooking
    LET i == req[r].id IN
    /\ req[r].op = "release" /\ Ends(r) /\ events' = events
    /\ \/ Sets(i, "deleted", rows[i].event) /\ excused' = excused
       \/ rows' = rows /\ Excuse(i)
Asks(r, i) ==   \* CancelMeeting
    /\ req[r].op = "idle" /\ rows[i].state = "held" /\ SameRows
    /\ req' \in [Reqs -> Request] /\ \A p \in Reqs : p # r => req'[p] = req[p]
    /\ RequestOK(req'[r]) /\ req'[r].op = "cancel" /\ req'[r].id = i /\ req'[r].known = {}
Cancels(r) ==   \* CancelBooking, or CancelFails after its update
    LET i == req[r].id IN
    /\ req[r].op = "cancel" /\ rows[i].state = "held" /\ events' = events
    /\ Sets(i, "cancelled", rows[i].event)
    /\ \/ rows[i].event /\ Keeps(r, "uncreate") /\ excused' = excused
       \/ Ends(r) /\ Excuse(i)
Uncreates(r) == \* CancelEvent, or a cancellation that came too late or failed
    LET i == req[r].id IN
    /\ Ends(r) /\ rows' = rows
    /\ \/ req[r].op = "uncreate" /\ events' = events \ {i} /\ excused' = excused
       \/ req[r].op = "uncreate" /\ events' = events /\ Excuse(i)
       \/ req[r].op = "cancel" /\ UNCHANGED <<events, excused>>

RequestStep(r) ==
    /\ \/ Submits(r) \/ Looks(r) \/ Checks(r) \/ GivesUp(r)
       \/ \E i \in Rows : Claims(r, i) \/ Loses(r, i) \/ Asks(r, i)
       \/ Creates(r) \/ Attaches(r) \/ Releases(r) \/ Cancels(r) \/ Uncreates(r)
    /\ own' = own

\* The rest of the world: a restart, or somebody at the calendar or the settings.
Restarts ==
    /\ excused' = excused \cup {req[r].id : r \in {q \in Reqs : req[q].op \in
                                   {"create", "attach", "release", "uncreate"}}}
    /\ req' \in [Reqs -> Request] /\ \A r \in Reqs : RequestOK(req'[r]) /\ req'[r] = Idle
    /\ UNCHANGED <<own, events, rows>>
OthersStep ==
    /\ UNCHANGED <<req, rows, excused>>
    /\ own \subseteq own' /\ events' \subseteq events

-----------------------------------------------------------------------------
(* Every step has one of these shapes, and keeps the types *)

\* The steps of a booking: it begins with the settings of that moment,
LEMMA BookMeetingShape ==
  ASSUME TypeOK, NEW r \in Reqs, NEW t \in Starts, NEW d \in Durations, BookMeeting(r, t, d)
  PROVE  Submits(r)
<1>1. t \in Nat /\ d \in Nat
  BY TimesAssumption, OfferedTyped, TypeOKParts
<1> DEFINE q == [op |-> "look", id |-> 0, start |-> t, dur |-> d,
                 config |-> config, free |-> FALSE, known |-> own]
<1>2. RequestOK(q) /\ q \in Request /\ q.op = "look" /\ q.known = own
  BY <1>1, TypeOKParts DEF BookMeeting, RequestOK, Request, OnRow
<1>3. req \in [Reqs -> Request] /\ req' = [req EXCEPT ![r] = q]
  BY TypeOKParts DEF BookMeeting
<1> HIDE DEF q
<1> QED BY <1>2, <1>3 DEF BookMeeting, Submits, SameRows

\* looks at the table,
LEMMA BookLookShape ==
  ASSUME TypeOK, NEW r \in Reqs, BookLook(r)
  PROVE  Looks(r) \/ GivesUp(r)
<1>1. CASE Done(r)
  BY <1>1, DoneEnds DEF BookLook, GivesUp, SameRows
<1>2. CASE ~ Done(r)
  <2>1. req \in [Reqs -> Request] /\ RequestOK(req[r]) /\ req[r].op = "look"
    BY TypeOKParts DEF BookLook
  <2>2. PICK free \in BOOLEAN :
          free = \A b \in Busy : ~ Clash(Guard(req[r].config, req[r].start, req[r].dur), b)
    OBVIOUS
  <2> DEFINE q == [req[r] EXCEPT !.op = "check", !.free = free]
  <2>3. req' = [req EXCEPT ![r] = q]
    BY <1>2, <2>2 DEF BookLook
  <2>4. /\ q \in Request /\ q.op = "check" /\ q.id = req[r].id /\ q.start = req[r].start
        /\ q.dur = req[r].dur /\ q.config = req[r].config /\ q.known = req[r].known
        /\ q.free = free
    BY <2>1 DEF RequestOK, Request
  <2> HIDE DEF q
  <2>5. RequestOK(q)
    BY <2>1, <2>4 DEF RequestOK, OnRow
  <2>6. Keeps(r, "check") /\ req'[r].free = free
    BY <2>1, <2>3, <2>4, <2>5 DEF Keeps
  <2> QED BY <2>1, <2>2, <2>6 DEF BookLook, Looks, SameRows
<1> QED BY <1>1, <1>2

\* asks the calendar,
LEMMA BookCheckShape ==
  ASSUME TypeOK, NEW r \in Reqs, BookCheck(r)
  PROVE  Checks(r) \/ GivesUp(r)
<1>1. CASE Goes(r, "claim") /\ req[r].free
  BY <1>1, GoesKeeps DEF BookCheck, Checks, SameRows, OnRow
<1>2. CASE Done(r)
  BY <1>2, DoneEnds DEF BookCheck, GivesUp, SameRows
<1> QED BY <1>1, <1>2 DEF BookCheck

\* The row inserted carries what the request asked for.
LEMMA InsertShape ==
  ASSUME TypeOK, NEW r \in Reqs, NEW i \in Rows, req[r].op = "claim", Claimable(r), Insert(r, i),
         events' = events
  PROVE  Inserts(r, i)
<1>1. /\ req \in [Reqs -> Request] /\ RequestOK(req[r]) /\ rows \in [Rows -> Row]
  BY TypeOKParts
<1>2. rows[i].state = "none" /\ i \in Nat
  BY DEF Insert, Rows
<1> DEFINE w == [state |-> "held", start |-> req[r].start, dur |-> req[r].dur,
                 gap |-> req[r].config.gap, event |-> FALSE, avoids |-> req[r].known]
<1>3. /\ RowOK(w) /\ w \in Row /\ w.state = "held" /\ w.event = FALSE /\ w.start = req[r].start
      /\ w.dur = req[r].dur /\ w.gap = req[r].config.gap /\ w.avoids = req[r].known
  <2>1. /\ req[r].start \in Starts /\ req[r].start \in Nat /\ req[r].dur \in req[r].config.durations
        /\ req[r].config \in Configs /\ req[r].known \subseteq OwnTimes
    BY <1>1, TimesAssumption DEF RequestOK, Request
  <2>2. req[r].dur \in Durations /\ req[r].dur \in Nat /\ req[r].config.gap \in Gaps
        /\ req[r].config.gap \in Nat
    BY <2>1, OfferedTyped
  <2> QED BY <2>1, <2>2 DEF RowOK, Row
<1>4. rows' = [rows EXCEPT ![i] = w]
  BY DEF Insert
<1> HIDE DEF w
<1> QED BY <1>1, <1>2, <1>3, <1>4 DEF Inserts, Claimable

\* and claims the row, or is refused,
LEMMA ClaimBookingShape ==
  ASSUME TypeOK, NEW r \in Reqs, ClaimBooking(r)
  PROVE  (\E i \in Rows : Claims(r, i)) \/ GivesUp(r)
<1>1. CASE ~ Claimable(r)
  BY <1>1, DoneEnds DEF ClaimBooking, GivesUp, SameRows
<1>2. CASE Claimable(r)
  <2>1. PICK i \in Rows :
          /\ Insert(r, i)
          /\ req' = [req EXCEPT ![r] = [Idle EXCEPT !.op = "create", !.id = i]]
    BY <1>2 DEF ClaimBooking
  <2>2. req \in [Reqs -> Request] /\ Inserts(r, i) /\ excused' = excused
    BY <1>2, <2>1, TypeOKParts, InsertShape DEF ClaimBooking
  <2> DEFINE q == [Idle EXCEPT !.op = "create", !.id = i]
  <2>3. RequestOK(q) /\ q \in Request /\ q.op = "create" /\ q.id = i /\ q.known = {}
    <3>1. (CHOOSE c \in Configs : TRUE) \in Configs
      BY TimesAssumption
    <3> QED BY <3>1 DEF Idle, RequestOK, Request, OnRow
  <2>4. req' = [req EXCEPT ![r] = q]
    BY <2>1
  <2> HIDE DEF q
  <2> QED BY <2>2, <2>3, <2>4 DEF Claims
<1> QED BY <1>1, <1>2

\* or claims it and never learns so.
LEMMA ClaimIsLostShape ==
  ASSUME TypeOK, NEW r \in Reqs, ClaimIsLost(r)
  PROVE  \E i \in Rows : Loses(r, i)
<1>1. PICK i \in Rows : Insert(r, i) /\ Excuse(i)
  BY DEF ClaimIsLost
<1>2. Inserts(r, i) /\ Ends(r)
  BY <1>1, InsertShape, DoneEnds DEF ClaimIsLost
<1> QED BY <1>1, <1>2 DEF Loses

\* Then the event is made, or the row released,
LEMMA CreateEventShape ==
  ASSUME TypeOK, NEW r \in Reqs, CreateEvent(r)
  PROVE  Creates(r)
<1>1. ASSUME Goes(r, "attach") PROVE Keeps(r, "attach")
  BY <1>1, GoesKeeps DEF CreateEvent, OnRow
<1>2. ASSUME Goes(r, "release") PROVE Keeps(r, "release")
  BY <1>2, GoesKeeps DEF CreateEvent, OnRow
<1> QED BY <1>1, <1>2 DEF CreateEvent, Creates

\* attached to the row,
LEMMA AttachShape ==
  ASSUME TypeOK, NEW r \in Reqs, AttachBookingEvent(r)
  PROVE  Attaches(r)
<1>1. req[r].id \in Rows /\ Ends(r)
  BY TypeOKParts, DoneEnds DEF AttachBookingEvent, RequestOK, OnRow
<1>2. PICK event \in BOOLEAN : event = (rows[req[r].id].state # "deleted")
  OBVIOUS
<1>3. CASE rows' = [rows EXCEPT ![req[r].id].event = event]
  <2>1. Sets(req[r].id, rows[req[r].id].state, event)
    BY <1>1, <1>3, EventSets
  <2> QED BY <1>1, <1>2, <2>1 DEF AttachBookingEvent, Attaches
<1>4. CASE rows' # [rows EXCEPT ![req[r].id].event = event]
  BY <1>1, <1>2, <1>4 DEF AttachBookingEvent, Attaches
<1> QED BY <1>3, <1>4

\* and the row of a booking without an event is deleted.
LEMMA ReleaseShape ==
  ASSUME TypeOK, RowsExist, NEW r \in Reqs, ReleaseBooking(r)
  PROVE  Releases(r)
<1>1. req[r].id \in Rows /\ Ends(r) /\ rows[req[r].id].state # "none"
  BY TypeOKParts, DoneEnds DEF ReleaseBooking, RequestOK, OnRow, RowsExist
<1>2. CASE rows' = [rows EXCEPT ![req[r].id].state = "deleted"]
  <2>1. Sets(req[r].id, "deleted", rows[req[r].id].event)
    BY <1>1, <1>2, StateSets
  <2> QED BY <1>1, <2>1 DEF ReleaseBooking, Releases
<1>3. CASE rows' # [rows EXCEPT ![req[r].id].state = "deleted"]
  BY <1>1, <1>3 DEF ReleaseBooking, Releases
<1> QED BY <1>2, <1>3

\* A cancellation finds its row,
LEMMA CancelMeetingShape ==
  ASSUME TypeOK, NEW r \in Reqs, NEW i \in Rows, CancelMeeting(r, i)
  PROVE  Asks(r, i)
<1>1. req \in [Reqs -> Request] /\ RowOK(rows[i]) /\ rows[i].state = "held"
  BY TypeOKParts DEF CancelMeeting, Active
<1>2. PICK free \in BOOLEAN : free = rows[i].event
  BY <1>1 DEF RowOK, Row
<1> DEFINE q == [Idle EXCEPT !.op = "cancel", !.id = i, !.free = free]
<1>3. RequestOK(q) /\ q \in Request /\ q.op = "cancel" /\ q.id = i /\ q.known = {}
  <2>1. (CHOOSE c \in Configs : TRUE) \in Configs
    BY TimesAssumption
  <2> QED BY <2>1 DEF Idle, RequestOK, Request, OnRow
<1>4. req' = [req EXCEPT ![r] = q]
  BY <1>2 DEF CancelMeeting
<1> HIDE DEF q
<1> QED BY <1>1, <1>3, <1>4 DEF CancelMeeting, Asks, SameRows

\* marks it,
LEMMA CancelBookingShape ==
  ASSUME TypeOK, NEW r \in Reqs, CancelBooking(r)
  PROVE  Cancels(r) \/ Uncreates(r)
<1>1. req[r].id \in Rows /\ req[r].op = "cancel"
  BY TypeOKParts DEF CancelBooking, RequestOK, OnRow
<1>2. CASE req[r].id \in Active
  <2>1. rows[req[r].id].state = "held" /\ rows' = [rows EXCEPT ![req[r].id].state = "cancelled"]
    BY <1>2 DEF CancelBooking, Active
  <2>2. Sets(req[r].id, "cancelled", rows[req[r].id].event)
    BY <1>1, <2>1, StateSets
  <2>3. ASSUME Goes(r, "uncreate") PROVE Keeps(r, "uncreate")
    BY <1>1, <2>3, GoesKeeps DEF OnRow
  <2> QED BY <1>1, <1>2, <2>1, <2>2, <2>3, DoneEnds DEF CancelBooking, Cancels
<1>3. CASE req[r].id \notin Active
  BY <1>1, <1>3, DoneEnds DEF CancelBooking, Uncreates
<1> QED BY <1>2, <1>3

\* or fails to, and then its event stays,
LEMMA CancelFailsShape ==
  ASSUME TypeOK, NEW r \in Reqs, CancelFails(r)
  PROVE  Cancels(r) \/ Uncreates(r)
<1>1. req[r].id \in Rows /\ req[r].op = "cancel" /\ Ends(r)
  BY TypeOKParts, DoneEnds DEF CancelFails, RequestOK, OnRow
<1>2. CASE rows' = [rows EXCEPT ![req[r].id].state = "cancelled"] /\ req[r].id \in Active
            /\ Excuse(req[r].id)
  <2>1. Sets(req[r].id, "cancelled", rows[req[r].id].event) /\ rows[req[r].id].state = "held"
    BY <1>1, <1>2, StateSets DEF Active
  <2> QED BY <1>1, <1>2, <2>1 DEF CancelFails, Cancels
<1>3. CASE UNCHANGED <<rows, excused>>
  BY <1>1, <1>3 DEF CancelFails, Uncreates
<1> QED BY <1>2, <1>3 DEF CancelFails

\* and takes its event away.
LEMMA CancelEventShape ==
  ASSUME TypeOK, NEW r \in Reqs, CancelEvent(r)
  PROVE  Uncreates(r)
  BY DoneEnds DEF CancelEvent, Uncreates

\* A goroutine's step has the shape of its operation.
LEMMA RequestShape ==
  ASSUME TypeOK, RowsExist, NEW r \in Reqs,
         \/ \E t \in Starts, d \in Durations : BookMeeting(r, t, d)
         \/ \E i \in Rows : CancelMeeting(r, i)
         \/ Continue(r)
  PROVE  RequestStep(r)
<1>1. own' = own
  BY DEF BookMeeting, CancelMeeting, Continue, BookLook, BookCheck, ClaimBooking, ClaimIsLost, BookFails,
         CreateEvent, AttachBookingEvent, ReleaseBooking, CancelBooking, CancelFails, CancelEvent
<1>2. ASSUME BookFails(r) PROVE GivesUp(r)
  BY <1>2, DoneEnds DEF BookFails, GivesUp, SameRows
<1> QED
  BY <1>1, <1>2, BookMeetingShape, BookLookShape, BookCheckShape, ClaimBookingShape,
     ClaimIsLostShape, CreateEventShape, AttachShape, ReleaseShape, CancelMeetingShape,
     CancelBookingShape, CancelFailsShape, CancelEventShape DEF RequestStep, Continue

\* The owner, the settings and the calendar touch no row; a restart ends the goroutines.
LEMMA WorldShape ==
  ASSUME TypeOK, World
  PROVE  Restarts \/ OthersStep
<1>1. ASSUME Restart PROVE Restarts
  <2>1. \A r \in Reqs : req'[r] = Idle
    BY <1>1 DEF Restart
  <2>2. req' \in [Reqs -> Request]
    BY <1>1, IdleTyped DEF Restart, RequestOK
  <2> QED BY <1>1, <2>1, <2>2, IdleTyped DEF Restart, Restarts
<1> QED BY <1>1 DEF World, OthersStep, ConnectCalendar, DisconnectCalendar, Revoked, TokenLapses,
            offLink,
            SetSchedulerSettings, OwnerAdds, OwnerDeletes

\* What belongs to no goroutine: the link, the settings and the owner's own time.
LEMMA RestTyped ==
  ASSUME TypeOK, Next
  PROVE  LinkOK' /\ config' \in Configs /\ own' \subseteq OwnTimes
<1>1. LinkOK'
  <2>1. \/ CallWorks \/ CallFails \/ ConnectLink \/ DisconnectLink \/ RevokedLink
        \/ LapsedToken
        \/ Fault /\ UNCHANGED link
        \/ UNCHANGED linkVars
    BY DEF Next, World, Continue, BookMeeting, CancelMeeting, BookLook, BookCheck, ClaimBooking,
           ClaimIsLost, BookFails, CreateEvent, AttachBookingEvent, ReleaseBooking,
           CancelBooking, CancelFails, CancelEvent,
           ConnectCalendar, DisconnectCalendar, Revoked, TokenLapses, SetSchedulerSettings, OwnerAdds,
           OwnerDeletes, Restart, linkVars
  <2> QED BY <2>1, LinkTyped, TypeOKParts
<1>2. config' \in Configs /\ own' \subseteq OwnTimes
  BY TypeOKParts
     DEF Next, World, Continue, BookMeeting, CancelMeeting, BookLook, BookCheck, ClaimBooking,
         ClaimIsLost, BookFails, CreateEvent, AttachBookingEvent, ReleaseBooking,
         CancelBooking, CancelFails, CancelEvent,
         ConnectCalendar, DisconnectCalendar, Revoked, TokenLapses, SetSchedulerSettings, OwnerAdds,
         OwnerDeletes, Restart, offLink
<1> QED BY <1>1, <1>2

\* The shapes are all a proof about the bookings needs to know of a step.
LEMMA StepShape ==
  ASSUME TypeOK, RowsExist, Next
  PROVE  (\E r \in Reqs : RequestStep(r)) \/ Restarts \/ OthersStep
  BY RequestShape, WorldShape DEF Next

\* The goroutines and the rows stay typed.
LEMMA RequestTyped ==
  ASSUME TypeOK, RowsExist, NEW r \in Reqs, RequestStep(r)
  PROVE  /\ events' \subseteq Rows /\ excused' \subseteq Rows
         /\ rows' \in [Rows -> Row] /\ \A i \in Rows : RowOK(rows'[i])
         /\ req' \in [Reqs -> Request] /\ \A p \in Reqs : RequestOK(req'[p])
<1>1. /\ events \subseteq Rows /\ excused \subseteq Rows
      /\ rows \in [Rows -> Row] /\ \A i \in Rows : RowOK(rows[i])
      /\ req \in [Reqs -> Request] /\ \A p \in Reqs : RequestOK(req[p])
  BY TypeOKParts
<1>2. req[r].op \in OnRow => req[r].id \in Rows
  BY <1>1 DEF RequestOK
<1>3. CASE Submits(r) \/ Looks(r) \/ Checks(r) \/ GivesUp(r)
  BY <1>1, <1>3 DEF Submits, Looks, Checks, GivesUp, SameRows, Keeps, Ends
<1>4. CASE \E i \in Rows : Claims(r, i) \/ Loses(r, i) \/ Asks(r, i)
  BY <1>1, <1>4 DEF Claims, Loses, Inserts, Ends, Excuse, Asks, SameRows
<1>5. CASE Creates(r)
  BY <1>1, <1>2, <1>5 DEF Creates, Keeps, Excuse, OnRow
<1>6. CASE Attaches(r) \/ Releases(r) \/ Cancels(r)
  BY <1>1, <1>2, <1>6 DEF Attaches, Releases, Cancels, Keeps, Ends, Sets, Excuse, OnRow
<1>7. CASE Uncreates(r)
  BY <1>1, <1>2, <1>7 DEF Uncreates, Ends, Excuse, OnRow
<1> QED BY <1>3, <1>4, <1>5, <1>6, <1>7 DEF RequestStep

\* Every row a goroutine works on stays inserted: no operation takes one back.
LEMMA RequestRowsExist ==
  ASSUME TypeOK, RowsExist, NEW r \in Reqs, RequestStep(r)
  PROVE  RowsExist'
<1> SUFFICES ASSUME NEW p \in Reqs, req'[p].op \in OnRow
             PROVE  rows'[req'[p].id].state # "none"
  BY DEF RowsExist
<1>1. /\ \A q \in Reqs : RequestOK(req[q])
      /\ req[r].op \in OnRow => req[r].id \in Rows
      /\ \A q \in Reqs : req[q].op \in OnRow => rows[req[q].id].state # "none"
      /\ \A q \in Reqs : req[q].op \in OnRow => req[q].id \in Rows
  BY TypeOKParts DEF RowsExist, RequestOK
<1>2. CASE Submits(r) \/ Looks(r) \/ Checks(r) \/ GivesUp(r)
  BY <1>1, <1>2, IdleTyped DEF Submits, Looks, Checks, GivesUp, SameRows, Keeps, Ends, OnRow
<1>3. ASSUME NEW i \in Rows, Claims(r, i) \/ Loses(r, i) \/ Asks(r, i)
      PROVE  rows'[req'[p].id].state # "none"
  BY <1>1, <1>3, IdleTyped DEF Claims, Loses, Inserts, Ends, Asks, SameRows, OnRow
<1>4. CASE Creates(r)
  BY <1>1, <1>4 DEF Creates, Keeps, OnRow
<1>5. CASE Attaches(r) \/ Releases(r) \/ Cancels(r)
  BY <1>1, <1>5, IdleTyped DEF Attaches, Releases, Cancels, Keeps, Ends, Sets, OnRow
<1>6. CASE Uncreates(r)
  BY <1>1, <1>6, IdleTyped DEF Uncreates, Ends, OnRow
<1> QED BY <1>2, <1>3, <1>4, <1>5, <1>6 DEF RequestStep

\* Both are inductive together.
TypeInv == TypeOK /\ RowsExist

\* The type invariant, with RowsExist, is inductive.
LEMMA TypeInvStep == TypeInv /\ [Next]_vars => TypeInv'
<1> SUFFICES ASSUME TypeOK, RowsExist, [Next]_vars PROVE TypeOK' /\ RowsExist'
  BY DEF TypeInv
<1>1. CASE UNCHANGED vars
  BY <1>1 DEF vars, linkVars, TypeOK, LinkOK, RowsExist
<1>2. ASSUME Next PROVE TypeOK' /\ RowsExist'
  <2>1. LinkOK' /\ config' \in Configs /\ own' \subseteq OwnTimes
    BY <1>2, RestTyped
  <2>2. /\ events' \subseteq Rows /\ excused' \subseteq Rows
        /\ rows' \in [Rows -> Row] /\ \A i \in Rows : RowOK(rows'[i])
        /\ req' \in [Reqs -> Request] /\ \A p \in Reqs : RequestOK(req'[p])
        /\ RowsExist'
    <3>1. /\ events \subseteq Rows /\ excused \subseteq Rows
          /\ rows \in [Rows -> Row] /\ \A i \in Rows : RowOK(rows[i])
          /\ req \in [Reqs -> Request] /\ \A p \in Reqs : RequestOK(req[p])
      BY TypeOKParts
    <3>2. CASE \E r \in Reqs : RequestStep(r)
      BY <3>2, RequestTyped, RequestRowsExist
    <3>3. CASE Restarts
      BY <3>1, <3>3, IdleTyped DEF Restarts, RowsExist, RequestOK, OnRow
    <3>4. CASE OthersStep
      BY <3>1, <3>4 DEF OthersStep, RowsExist
    <3> QED BY <1>2, <3>2, <3>3, <3>4, StepShape
  <2> QED BY <2>1, <2>2 DEF TypeOK, RequestOK, RowOK
<1> QED BY <1>1, <1>2

\* It holds throughout.
LEMMA TypeInvAlways == Spec => []TypeInv
<1>1. Init => TypeInv
  BY InitTyped DEF TypeInv, RowsExist, Init, Idle, OnRow
<1> QED BY <1>1, TypeInvStep, PTL DEF Spec

\* Rows, goroutines and the calendar hold what their columns and fields admit, however
\* bookings, cancellations, restarts and the owner's own changes interleave.
THEOREM TypeCorrect == Spec => []TypeOK
<1>1. TypeInv => TypeOK
  BY DEF TypeInv
<1> QED BY <1>1, TypeInvAlways, PTL

-----------------------------------------------------------------------------
(* The bookings that hold time are a diary *)

\* The diary's entry of row i.
Entry(i) == [id |-> i, lo |-> Hold(i).lo, hi |-> Hold(i).hi]

\* One operator in both modules, which the provers know as two.
LEMMA SameClash ==
  ASSUME NEW a, NEW b
  PROVE  D!Clash(a, b) <=> Clash(a, b)
  BY DEF D!Clash, Clash

\* Two rows never make the same entry.
LEMMA EntryOfRow ==
  ASSUME NEW i, NEW j
  PROVE  Entry(i) = Entry(j) => i = j
<1>1. Entry(i).id = i /\ Entry(j).id = j
  BY DEF Entry
<1> QED BY <1>1

\* The diary has the entry of a row exactly when the row holds its time.
LEMMA EntryHeld ==
  ASSUME TypeOK, NEW i \in Active
  PROVE  Entry(i) \in Holds
<1>1. i \in Rows /\ RowOK(rows[i]) /\ rows[i].state # "none"
  BY TypeOKParts DEF Active
<1>2. rows[i].start \in Starts /\ rows[i].dur \in Durations /\ rows[i].gap \in Gaps
  BY <1>1 DEF RowOK
<1> QED BY <1>1, <1>2 DEF Entry, Holds, Hold, Held

\* An update of one row that leaves its times leaves every other entry, and, if the
\* row had a time and has it no longer, takes its entry from the diary.
LEMMA SetsDiary ==
  ASSUME TypeOK, NEW i \in Rows, NEW state, NEW event, Sets(i, state, event),
         \/ state = rows[i].state
         \/ state \in {"cancelled", "deleted"} /\ rows[i].state # "none"
  PROVE  [D!Next]_<<HeldTimes, CalledOff>>
<1>1. /\ \A j \in Rows : j # i => rows'[j] = rows[j]
      /\ rows'[i].state = state /\ Entry(i)' = Entry(i)
  BY DEF Sets, Entry, Hold, Held
<1>2. \A j \in Rows : Entry(j)' = Entry(j)
  <2> SUFFICES ASSUME NEW j \in Rows, j # i PROVE Entry(j)' = Entry(j)
    BY <1>1
  <2>1. rows'[j] = rows[j]
    BY <1>1
  <2> QED BY <2>1 DEF Entry, Hold, Held
<1>3. HeldTimes = {Entry(j) : j \in Active} /\ HeldTimes' = {Entry(j) : j \in Active'}
  <2>1. HeldTimes = {Entry(j) : j \in Active}
    BY DEF HeldTimes, Entry
  <2>2. HeldTimes' = {Entry(j)' : j \in Active'}
    BY DEF HeldTimes, Entry
  <2>3. \A j \in Active' : j \in Rows
    BY DEF Active
  <2> QED BY <1>2, <2>1, <2>2, <2>3
<1>4. CASE rows[i].state = "held" /\ state # "held"
  <2>1. Active' = Active \ {i} /\ i \in Active
    BY <1>1, <1>4 DEF Active
  <2>2. HeldTimes' = HeldTimes \ {Entry(i)} /\ Entry(i) \in HeldTimes
    BY <1>3, <2>1, EntryOfRow
  <2>3. CalledOff' = CalledOff \cup {Entry(i).id}
    BY <1>1, <1>4 DEF CalledOff, Entry
  <2> QED BY <2>2, <2>3 DEF D!Next, D!CallOff
<1>5. CASE ~ (rows[i].state = "held" /\ state # "held")
  <2>1. rows[i].state \in {"none", "held", "cancelled", "deleted"}
    BY TypeOKParts DEF RowOK, Row
  <2>2. Active' = Active /\ CalledOff' = CalledOff
    BY <1>1, <1>5, <2>1 DEF Active, CalledOff
  <2> QED BY <1>3, <2>2
<1> QED BY <1>4, <1>5

\* A claim is an agreement: its id is new, and the constraint has kept it apart.
LEMMA ClaimsDiary ==
  ASSUME TypeOK, NEW r \in Reqs, NEW i \in Rows, Inserts(r, i),
         TypeOK'
  PROVE  [D!Next]_<<HeldTimes, CalledOff>>
<1>1. /\ \A j \in Rows : j # i => rows'[j] = rows[j]
      /\ rows[i].state = "none" /\ rows'[i].state = "held"
      /\ rows'[i].start = req[r].start /\ rows'[i].dur = req[r].dur
      /\ rows'[i].gap = req[r].config.gap
      /\ NoOverlap(Held(req[r].start, req[r].dur, req[r].config.gap))
  BY DEF Inserts
<1> DEFINE a == [id |-> i, lo |-> rows'[i].start, hi |-> rows'[i].start + rows'[i].dur + rows'[i].gap]
<1>2. Active' = Active \cup {i} /\ i \notin Active /\ CalledOff' = CalledOff /\ i \notin CalledOff
  BY <1>1 DEF Active, CalledOff
<1>3. \A j \in Active : Entry(j)' = Entry(j)
  BY <1>1, <1>2 DEF Active, Entry, Hold, Held
<1>4. Entry(i)' = a /\ a \in Holds /\ a.id = i
  <2>1. Entry(i)' = a
    BY DEF Entry, Hold, Held
  <2>2. RowOK(rows'[i])
    BY DEF Inserts
  <2>3. rows'[i].start \in Starts /\ rows'[i].dur \in Durations /\ rows'[i].gap \in Gaps
    BY <1>1, <2>2 DEF RowOK
  <2> QED BY <2>1, <2>3 DEF Holds
<1>5. HeldTimes' = HeldTimes \cup {a}
  <2>1. HeldTimes = {Entry(j) : j \in Active} /\ HeldTimes' = {Entry(j)' : j \in Active'}
    BY DEF HeldTimes, Entry
  <2> HIDE DEF a
  <2> QED BY <1>2, <1>3, <1>4, <2>1
<1>6. \A b \in HeldTimes : a.id # b.id /\ ~ D!Clash(a, b)
  <2> SUFFICES ASSUME NEW j \in Active
               PROVE  a.id # Entry(j).id /\ ~ D!Clash(a, Entry(j))
    BY DEF HeldTimes, Entry
  <2>1. ~ Clash(Held(req[r].start, req[r].dur, req[r].config.gap), Hold(j))
    BY <1>1 DEF NoOverlap
  <2>2. ~ Clash(a, Entry(j))
    BY <1>1, <2>1 DEF Clash, Held, Hold, Entry
  <2> QED BY <1>2, <2>2, SameClash DEF Entry
<1> HIDE DEF a
<1>7. D!Agree(a)
  BY <1>2, <1>4, <1>5, <1>6 DEF D!Agree
<1> QED BY <1>4, <1>7 DEF D!Next

\* A step that leaves every row's state alone leaves the diary alone.
LEMMA SameRowsDiary ==
  ASSUME rows' = rows
  PROVE  UNCHANGED <<HeldTimes, CalledOff>>
  BY DEF HeldTimes, CalledOff, Active, Hold, Held

\* Every step is a claim, a release or a stutter of the diary.
LEMMA DiaryStep == TypeInv /\ TypeInv' /\ [Next]_vars => [D!Next]_<<HeldTimes, CalledOff>>
<1> SUFFICES ASSUME TypeOK, RowsExist, TypeOK', [Next]_vars
             PROVE  [D!Next]_<<HeldTimes, CalledOff>>
  BY DEF TypeInv
<1>1. CASE rows' = rows
  BY <1>1, SameRowsDiary
<1>2. CASE rows' # rows
  <2>1. PICK r \in Reqs : RequestStep(r)
    BY <1>2, StepShape DEF vars, Restarts, OthersStep
  <2>2. req[r].op \in OnRow => req[r].id \in Rows /\ rows[req[r].id].state # "none"
    BY TypeOKParts DEF RequestOK, RowsExist
  <2>3. CASE \E i \in Rows : Claims(r, i) \/ Loses(r, i)
    BY <2>3, ClaimsDiary DEF Claims, Loses
  <2>4. CASE Attaches(r)
    <3>1. req[r].id \in Rows /\ Sets(req[r].id, rows[req[r].id].state, rows[req[r].id].state # "deleted")
      BY <1>2, <2>2, <2>4 DEF Attaches, OnRow
    <3> QED BY <3>1, SetsDiary
  <2>5. CASE Releases(r)
    <3>1. /\ req[r].id \in Rows /\ rows[req[r].id].state # "none"
          /\ Sets(req[r].id, "deleted", rows[req[r].id].event)
      BY <1>2, <2>2, <2>5 DEF Releases, OnRow
    <3> QED BY <3>1, SetsDiary
  <2>6. CASE Cancels(r)
    <3>1. /\ req[r].id \in Rows /\ rows[req[r].id].state # "none"
          /\ Sets(req[r].id, "cancelled", rows[req[r].id].event)
      BY <2>2, <2>6 DEF Cancels, OnRow
    <3> QED BY <3>1, SetsDiary
  <2> QED BY <1>2, <2>1, <2>3, <2>4, <2>5, <2>6
          DEF RequestStep, Submits, Looks, Checks, GivesUp, SameRows, Asks, Creates, Uncreates
<1> QED BY <1>1, <1>2

\* Meetings implements Diary: however claims, releases and cancellations interleave,
\* the bookings that hold time are disjoint, their clearance included, keep their time
\* until they are called off, and are never revived (the exclusion constraint).
THEOREM ImplementsDiary == Spec => KeepsDiary
<1>1. Init => D!Init
  <2> SUFFICES ASSUME Init PROVE HeldTimes = {} /\ CalledOff = {}
    BY DEF D!Init
  <2>1. \A i \in Rows : rows[i].state = "none"
    BY DEF Init, NoRow
  <2> QED BY <2>1 DEF HeldTimes, CalledOff, Active
<1> QED BY <1>1, TypeInvAlways, DiaryStep, PTL DEF Spec, KeepsDiary, D!Spec

-----------------------------------------------------------------------------
(* The owner's own time *)

\* What a member's request knew when it was submitted, what its second look found of
\* it, and what the row keeps of it: the argument follows the interval from one to
\* the next, whatever the owner adds meanwhile.
Known == \A r \in Reqs : req[r].known \subseteq own
Looked ==
    \A r \in Reqs :
        (req[r].op = "check" /\ req[r].free) \/ req[r].op = "claim" =>
            \A o \in req[r].known : ~ Clash(Guard(req[r].config, req[r].start, req[r].dur), o)
Avoids ==
    \A i \in Rows : \A o \in rows[i].avoids :
        ~ Clash([lo |-> rows[i].start - rows[i].gap, hi |-> Hold(i).hi], o)

OwnInv == Known /\ Looked /\ Avoids

\* OwnInv holds at first, when nobody has looked.
LEMMA OwnInit == Init => OwnInv
<1> SUFFICES ASSUME Init PROVE OwnInv
  OBVIOUS
<1>1. \A r \in Reqs : req[r] = Idle /\ Idle.op = "idle" /\ Idle.known = {}
  BY DEF Init, Idle
<1>2. \A i \in Rows : rows[i].avoids = {}
  BY DEF Init, NoRow
<1> QED BY <1>1, <1>2 DEF OwnInv, Known, Looked, Avoids

\* What a goroutine knows was in the calendar when it looked.
LEMMA KnownStep ==
  ASSUME TypeOK, Known, NEW r \in Reqs, RequestStep(r)
  PROVE  Known'
<1>1. own' = own /\ Idle.known = {}
  BY DEF RequestStep, Idle
<1> SUFFICES ASSUME NEW p \in Reqs PROVE req'[p].known \subseteq own
  BY <1>1 DEF Known
<1>2. req[p].known \subseteq own /\ req[r].known \subseteq own
  BY DEF Known
<1>3. CASE Submits(r) \/ Looks(r) \/ Checks(r) \/ GivesUp(r)
  BY <1>1, <1>2, <1>3 DEF Submits, Looks, Checks, GivesUp, Keeps, Ends
<1>4. CASE \E i \in Rows : Claims(r, i) \/ Loses(r, i) \/ Asks(r, i)
  BY <1>1, <1>2, <1>4 DEF Claims, Loses, Ends, Asks
<1>5. CASE Creates(r) \/ Attaches(r) \/ Releases(r) \/ Cancels(r) \/ Uncreates(r)
  BY <1>1, <1>2, <1>5 DEF Creates, Attaches, Releases, Cancels, Uncreates, Keeps, Ends
<1> QED BY <1>3, <1>4, <1>5 DEF RequestStep

\* The second look covers what was known: that is all on the calendar still.
LEMMA LookedStep ==
  ASSUME TypeOK, Known, Looked, NEW r \in Reqs, RequestStep(r)
  PROVE  Looked'
<1> SUFFICES ASSUME NEW p \in Reqs, (req'[p].op = "check" /\ req'[p].free) \/ req'[p].op = "claim"
             PROVE  \A o \in req'[p].known :
                       ~ Clash(Guard(req'[p].config, req'[p].start, req'[p].dur), o)
  BY DEF Looked
<1>1. CASE p # r
  <2>1. req'[p] = req[p]
    BY <1>1 DEF RequestStep, Submits, Looks, Checks, GivesUp, Claims, Loses, Asks, Creates, Attaches,
                Releases, Cancels, Uncreates, Keeps, Ends
  <2> QED BY <2>1 DEF Looked
<1>2. CASE p = r
  <2>1. req'[r].op # "idle" => ~ Ends(r)
    BY IdleTyped DEF Ends
  <2>2. CASE Looks(r)
    <3>1. /\ req'[r].config = req[r].config /\ req'[r].start = req[r].start
          /\ req'[r].dur = req[r].dur /\ req'[r].known = req[r].known /\ req'[r].op = "check"
      BY <2>2 DEF Looks, Keeps
    <3>2. \A b \in Busy : ~ Clash(Guard(req[r].config, req[r].start, req[r].dur), b)
      BY <1>2, <2>2, <3>1 DEF Looks
    <3> QED BY <1>2, <3>1, <3>2 DEF Known, Busy
  <2>3. CASE Checks(r)
    <3>1. /\ req'[r].config = req[r].config /\ req'[r].start = req[r].start
          /\ req'[r].dur = req[r].dur /\ req'[r].known = req[r].known
          /\ req[r].op = "check" /\ req[r].free
      BY <2>3 DEF Checks, Keeps
    <3> QED BY <1>2, <3>1 DEF Looked
  <2>4. CASE ~ Looks(r) /\ ~ Checks(r)
    BY <1>2, <2>1, <2>4 DEF RequestStep, Submits, GivesUp, Claims, Loses, Asks, Creates, Attaches,
                            Releases, Cancels, Uncreates, Keeps
  <2> QED BY <2>2, <2>3, <2>4
<1> QED BY <1>1, <1>2

\* What a row avoids is what its maker knew.
LEMMA AvoidsStep ==
  ASSUME TypeOK, Looked, Avoids, NEW r \in Reqs, RequestStep(r)
  PROVE  Avoids'
<1> SUFFICES ASSUME NEW j \in Rows
             PROVE  \A o \in rows'[j].avoids :
                       ~ Clash([lo |-> rows'[j].start - rows'[j].gap, hi |-> Hold(j)'.hi], o)
  BY DEF Avoids
<1>1. CASE \E i \in Rows : Inserts(r, i)
  <2>1. PICK i \in Rows : Inserts(r, i)
    BY <1>1
  <2>2. CASE j = i
    <3>1. /\ rows'[j].start = req[r].start /\ rows'[j].dur = req[r].dur
          /\ rows'[j].gap = req[r].config.gap /\ rows'[j].avoids = req[r].known
          /\ req[r].op = "claim"
      BY <2>1, <2>2 DEF Inserts
    <3>2. \A o \in req[r].known : ~ Clash(Guard(req[r].config, req[r].start, req[r].dur), o)
      BY <3>1 DEF Looked
    <3> QED BY <3>1, <3>2 DEF Guard, Hold, Held
  <2>3. CASE j # i
    <3>1. rows'[j] = rows[j]
      BY <2>1, <2>3 DEF Inserts
    <3> QED BY <3>1 DEF Avoids, Hold, Held
  <2> QED BY <2>2, <2>3
<1>2. CASE ~ \E i \in Rows : Inserts(r, i)
  <2>1. /\ rows'[j].start = rows[j].start /\ rows'[j].dur = rows[j].dur
        /\ rows'[j].gap = rows[j].gap /\ rows'[j].avoids = rows[j].avoids
    BY <1>2 DEF RequestStep, Submits, Looks, Checks, GivesUp, SameRows, Claims, Loses, Asks,
                Creates, Attaches, Releases, Cancels, Uncreates, Sets
  <2> QED BY <2>1 DEF Avoids, Hold, Held
<1> QED BY <1>1, <1>2

\* OwnInv is inductive.
LEMMA OwnInvStep == TypeInv /\ OwnInv /\ [Next]_vars => OwnInv'
<1> SUFFICES ASSUME TypeOK, RowsExist, OwnInv, [Next]_vars PROVE OwnInv'
  BY DEF TypeInv
<1>1. CASE \E r \in Reqs : RequestStep(r)
  BY <1>1, KnownStep, LookedStep, AvoidsStep DEF OwnInv
<1>2. CASE Restarts
  <2>1. /\ \A r \in Reqs : req'[r].op = "idle" /\ req'[r].known = {}
        /\ rows' = rows /\ own' = own
    BY <1>2, IdleTyped DEF Restarts, Idle
  <2> QED BY <2>1 DEF OwnInv, Known, Looked, Avoids, Hold, Held
<1>3. CASE OthersStep \/ UNCHANGED vars
  <2>1. req' = req /\ rows' = rows /\ own \subseteq own'
    BY <1>3 DEF OthersStep, vars
  <2> QED BY <2>1 DEF OwnInv, Known, Looked, Avoids, Hold, Held
<1> QED BY <1>1, <1>2, <1>3, StepShape

\* An appointment the owner already had when a member submitted is never booked over,
\* nor closer to than the clearance in force at that moment: the second look reads it
\* off the calendar, and the check and the claim carry the same interval (Book).
THEOREM OwnersTimeHolds == Spec => []OwnersTimeRespected
<1>1. TypeInv /\ OwnInv => OwnersTimeRespected
  BY DEF TypeInv, TypeOK, OwnInv, Avoids, OwnersTimeRespected
<1> QED BY <1>1, OwnInit, OwnInvStep, TypeInvAlways, PTL DEF Spec

-----------------------------------------------------------------------------
(* Events without a booking *)

Making == {"create", "attach", "release"}

\* A row is made by one goroutine, the one that inserted it ...
MakersDiffer ==
    \A p, q \in Reqs :
        p # q /\ req[p].op \in Making /\ req[q].op \in Making => req[p].id # req[q].id

\* ... which knows what there is of the row so far: no event id is stored, and
\* a cancellation that comes before it can only excuse what it makes.
MakersKnow ==
    \A r \in Reqs : req[r].op \in Making =>
        LET i == req[r].id IN
        /\ ~ rows[i].event
        /\ req[r].op = "create" => i \notin events
        /\ req[r].op \in {"create", "attach"} => rows[i].state = "held" \/ i \in excused
        /\ req[r].op = "release" => i \notin events \/ i \in excused

EventsExist == \A i \in events : rows[i].state # "none"

EventInv == MakersDiffer /\ MakersKnow /\ EventsExist /\ StaleEventsExplained

\* No event, no maker.
LEMMA EventInit == Init => EventInv
<1> SUFFICES ASSUME Init PROVE EventInv
  OBVIOUS
<1>1. \A r \in Reqs : req[r].op = "idle"
  BY DEF Init, Idle
<1> QED BY <1>1 DEF Init, EventInv, MakersDiffer, MakersKnow, EventsExist, StaleEventsExplained,
                    Making

\* What a step of goroutine r leaves of the others.
LEMMA OthersKept ==
  ASSUME NEW r \in Reqs, RequestStep(r), NEW p \in Reqs, p # r
  PROVE  req'[p] = req[p]
  BY DEF RequestStep, Submits, Looks, Checks, GivesUp, Claims, Loses, Asks, Creates, Attaches,
         Releases, Cancels, Uncreates, Keeps, Ends

\* A goroutine becomes a maker by its own claim only, of the row it inserts.
LEMMA NewMaker ==
  ASSUME NEW r \in Reqs, RequestStep(r), req'[r].op \in Making
  PROVE  \/ req[r].op \in Making /\ req'[r].id = req[r].id
         \/ \E i \in Rows : Claims(r, i) /\ req'[r].id = i
  BY IdleTyped DEF RequestStep, Submits, Looks, Checks, GivesUp, Claims, Loses, Asks, Creates,
                   Attaches, Releases, Cancels, Uncreates, Keeps, Ends, Making

\* Two goroutines never make the event of one row.
LEMMA MakersDifferStep ==
  ASSUME TypeInv, MakersDiffer, NEW r \in Reqs, RequestStep(r)
  PROVE  MakersDiffer'
<1>1. ASSUME NEW p \in Reqs, p # r, req[p].op \in Making, req'[r].op \in Making
      PROVE  req[p].id # req'[r].id
  <2>1. rows[req[p].id].state # "none"
    BY <1>1 DEF TypeInv, RowsExist, OnRow, Making
  <2>2. CASE \E i \in Rows : Claims(r, i) /\ req'[r].id = i
    BY <2>1, <2>2 DEF Claims, Inserts
  <2>3. CASE req[r].op \in Making /\ req'[r].id = req[r].id
    BY <1>1, <2>3 DEF MakersDiffer
  <2> QED BY <1>1, <2>2, <2>3, NewMaker
<1>2. \A p \in Reqs : p # r => req'[p] = req[p]
  BY OthersKept
<1> QED BY <1>1, <1>2 DEF MakersDiffer

\* Events are made for rows, and rows are never forgotten.
LEMMA EventsExistStep ==
  ASSUME TypeInv, EventsExist, NEW r \in Reqs, RequestStep(r)
  PROVE  EventsExist'
<1> SUFFICES ASSUME NEW i \in events' PROVE rows'[i].state # "none"
  BY DEF EventsExist
<1>1. /\ i \in Rows /\ TypeOK /\ RowsExist
      /\ req[r].op \in OnRow => req[r].id \in Rows
  BY RequestTyped, TypeOKParts DEF TypeInv, RequestOK
<1>2. rows[i].state # "none"
  BY <1>1 DEF EventsExist, RowsExist, OnRow, RequestStep, Submits, Looks, Checks, GivesUp, SameRows,
              Claims, Loses, Inserts, Asks, Creates, Attaches, Releases, Cancels, Uncreates
<1> QED BY <1>1, <1>2 DEF RequestStep, Submits, Looks, Checks, GivesUp, SameRows, Claims,
                          Loses, Inserts, Asks,
                          Creates, Attaches, Releases, Cancels, Uncreates, Sets, OnRow

\* What MakersKnow says of one goroutine.
KnownOf(q, table, calendar, history) ==
    q.op \in Making =>
        /\ ~ table[q.id].event
        /\ q.op = "create" => q.id \notin calendar
        /\ q.op \in {"create", "attach"} => table[q.id].state = "held" \/ q.id \in history
        /\ q.op = "release" => q.id \notin calendar \/ q.id \in history

\* The maker's own step: it has inserted the row, or made the event, or not.
LEMMA MakerStep ==
  ASSUME TypeInv, MakersKnow, EventsExist, NEW r \in Reqs, RequestStep(r), req'[r].op \in Making
  PROVE  KnownOf(req'[r], rows', events', excused')
<1>1. CASE \E i \in Rows : Claims(r, i) /\ req'[r].id = i
  BY <1>1 DEF Claims, Inserts, EventsExist, KnownOf
<1>2. CASE req[r].op \in Making /\ req'[r].id = req[r].id
  <2>1. Creates(r)
    BY <1>2, IdleTyped DEF RequestStep, Submits, Looks, Checks, GivesUp, Claims, Loses, Inserts, Asks,
                           Attaches, Releases, Cancels, Uncreates, Ends, Making
  <2>2. KnownOf(req[r], rows, events, excused)
    BY <1>2, <2>1 DEF MakersKnow, KnownOf, Creates
  <2> QED BY <1>2, <2>1, <2>2 DEF Creates, Keeps, KnownOf, Excuse
<1> QED BY <1>1, <1>2, NewMaker

\* Another goroutine's step: of this row it can only be a cancellation.
LEMMA OtherMakerStep ==
  ASSUME TypeInv, MakersDiffer, MakersKnow, NEW r \in Reqs, RequestStep(r),
         NEW p \in Reqs, p # r, req[p].op \in Making
  PROVE  KnownOf(req'[p], rows', events', excused')
<1>1. /\ KnownOf(req[p], rows, events, excused) /\ req'[p] = req[p] /\ req[p].id \in Rows
      /\ rows[req[p].id].state # "none"
      /\ req[r].op \in Making => req[p].id # req[r].id
      /\ req[r].op \in OnRow => req[r].id \in Rows
  BY OthersKept, TypeOKParts
     DEF TypeInv, RowsExist, MakersDiffer, MakersKnow, KnownOf, RequestOK, OnRow, Making
<1>2. CASE Submits(r) \/ Looks(r) \/ Checks(r) \/ GivesUp(r) \/ \E i \in Rows : Asks(r, i)
  BY <1>1, <1>2 DEF Submits, Looks, Checks, GivesUp, SameRows, Asks, KnownOf
<1>3. CASE \E i \in Rows : Claims(r, i) \/ Loses(r, i)
  BY <1>1, <1>3 DEF Claims, Loses, Inserts, Excuse, KnownOf
<1>4. CASE Creates(r)
  BY <1>1, <1>4 DEF Creates, KnownOf, Excuse, Making
<1>5. CASE Attaches(r) \/ Releases(r)
  BY <1>1, <1>5 DEF Attaches, Releases, Sets, KnownOf, Excuse, Making, OnRow
<1>6. CASE Cancels(r) \/ Uncreates(r)
  BY <1>1, <1>6 DEF Cancels, Uncreates, Sets, KnownOf, Excuse, OnRow
<1> QED BY <1>2, <1>3, <1>4, <1>5, <1>6 DEF RequestStep

\* A goroutine that is making an event knows its row.
LEMMA MakersKnowStep ==
  ASSUME TypeInv, MakersDiffer, MakersKnow, EventsExist, NEW r \in Reqs, RequestStep(r)
  PROVE  MakersKnow'
<1>1. \A p \in Reqs : KnownOf(req'[p], rows', events', excused')
  <2> SUFFICES ASSUME NEW p \in Reqs PROVE KnownOf(req'[p], rows', events', excused')
    OBVIOUS
  <2>1. CASE p = r
    BY <2>1, MakerStep DEF KnownOf
  <2>2. CASE p # r
    <3>1. req'[p] = req[p]
      BY <2>2, OthersKept
    <3> QED BY <2>2, <3>1, OtherMakerStep DEF KnownOf
  <2> QED BY <2>1, <2>2
<1> QED BY <1>1 DEF MakersKnow, KnownOf

\* An event outlives its row only by a recorded failure.
LEMMA StaleEventsStep ==
  ASSUME TypeInv, MakersKnow, EventsExist, StaleEventsExplained, NEW r \in Reqs, RequestStep(r)
  PROVE  StaleEventsExplained'
<1> SUFFICES ASSUME NEW i \in events'
             PROVE  \/ rows'[i].state = "held"
                    \/ i \in excused'
                    \/ \E p \in Reqs : req'[p].id = i /\ req'[p].op \in {"uncreate", "release"}
  BY DEF StaleEventsExplained
<1>1. /\ i \in Rows /\ \A p \in Reqs : p # r => req'[p] = req[p]
      /\ req[r].op \in OnRow => req[r].id \in Rows
  BY RequestTyped, OthersKept, TypeOKParts DEF TypeInv, RequestOK
<1>2. i \in events => \/ rows[i].state = "held" \/ i \in excused
                      \/ \E p \in Reqs : req[p].id = i /\ req[p].op \in {"uncreate", "release"}
  BY DEF StaleEventsExplained
<1>3. CASE Submits(r) \/ Looks(r) \/ Checks(r) \/ GivesUp(r) \/ \E j \in Rows : Asks(r, j)
  <2>1. req[r].op \notin {"uncreate", "release"} /\ SameRows
    BY <1>3 DEF Submits, Looks, Checks, GivesUp, Asks
  <2> QED BY <1>1, <1>2, <2>1 DEF SameRows
<1>4. CASE \E j \in Rows : Claims(r, j) \/ Loses(r, j)
  BY <1>1, <1>2, <1>4 DEF Claims, Loses, Inserts, Excuse
<1>5. CASE Creates(r)
  <2>1. rows[req[r].id].state = "held" \/ req[r].id \in excused
    BY <1>5 DEF Creates, MakersKnow, Making
  <2> QED BY <1>1, <1>2, <1>5, <2>1 DEF Creates, Excuse
<1>6. CASE Attaches(r)
  BY <1>1, <1>2, <1>6 DEF Attaches, Sets, Excuse, OnRow
<1>7. CASE Releases(r)
  <2>1. req[r].id \notin events \/ req[r].id \in excused
    BY <1>7 DEF Releases, MakersKnow, Making
  <2> QED BY <1>1, <1>2, <1>7, <2>1 DEF Releases, Sets, Excuse, OnRow
<1>8. CASE Cancels(r)
  BY <1>1, <1>2, <1>8 DEF Cancels, Sets, Keeps, Excuse, OnRow
<1>9. CASE Uncreates(r)
  BY <1>1, <1>2, <1>9 DEF Uncreates, Excuse
<1> QED BY <1>3, <1>4, <1>5, <1>6, <1>7, <1>8, <1>9 DEF RequestStep

\* EventInv is inductive.
LEMMA EventInvStep == TypeInv /\ EventInv /\ [Next]_vars => EventInv'
<1> SUFFICES ASSUME TypeInv, EventInv, [Next]_vars PROVE EventInv'
  OBVIOUS
<1>1. CASE \E r \in Reqs : RequestStep(r)
  BY <1>1, MakersDifferStep, MakersKnowStep, EventsExistStep, StaleEventsStep DEF EventInv
<1>2. CASE Restarts
  <2>1. /\ \A r \in Reqs : req'[r].op = "idle"
        /\ rows' = rows /\ events' = events /\ excused \subseteq excused'
    BY <1>2, IdleTyped DEF Restarts
  <2>2. \A r \in Reqs : req[r].op \in {"uncreate", "release"} => req[r].id \in excused'
    BY <1>2 DEF Restarts
  <2> QED BY <2>1, <2>2 DEF EventInv, MakersDiffer, MakersKnow, EventsExist, StaleEventsExplained,
                            Making
<1>3. CASE OthersStep \/ UNCHANGED vars
  <2>1. req' = req /\ rows' = rows /\ excused' = excused /\ events' \subseteq events
    BY <1>3 DEF OthersStep, vars
  <2> QED BY <2>1 DEF EventInv, MakersDiffer, MakersKnow, EventsExist, StaleEventsExplained
<1> QED BY <1>1, <1>2, <1>3, StepShape DEF TypeInv

\* An event whose booking no longer holds time is being removed, or a failure or a
\* cancellation that came before the event explains it: a cancellation reads the event
\* id of the row it updates, and a release follows only an event that was not made
\* (CancelBooking's RETURNING, Service.Book).
THEOREM StaleEventsAreExplained == Spec => []StaleEventsExplained
<1>1. EventInv => StaleEventsExplained
  BY DEF EventInv
<1> QED BY <1>1, EventInit, EventInvStep, TypeInvAlways, PTL DEF Spec

-----------------------------------------------------------------------------
(* What the page offers *)

\* The screen's test of a slot, the guard around the candidate against bare bookings,
\* is at least as strict as the constraint's, clearance after both.
THEOREM OffersAreHonest == Spec => []OfferedCanBeClaimed
<1>1. TypeOK => OfferedCanBeClaimed
  <2> SUFFICES ASSUME TypeOK, \A i \in Active : rows[i].gap <= config.gap,
                      NEW d \in config.durations, NEW t \in Slots(config, d), NEW i \in Active
               PROVE  ~ Clash(Held(t, d, config.gap), Hold(i))
    BY DEF OfferedCanBeClaimed, NoOverlap
  <2>1. /\ t \in Nat /\ d \in Nat /\ config.gap \in Nat
        /\ rows[i].start \in Nat /\ rows[i].dur \in Nat /\ rows[i].gap \in Nat
    BY TypeOKParts, TimesAssumption, OfferedTyped DEF Slots, Active, RowOK, Row
  <2>2. ~ Clash(Guard(config, t, d), Span(i)) /\ rows[i].gap <= config.gap
    BY DEF Slots, StillFree
  <2> QED BY <2>1, <2>2 DEF Clash, Guard, Span, Meeting, Held, Hold
<1> QED BY <1>1, TypeCorrect, PTL
=============================================================================
