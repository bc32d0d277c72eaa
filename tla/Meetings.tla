------------------------------ MODULE Meetings ------------------------------
(***************************************************************************)
(* Booking a meeting on the owner's calendar, and calling one off.         *)
(*                                                                         *)
(* A booking looks at the calendar a second time, reads the bookings,      *)
(* claims the interval in the database, creates the event and records its  *)
(* id; each is a statement or a call of its own, and everything else may   *)
(* happen in between.  Time is counted in steps of the slot grid, on one   *)
(* bookable day.                                                           *)
(***************************************************************************)
EXTENDS CalendarLink, FiniteSets

CONSTANTS
    Reqs,           \* request goroutines
    MaxRows,        \* bound: the meeting_bookings rows ever inserted
    Starts,         \* the start times members ask for
    Configs,        \* the scheduler settings the owner may save
    OwnTimes        \* the owner's own appointments

ASSUME RowsAssumption == MaxRows \in Nat
ASSUME TimesAssumption ==
    /\ Starts \subseteq Nat
    /\ OwnTimes \subseteq [lo : Nat, hi : Nat]
    /\ Configs # {}
    /\ \A c \in Configs : /\ c.durations \subseteq Nat \ {0} /\ c.gap \in Nat
                          /\ c.windows \subseteq [lo : Nat, hi : Nat]
                          /\ c.perDay \in Nat \ {0}

VARIABLES
    own,        \* the owner's own appointments on the calendar
    events,     \* the bookings with an event on the calendar
    config,     \* the settings in force
    rows,       \* meeting_bookings
    excused,    \* history: bookings the calendar may keep an event or a hold of
    req         \* the request goroutines

vars == <<linkVars, own, events, config, rows, excused, req>>

Rows      == 1..MaxRows
Durations == UNION {c.durations : c \in Configs}
Gaps      == {c.gap : c \in Configs}
Row       == [state : {"none", "held", "cancelled", "deleted"}, start : Nat, dur : Nat,
              gap : Nat, event : BOOLEAN, avoids : SUBSET OwnTimes]
Request   == [op : {"idle", "look", "check", "claim", "create", "attach", "release",
                    "cancel", "uncreate"},
              id : Rows \cup {0}, start : Nat, dur : Nat, config : Configs,
              free : BOOLEAN, known : SUBSET OwnTimes]

NoRow == [state |-> "none", start |-> 0, dur |-> 0, gap |-> 0, event |-> FALSE,
          avoids |-> {}]
Idle  == [op |-> "idle", id |-> 0, start |-> 0, dur |-> 0,
          config |-> CHOOSE c \in Configs : TRUE, free |-> FALSE, known |-> {}]

OnRow == {"create", "attach", "release", "cancel", "uncreate"}

\* Rows, goroutines and the calendar hold what their columns and fields admit.
TypeOK ==
    /\ LinkOK
    /\ own \subseteq OwnTimes /\ events \subseteq Rows /\ excused \subseteq Rows
    /\ config \in Configs
    /\ rows \in [Rows -> Row]
    /\ req \in [Reqs -> Request]
    /\ \A r \in Reqs : /\ req[r].op \in {"look", "check", "claim"} =>
                             req[r].start \in Starts /\ req[r].dur \in req[r].config.durations
                       /\ req[r].op \in OnRow => req[r].id \in Rows
    /\ \A i \in Rows : rows[i].state # "none" =>
                           /\ rows[i].start \in Starts /\ rows[i].dur \in Durations
                           /\ rows[i].gap \in Gaps

Init ==
    /\ LinkInit
    /\ own = {} /\ events = {} /\ excused = {}
    /\ config \in Configs
    /\ rows = [i \in Rows |-> NoRow]
    /\ req  = [r \in Reqs |-> Idle]

-----------------------------------------------------------------------------
(* Slot arithmetic *)

Clash(a, b) == a.lo < b.hi /\ b.lo < a.hi

Meeting(t, d) == [lo |-> t, hi |-> t + d]

\* Mutant: clearance is kept after the candidate only.
GuardAfter(c, t, d) == [lo |-> t, hi |-> t + d + c.gap]

\* The candidate with its clearance on both sides.
Guard(c, t, d) == [lo |-> t - c.gap, hi |-> t + d + c.gap]

\* held, set by a trigger: the meeting and the clearance after it.
Held(t, d, gap) == [lo |-> t, hi |-> t + d + gap]

Active  == {i \in Rows : rows[i].state = "held"}
Span(i) == Meeting(rows[i].start, rows[i].dur)
Hold(i) == Held(rows[i].start, rows[i].dur, rows[i].gap)

\* What free/busy answers: the owner's appointments and the events made here.
Busy == own \cup {Span(i) : i \in events}

WithinWindow(c, t, d) == \E w \in c.windows : w.lo <= t /\ t + d <= w.hi

\* Bookings are compared without their clearance: the guard carries it.
StillFree(c, t, d, busy, booked) ==
    /\ WithinWindow(c, t, d)
    /\ \A b \in busy \cup booked : ~ Clash(Guard(c, t, d), b)

\* The starts a member is shown for a meeting of length d.
Slots(c, d) ==
    {t \in Starts : /\ Cardinality(Active) < c.perDay
                    /\ StillFree(c, t, d, Busy, {Span(i) : i \in Active})}

-----------------------------------------------------------------------------
(* BookMeeting *)

Done(r) == req' = [req EXCEPT ![r] = Idle]
Goes(r, op) == req' = [req EXCEPT ![r].op = op]
Excuse(i)   == excused' = excused \cup {i}

\* A length that is not offered is refused before anything else.
BookMeeting(r, t, d) ==
    /\ req[r].op = "idle" /\ d \in config.durations
    /\ req' = [req EXCEPT ![r] = [op |-> "look", id |-> 0, start |-> t, dur |-> d,
                                  config |-> config, free |-> FALSE, known |-> own]]
    /\ UNCHANGED <<linkVars, own, events, config, rows, excused>>

\* The second look at the calendar, for this interval.
BookLook(r) ==
    /\ req[r].op = "look"
    /\ LET guard == Guard(req[r].config, req[r].start, req[r].dur)
       IN  \/ /\ CallWorks
              /\ req' = [req EXCEPT ![r].op = "check",
                                    ![r].free = \A b \in Busy : ~ Clash(guard, b)]
           \/ CallFails /\ Done(r)
    /\ UNCHANGED <<own, events, config, rows, excused>>

\* Mutant: what the second look found is not used.
BookCheckUnlooked(r) ==
    /\ req[r].op = "check"
    /\ IF StillFree(req[r].config, req[r].start, req[r].dur, {}, {Span(i) : i \in Active})
       THEN Goes(r, "claim") ELSE Done(r)
    /\ UNCHANGED <<linkVars, own, events, config, rows, excused>>

BookCheck(r) ==
    /\ req[r].op = "check"
    /\ IF /\ req[r].free
          /\ StillFree(req[r].config, req[r].start, req[r].dur, {}, {Span(i) : i \in Active})
       THEN Goes(r, "claim") ELSE Done(r)
    /\ UNCHANGED <<linkVars, own, events, config, rows, excused>>

\* Mutant: the insert succeeds whatever is held.
NoOverlapUnchecked(held) == held.lo < held.hi

\* The exclusion constraint over the rows that are not cancelled.
NoOverlap(held) == \A i \in Active : ~ Clash(held, Hold(i))

\* The interval goroutine r asks for is free, by the constraint.
Claimable(r) == NoOverlap(Held(req[r].start, req[r].dur, req[r].config.gap))

\* INSERT, which gives the row the next id.
Insert(r, i) ==
    LET q == req[r] IN
    /\ \A j \in Rows : rows[j].state = "none" <=> j >= i
    /\ rows' = [rows EXCEPT ![i] =
                  [state |-> "held", start |-> q.start, dur |-> q.dur,
                   gap |-> q.config.gap, event |-> FALSE, avoids |-> q.known]]

\* Mutant: the id of the claimed row is not kept.
ClaimWithoutId(r) ==
    /\ req[r].op = "claim"
    /\ IF Claimable(r)
       THEN (\E i \in Rows : Insert(r, i)) /\ Goes(r, "create")
       ELSE Done(r) /\ UNCHANGED rows
    /\ UNCHANGED <<linkVars, own, events, config, excused>>

\* The claim, or the answer that the time was just taken.
ClaimBooking(r) ==
    /\ req[r].op = "claim"
    /\ IF Claimable(r)
       THEN \E i \in Rows :
               /\ Insert(r, i)
               /\ req' = [req EXCEPT ![r] = [Idle EXCEPT !.op = "create", !.id = i]]
       ELSE Done(r) /\ UNCHANGED rows
    /\ UNCHANGED <<linkVars, own, events, config, excused>>

\* The row is inserted and the answer lost: the request ends in an error, and
\* nobody knows the id by which the hold could be released.
ClaimIsLost(r) ==
    /\ req[r].op = "claim" /\ Claimable(r) /\ Fault
    /\ \E i \in Rows : Insert(r, i) /\ Excuse(i)
    /\ Done(r)
    /\ UNCHANGED <<link, own, events, config>>

\* A statement up to the claim fails: the member is told, nothing was written.
BookFails(r) ==
    /\ req[r].op \in {"check", "claim"} /\ Fault
    /\ Done(r)
    /\ UNCHANGED <<link, own, events, config, rows, excused>>

\* The event exists and its id arrives; or it exists and the answer is lost; or
\* it was never made.
CreateEvent(r) ==
    LET i == req[r].id IN
    /\ req[r].op = "create"
    /\ \/ CallWorks /\ events' = events \cup {i} /\ Goes(r, "attach") /\ UNCHANGED excused
       \/ /\ Accepted /\ CallFails
          /\ events' = events \cup {i} /\ Goes(r, "release") /\ Excuse(i)
       \/ CallFails /\ Goes(r, "release") /\ UNCHANGED <<events, excused>>
    /\ UNCHANGED <<own, config, rows>>

\* The id is stored whatever became of the row; losing it costs only the
\* ability to remove the event later.
AttachBookingEvent(r) ==
    LET i == req[r].id IN
    /\ req[r].op = "attach"
    /\ \/ /\ rows' = [rows EXCEPT ![i].event = (rows[i].state # "deleted")]
          /\ UNCHANGED <<faults, excused>>
       \/ Fault /\ Excuse(i) /\ UNCHANGED rows
    /\ Done(r)
    /\ UNCHANGED <<link, own, events, config>>

\* Mutant: only a booking that has its event is released.
ReleaseAttachedOnly(r) ==
    LET i == req[r].id IN
    /\ req[r].op = "release"
    /\ rows' = [rows EXCEPT ![i].state = IF rows[i].event THEN "deleted" ELSE @]
    /\ Done(r)
    /\ UNCHANGED <<linkVars, own, events, config, excused>>

\* DELETE ... WHERE event_id = '', in the request's own context, which may be over.
ReleaseBooking(r) ==
    LET i == req[r].id IN
    /\ req[r].op = "release"
    /\ \/ rows' = [rows EXCEPT ![i].state = "deleted"] /\ UNCHANGED <<faults, excused>>
       \/ Fault /\ Excuse(i) /\ UNCHANGED rows
    /\ Done(r)
    /\ UNCHANGED <<link, own, events, config>>

-----------------------------------------------------------------------------
(* CancelMeeting, by the member who booked, and CancelMeetingAsAdmin *)

\* The booking is read first (free: had it an event?); one already cancelled is
\* answered at once.
CancelMeeting(r, i) ==
    /\ req[r].op = "idle" /\ i \in Active
    /\ req' = [req EXCEPT ![r] = [Idle EXCEPT !.op = "cancel", !.id = i, !.free = rows[i].event]]
    /\ UNCHANGED <<linkVars, own, events, config, rows, excused>>

\* Mutant: the event id comes from the row as it was first read.
CancelWithStaleRow(r) ==
    LET i == req[r].id IN
    /\ req[r].op = "cancel" /\ i \in Active
    /\ rows' = [rows EXCEPT ![i].state = "cancelled"]
    /\ IF req[r].free THEN Goes(r, "uncreate") /\ UNCHANGED excused
       ELSE /\ Done(r)
            /\ excused' = IF rows[i].event THEN excused ELSE excused \cup {i}
    /\ UNCHANGED <<linkVars, own, events, config>>

\* The update returns the row, with the event id it has by now.  A row that was
\* cancelled or deleted meanwhile makes the request fail.
CancelBooking(r) ==
    LET i == req[r].id IN
    /\ req[r].op = "cancel"
    /\ \/ /\ i \in Active
          /\ rows' = [rows EXCEPT ![i].state = "cancelled"]
          /\ \/ rows[i].event /\ Goes(r, "uncreate") /\ UNCHANGED excused
             \/ ~ rows[i].event /\ Done(r) /\ Excuse(i)
       \/ i \notin Active /\ Done(r) /\ UNCHANGED <<rows, excused>>
    /\ UNCHANGED <<linkVars, own, events, config>>

\* The update fails, or it is made and its answer is lost: either way the request
\* ends in an error, and the event stays.
CancelFails(r) ==
    LET i == req[r].id IN
    /\ req[r].op = "cancel" /\ Fault
    /\ \/ UNCHANGED <<rows, excused>>
       \/ i \in Active /\ rows' = [rows EXCEPT ![i].state = "cancelled"] /\ Excuse(i)
    /\ Done(r)
    /\ UNCHANGED <<link, own, events, config>>

\* The hold is gone whatever the calendar says.
CancelEvent(r) ==
    LET i == req[r].id IN
    /\ req[r].op = "uncreate"
    /\ \/ CallWorks /\ events' = events \ {i} /\ UNCHANGED excused
       \/ CallFails /\ Excuse(i) /\ UNCHANGED events
    /\ Done(r)
    /\ UNCHANGED <<own, config, rows>>

-----------------------------------------------------------------------------
(* The world *)

offLink == <<own, events, config, rows, excused, req>>

ConnectCalendar    == ConnectLink /\ UNCHANGED offLink
DisconnectCalendar == DisconnectLink /\ UNCHANGED offLink
Revoked            == RevokedLink /\ UNCHANGED offLink
TokenLapses        == LapsedToken /\ UNCHANGED offLink

SetSchedulerSettings(c) ==
    /\ c # config
    /\ config' = c
    /\ UNCHANGED <<linkVars, own, events, rows, excused, req>>

\* The owner's calendar does not stop moving.
OwnerAdds(o) ==
    /\ own' = own \cup {o}
    /\ UNCHANGED <<linkVars, events, config, rows, excused, req>>

\* The owner deletes an event by hand.
OwnerDeletes(i) ==
    /\ i \in events
    /\ events' = events \ {i}
    /\ UNCHANGED <<linkVars, own, config, rows, excused, req>>

\* A crash or a deploy: what a goroutine was about to do is never done.
Restart ==
    /\ Fault
    /\ excused' = excused \cup {req[r].id : r \in {q \in Reqs : req[q].op \in
                                   {"create", "attach", "release", "uncreate"}}}
    /\ req' = [r \in Reqs |-> Idle]
    /\ UNCHANGED <<link, own, events, config, rows>>

\* What goroutine r does without waiting for anyone.
Continue(r) ==
    \/ BookLook(r) \/ BookCheck(r) \/ ClaimBooking(r)
    \/ ClaimIsLost(r) \/ BookFails(r)
    \/ CreateEvent(r) \/ AttachBookingEvent(r) \/ ReleaseBooking(r)
    \/ CancelBooking(r) \/ CancelFails(r) \/ CancelEvent(r)

World ==
    \/ ConnectCalendar \/ DisconnectCalendar \/ Revoked \/ TokenLapses
    \/ \E c \in Configs : SetSchedulerSettings(c)
    \/ \E o \in OwnTimes : OwnerAdds(o)
    \/ \E i \in Rows : OwnerDeletes(i)
    \/ Restart

Next ==
    \/ \E r \in Reqs :
          \/ \E t \in Starts, d \in Durations : BookMeeting(r, t, d)
          \/ \E i \in Rows : CancelMeeting(r, i)
          \/ Continue(r)
    \/ World

Spec == Init /\ [][Next]_vars

\* A goroutine runs to its end.
FairSpec == Spec /\ \A r \in Reqs : WF_vars(Continue(r))

-----------------------------------------------------------------------------
(* Properties *)

\* What the rows say to the diary.
Holds == [id : Rows, lo : Starts, hi : {t + d + g : t \in Starts, d \in Durations, g \in Gaps}]
HeldTimes == {[id |-> i, lo |-> Hold(i).lo, hi |-> Hold(i).hi] : i \in Active}
CalledOff == {i \in Rows : rows[i].state \in {"cancelled", "deleted"}}

D == INSTANCE Diary WITH Appointments <- Holds, diary <- HeldTimes, closed <- CalledOff

\* Whatever is claimed, released and called off at the same time, the bookings
\* that hold time are a diary: disjoint with their clearance, immovable, and
\* never revived (meeting_bookings_no_overlap).
KeepsDiary == D!Spec

\* An appointment the owner already had when a member submitted is never booked
\* over, nor closer to than the clearance in force at that moment, however long
\* ago the member was shown the slot (Book's second look).
OwnersTimeRespected ==
    \A i \in events : \A o \in rows[i].avoids :
        ~ Clash([lo |-> rows[i].start - rows[i].gap, hi |-> Hold(i).hi], o)

\* An event of a booking that no longer holds time is being removed, or some
\* failure, or a cancellation before the event existed, explains it (CancelBooking's
\* RETURNING).
StaleEventsExplained ==
    \A i \in events :
        \/ rows[i].state = "held"
        \/ i \in excused
        \/ \E r \in Reqs : req[r].id = i /\ req[r].op \in {"uncreate", "release"}

\* A hold whose event cannot be made does not outlive the request, unless the
\* answer to the claim is lost or the release itself fails (Service.Book).
HoldIsResolved ==
    \A i \in Rows :
        rows[i].state = "held" /\ ~ rows[i].event
            ~> rows[i].event \/ rows[i].state # "held" \/ i \in excused

\* A slot the page offers can be claimed, as long as no booking was made under a
\* longer clearance than the present one (Slots, StillFree and the constraint agree).
OfferedCanBeClaimed ==
    (\A i \in Active : rows[i].gap <= config.gap) =>
        \A d \in config.durations : \A t \in Slots(config, d) :
            NoOverlap(Held(t, d, config.gap))
=============================================================================
