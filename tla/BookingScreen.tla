--------------------------- MODULE BookingScreen ---------------------------
(***************************************************************************)
(* The booking page of a member: the lists it shows, the buttons it        *)
(* offers, and the server actions it sends.  Next.js runs the actions of a *)
(* tab one after the other; the member goes on clicking meanwhile, and     *)
(* other members book and call off.                                        *)
(*                                                                         *)
(* The scheduler behind the actions is the Diary, which Meetings is shown  *)
(* to implement: this module puts the page on top of that promise.         *)
(***************************************************************************)
EXTENDS Naturals, Sequences, FiniteSets

CONSTANTS
    Starts,         \* the start times there are
    Lengths,        \* the lengths on offer
    Default,        \* the length the page opens with
    Close,          \* the end of the owner's window
    MaxRows,        \* bound: meetings ever booked
    MaxCalls,       \* bound: actions in the tab's queue when a button is pressed
    MaxFaults       \* bound: calls that fail

ASSUME BookingAssumption ==
    /\ Starts \subseteq Nat \ {0} /\ Lengths \subseteq Nat \ {0} /\ Default \in Lengths
    /\ Close \in Nat /\ MaxRows \in Nat /\ MaxCalls \in Nat /\ MaxFaults \in Nat

VARIABLES
    diary, closed,  \* the scheduler
    member,         \* the ids of the meetings the member booked
    length,         \* the length chosen
    avail,          \* the availability shown
    mine,           \* the meetings listed
    pick,           \* the time selected, 0 if none
    result,         \* what the last booking came to
    calls,          \* the tab's queue of server actions
    orphans,        \* calls under way whose page is gone
    refused,        \* history: bookings the member was told are in the way
    blind,          \* history: the last listing of meetings failed
    late,           \* history: bookings that landed after their page was gone
    kept,           \* history: bookings held behind an error, not listed since
    crossed,        \* history: the length was changed while a booking or a
                    \* cancellation was on its way
    faults

page   == <<length, avail, mine, pick, result>>
server == <<diary, closed, member>>
ghosts == <<refused, blind, late, kept, crossed>>
vars   == <<server, page, calls, orphans, ghosts, faults>>

Ids == 1..MaxRows

Appointments == {[id |-> i, lo |-> t, hi |-> t + d] : i \in Ids, t \in Starts, d \in Lengths}

D == INSTANCE Diary

Avail     == [ok : BOOLEAN, len : Lengths, slots : SUBSET Starts]
NotLoaded == [ok |-> FALSE, len |-> Default, slots |-> {}]

\* kind all is the pair of refreshAll.  len is the length of the render that sent
\* the action; effect says that the effect of the length sent it, and live is the
\* opposite of its cancelled.  The rest is what the server has answered so far.
Call == [kind : {"avail", "all", "book", "cancel"}, len : Lengths, start : {0} \cup Starts,
         id : {0} \cup Ids, effect : BOOLEAN, live : BOOLEAN, step : {"sent", "half", "done"},
         avail : Avail, list : SUBSET Ids, heard : BOOLEAN,
         answer : {"", "ok", "stale", "error"}, clash : SUBSET Ids]

NewCall(kind, len) == [kind |-> kind, len |-> len, start |-> 0, id |-> 0,
                       effect |-> FALSE, live |-> TRUE, step |-> "sent",
                       avail |-> NotLoaded, list |-> {}, heard |-> TRUE,
                       answer |-> "", clash |-> {}]

\* The effect of the length.
Effect(len) == [NewCall("avail", len) EXCEPT !.effect = TRUE]

\* The page, its queue and the scheduler hold what their types admit.
TypeOK ==
    /\ diary \subseteq Appointments /\ closed \subseteq Ids /\ member \subseteq Ids
    /\ length \in Lengths /\ avail \in Avail /\ mine \subseteq Ids
    /\ pick \in {0} \cup Starts /\ result \in {"", "booked", "error"}
    /\ calls \in Seq(Call) /\ Len(calls) <= MaxCalls + 4 /\ orphans \subseteq Call
    /\ refused \subseteq Ids /\ blind \in BOOLEAN /\ late \subseteq Ids
    /\ kept \subseteq Ids /\ crossed \in BOOLEAN /\ faults \in 0..MaxFaults

\* The page as the server renders it, its first effect sent.
Load ==
    /\ length' = Default /\ avail' = NotLoaded /\ pick' = 0 /\ result' = ""
    /\ calls' = <<Effect(Default)>>
    /\ refused' = {} /\ crossed' = FALSE

Init ==
    /\ diary = {} /\ closed = {} /\ member = {}
    /\ length = Default /\ avail = NotLoaded /\ mine = {} /\ pick = 0 /\ result = ""
    /\ calls = <<Effect(Default)>>
    /\ orphans = {} /\ refused = {} /\ blind = FALSE /\ late = {}
    /\ kept = {} /\ crossed = FALSE /\ faults = 0

Fault == faults < MaxFaults /\ faults' = faults + 1

Held == {a.id : a \in diary}

Time(t, d) == [lo |-> t, hi |-> t + d]

\* The id of the next booking; the bound leaves one for every booking under way.
NextId == Cardinality(closed \cup Held) + 1
IdLeft ==
    LET underway == {i \in DOMAIN calls : calls[i].kind = "book" /\ calls[i].step = "sent"}
    IN  NextId + Cardinality(underway) + Cardinality(orphans) <= MaxRows

\* What GetAvailability offers for a length.
Free(d) == {t \in Starts : t + d <= Close /\ \A b \in diary : ~ D!Clash(Time(t, d), b)}

-----------------------------------------------------------------------------
(* The buttons *)

Pending(kind) == \E i \in DOMAIN calls : calls[i].kind = kind
Room   == Len(calls) < MaxCalls
Picker == result # "booked"

\* A start that fits one length may not fit another, so the selection goes; the
\* effect of the old length is cancelled and one for the new length is sent.
PickLength(d) ==
    /\ Picker /\ Room
    /\ length' = d /\ pick' = 0
    /\ calls' = IF d = length THEN calls
                ELSE Append([i \in DOMAIN calls |->
                        IF calls[i].effect THEN [calls[i] EXCEPT !.live = FALSE]
                        ELSE calls[i]], Effect(d))
    /\ crossed' = IF d = length THEN crossed ELSE Pending("book") \/ Pending("cancel")
    /\ UNCHANGED <<server, avail, mine, result, orphans, refused, blind, late, kept, faults>>

\* Pressing a time selects it, or lets it go.
PickSlot(t) ==
    /\ Picker /\ avail.ok /\ t \in avail.slots
    /\ pick' = IF pick = t THEN 0 ELSE t
    /\ UNCHANGED <<server, length, avail, mine, result, calls, orphans, ghosts, faults>>

\* submit; the button is disabled while a booking is on its way.
Confirm ==
    /\ Picker /\ Room /\ IdLeft /\ pick # 0 /\ ~ Pending("book")
    /\ calls' = Append(calls, [NewCall("book", length) EXCEPT !.start = pick])
    /\ UNCHANGED <<server, page, orphans, ghosts, faults>>

\* "Yes, cancel", beside a meeting of the list.
CancelMine(i) ==
    /\ Picker /\ Room /\ i \in mine /\ ~ Pending("cancel")
    /\ calls' = Append(calls, [NewCall("cancel", length) EXCEPT !.id = i])
    /\ UNCHANGED <<server, page, orphans, ghosts, faults>>

BookAnother ==
    /\ result = "booked" /\ Room
    /\ result' = ""
    /\ calls' = Append(calls, NewCall("avail", length))
    /\ UNCHANGED <<server, length, avail, mine, pick, orphans, ghosts, faults>>

-----------------------------------------------------------------------------
(* The server actions: the head of the queue is carried out, then answered. *)

Answered(c) == calls' = <<c>> \o Tail(calls)

\* getAvailability: the times for a length, or the reason why there are none.
GetAvailability ==
    /\ calls # <<>> /\ Head(calls).step = "sent" /\ Head(calls).kind \in {"avail", "all"}
    /\ LET c == Head(calls)
           next == IF c.kind = "all" THEN "half" ELSE "done"
       IN \/ /\ Answered([c EXCEPT !.step = next,
                             !.avail = [ok |-> TRUE, len |-> c.len, slots |-> Free(c.len)]])
             /\ UNCHANGED faults
          \/ Answered([c EXCEPT !.step = next]) /\ Fault
    /\ UNCHANGED <<server, page, orphans, ghosts>>

\* listMyMeetings: an error reads like an empty list.
ListMyMeetings ==
    /\ calls # <<>> /\ Head(calls).step = "half"
    /\ \/ /\ Answered([Head(calls) EXCEPT !.step = "done", !.list = member \cap Held])
          /\ UNCHANGED faults
       \/ Answered([Head(calls) EXCEPT !.step = "done", !.heard = FALSE]) /\ Fault
    /\ UNCHANGED <<server, page, orphans, ghosts>>

\* The appointment a booking asks for.
Asked(c) == [id |-> NextId, lo |-> c.start, hi |-> c.start + c.len]

Taken(c) ==
    /\ c.start \notin Free(c.len)
    /\ Answered([c EXCEPT !.step = "done", !.answer = "stale",
                     !.clash = {b.id : b \in {a \in diary : D!Clash(Asked(c), a)}}])

\* The booking is agreed.
Booked(c) ==
    /\ c.start \in Free(c.len) /\ D!Agree(Asked(c))
    /\ member' = member \cup {NextId}

\* bookMeetingAction: booked; taken meanwhile; or an error, after which the time may
\* still be held: the claim went through, and neither the event nor the release did.
BookMeeting ==
    /\ calls # <<>> /\ Head(calls).step = "sent" /\ Head(calls).kind = "book"
    /\ LET c == Head(calls) IN
          \/ Booked(c) /\ Answered([c EXCEPT !.step = "done", !.answer = "ok"])
             /\ UNCHANGED <<kept, faults>>
          \/ Taken(c) /\ UNCHANGED <<server, kept, faults>>
          \/ /\ Answered([c EXCEPT !.step = "done", !.answer = "error"]) /\ Fault
             /\ \/ Booked(c) /\ kept' = kept \cup {NextId}
                \/ UNCHANGED <<server, kept>>
    /\ UNCHANGED <<page, orphans, refused, blind, late, crossed>>

\* cancelMeetingAction: called off, by now or before; or an error, whether or not the
\* meeting was called off behind it.
CancelMeeting ==
    /\ calls # <<>> /\ Head(calls).step = "sent" /\ Head(calls).kind = "cancel"
    /\ LET c == Head(calls)
           off == \E a \in diary : a.id = c.id /\ D!CallOff(a)
       IN \/ /\ Answered([c EXCEPT !.step = "done", !.answer = "ok"]) /\ UNCHANGED faults
             /\ off \/ (c.id \notin Held /\ UNCHANGED <<diary, closed>>)
          \/ /\ Answered([c EXCEPT !.step = "done", !.answer = "error"]) /\ Fault
             /\ off \/ UNCHANGED <<diary, closed>>
    /\ UNCHANGED <<member, page, orphans, ghosts>>

-----------------------------------------------------------------------------
(* The replies, as the render that sent the action handles them *)

Reply(kind) == calls # <<>> /\ Head(calls).step = "done" /\ Head(calls).kind = kind

Then(c) == calls' = Append(Tail(calls), c)

\* Mutant: only the meetings are listed anew.
RefreshMine(len) == [NewCall("all", len) EXCEPT !.live = FALSE]

\* Mutant: the times alone are read again.
RefreshTimes(len) == NewCall("avail", len)

\* Both lists move together.
RefreshAll(len) == NewCall("all", len)

AvailabilityReply ==
    /\ Reply("avail")
    /\ avail' = IF Head(calls).live THEN Head(calls).avail ELSE avail
    /\ calls' = Tail(calls)
    /\ UNCHANGED <<server, length, mine, pick, result, orphans, ghosts, faults>>

AllReply ==
    /\ Reply("all")
    /\ avail' = IF Head(calls).live THEN Head(calls).avail ELSE avail
    /\ mine' = Head(calls).list /\ blind' = ~ Head(calls).heard
    /\ kept' = kept \ Head(calls).list
    /\ calls' = Tail(calls)
    /\ UNCHANGED <<server, length, pick, result, orphans, refused, late, crossed, faults>>

\* Booked: the form is emptied and both lists are read again.  Losing the race is
\* the one error where the list on the screen is itself the problem: it is read
\* again, for the length of the render that sent the booking.
BookReply ==
    /\ Reply("book")
    /\ LET c == Head(calls) IN
         /\ result' = IF c.answer = "ok" THEN "booked" ELSE "error"
         /\ pick' = IF c.answer \in {"ok", "stale"} THEN 0 ELSE pick
         /\ CASE c.answer = "ok"    -> Then(RefreshAll(c.len))
              [] c.answer = "stale" -> Then(NewCall("avail", c.len))
              [] OTHER              -> calls' = Tail(calls)
         /\ refused' = refused \cup c.clash
    /\ UNCHANGED <<server, length, avail, mine, orphans, blind, late, kept, crossed, faults>>

\* Cancelled or not, both lists are read again.
CancelReply ==
    /\ Reply("cancel")
    /\ Then(RefreshAll(Head(calls).len))
    /\ UNCHANGED <<server, page, orphans, ghosts, faults>>

\* A call that throws takes the page down; the member loads it again, and the list
\* the server renders may fail as well.
PageLost ==
    /\ calls # <<>> /\ Fault
    /\ Load
    /\ \/ mine' = member \cap Held /\ blind' = FALSE
       \/ mine' = {} /\ blind' = TRUE
    /\ orphans' \in {orphans, orphans \cup {c \in {Head(calls)} : c.step = "sent"
                                              /\ c.kind \in {"book", "cancel"}}}
    /\ kept' = kept \ mine' /\ UNCHANGED <<server, late>>

\* A call whose page is gone is carried out all the same.
LateAction ==
    /\ \E c \in orphans :
        /\ orphans' = orphans \ {c}
        /\ \/ c.kind = "book" /\ Booked(c) /\ late' = late \cup {NextId}
           \/ /\ c.kind = "cancel" /\ \E a \in diary : a.id = c.id /\ D!CallOff(a)
              /\ UNCHANGED <<member, late>>
           \/ UNCHANGED <<server, late>>
    /\ UNCHANGED <<page, calls, refused, blind, kept, crossed, faults>>

-----------------------------------------------------------------------------
(* The others *)

\* Another member books, or a meeting is called off by its member or the owner.
OtherBooks ==
    /\ IdLeft
    /\ \E a \in Appointments :
          /\ a.id = NextId
          /\ a.lo \in Free(a.hi - a.lo) /\ D!Agree(a)
    /\ UNCHANGED <<member, page, calls, orphans, ghosts, faults>>

OtherCancels ==
    /\ \E a \in diary : D!CallOff(a)
    /\ UNCHANGED <<member, page, calls, orphans, ghosts, faults>>

Action == GetAvailability \/ ListMyMeetings \/ BookMeeting \/ CancelMeeting
Return == AvailabilityReply \/ AllReply \/ BookReply \/ CancelReply

Next ==
    \/ \E d \in Lengths : PickLength(d)
    \/ \E t \in Starts : PickSlot(t)
    \/ \E i \in Ids : CancelMine(i)
    \/ Confirm \/ BookAnother
    \/ Action \/ Return \/ PageLost \/ LateAction
    \/ OtherBooks \/ OtherCancels

Spec == Init /\ [][Next]_vars

-----------------------------------------------------------------------------
(* Properties *)

AtRest == calls = <<>>

\* When the page is at rest, no time it offers clashes, for the length it would be
\* booked with, with a meeting it lists and the member still holds, nor with one the
\* member was told had taken the time: both lists move together, a lost race is
\* followed by a fresh list, and a new length by its own, whatever else was clicked
\* (booking.tsx refreshAll, submit, the effect of duration).  Two things may come in
\* between: a booking that outlived its page, and a length changed while a booking
\* or a cancellation was on its way, whose fresh list is for the length of before,
\* although the list is to be that of the length (booking.tsx:146).
TakenIsNotOffered ==
    AtRest /\ avail.ok /\ ~ crossed =>
        \A t \in avail.slots, b \in diary :
            b.id \in (mine \cup refused) \ late => ~ D!Clash(Time(t, length), b)

\* When the page is at rest, the member finds every meeting they hold on its list,
\* and so a way out of it, unless the last listing failed, a booking landed after its
\* page was gone, or one was answered with an error and held all the same, which
\* submit does not look for (booking.tsx meetings, book.go Release).
HeldIsListed == AtRest => blind \/ member \cap Held \subseteq mine \cup late \cup kept
=============================================================================
