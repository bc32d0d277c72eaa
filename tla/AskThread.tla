----------------------------- MODULE AskThread -----------------------------
(***************************************************************************)
(* Ask Roger: the thread component of the browser, in the side panel or on *)
(* the page /ask, and the handler that stores a question, answers it and   *)
(* streams the answer back.  One member, one tab.                          *)
(*                                                                         *)
(* A question and its answer are one number; of the many ways an answer is *)
(* reached only that it is stored before it is sent is kept.               *)
(***************************************************************************)
EXTENDS Naturals, Sequences, FiniteSets, SequencesExt

CONSTANTS
    AskHistoryTurns, \* exchanges of the thread shown to the model (2 in the code)
    MaxMounts,      \* bound: Thread components ever mounted, one conversation each
    MaxAsked,       \* bound: questions ever asked
    MaxFaults       \* bound: statements and connections that fail

ASSUME AskAssumption ==
    /\ AskHistoryTurns \in Nat
    /\ MaxMounts \in Nat /\ MaxAsked \in Nat /\ MaxFaults \in Nat

VARIABLES
    place,      \* where the reader is, and whether the panel is open (sessionStorage)
    inst,       \* the Thread mounted, 0 if none
    made,       \* Threads mounted so far
    view,       \* the state of the mounted Thread
    ask,        \* the questions: the stream in the browser, the handler in the api
    rows,       \* chat_messages of each conversation
    title,      \* the question each conversation is named after
    told,       \* the Threads left with a chat.abandoned event
    faults

vars == <<place, inst, made, view, ask, rows, title, told, faults>>

Mounts == 1..MaxMounts
Asked  == 1..MaxAsked

Message == [role : {"disclosure"}, q : {0}, id : {FALSE}]
           \cup [role : {"user"}, q : Asked, id : {FALSE}]
           \cup [role : {"assistant"}, q : Asked, id : BOOLEAN]

\* since is waitStartedRef, when it is not zero.
View  == [conv : {"opening", "open", "failed"}, shown : Seq(Message), waiting : BOOLEAN,
          since : BOOLEAN, error : BOOLEAN]
Fresh == [conv |-> "opening", shown |-> <<>>, waiting |-> FALSE, since |-> FALSE,
          error |-> FALSE]

\* An exchange of the thread, as the model is shown it.
Turn == [asked : Asked, answered : Asked]

\* to is the Thread that asked; pc the handler's next statement; open says that the
\* browser still reads the stream.  given is the history the model is shown;
\* history: seen, the answers on the screen when it was asked, among, the streams that
\* were open then, and broken, whether its connection broke.
Question == [to : {0} \cup Mounts, open : BOOLEAN,
             pc : {"none", "load", "store", "title", "answer", "reply", "over"},
             untitled : BOOLEAN, wire : Seq({"delta", "done", "end", "error"}),
             given : SUBSET Turn, seen : SUBSET Asked, among : SUBSET Asked, broken : BOOLEAN]
NoQuestion == [to |-> 0, open |-> FALSE, pc |-> "none", untitled |-> FALSE, wire |-> <<>>,
               given |-> {}, seen |-> {}, among |-> {}, broken |-> FALSE]

Row == [role : {"user", "assistant"}, q : Asked]

\* The screen, the streams and the tables hold what their types admit.
TypeOK ==
    /\ place \in [page : {"site", "ask"}, panel : BOOLEAN]
    /\ inst \in {0} \cup Mounts /\ made \in 0..MaxMounts
    /\ view \in View /\ ask \in [Asked -> Question]
    /\ rows \in [Mounts -> Seq(Row)] /\ title \in [Mounts -> {0} \cup Asked]
    /\ told \subseteq Mounts /\ faults \in 0..MaxFaults

Init ==
    /\ place = [page |-> "site", panel |-> FALSE]
    /\ inst = 0 /\ made = 0 /\ view = Fresh
    /\ ask = [q \in Asked |-> NoQuestion]
    /\ rows = [n \in Mounts |-> <<>>] /\ title = [n \in Mounts |-> 0]
    /\ told = {} /\ faults = 0

Fault == faults < MaxFaults /\ faults' = faults + 1

Ours        == {q \in Asked : inst # 0 /\ ask[q].to = inst}
Streaming   == {q \in Ours : ask[q].open}
OnScreen(role) == {view.shown[i].q : i \in {j \in DOMAIN view.shown : view.shown[j].role = role}}
Unanswered  == Streaming \ OnScreen("assistant")

-----------------------------------------------------------------------------
(* The panel and the page *)

\* A Thread is on the screen on /ask, and elsewhere while the panel is open.
Visible(p) == p.page = "ask" \/ p.panel

\* Mutant: unmounting is not reported.
UnmountUntold == told' = told

\* Unmounting, or hiding the page, while a wait is on is an abandonment.
Unmount == told' = IF inst # 0 /\ view.since THEN told \cup {inst} ELSE told

\* The Thread of the old place goes, with its conversation and nothing of its
\* streams; the new place mounts its own.
MoveTo(p) ==
    /\ place' = p
    /\ Unmount
    /\ IF Visible(p) THEN /\ made < MaxMounts /\ made' = made + 1 /\ inst' = made + 1
       ELSE inst' = 0 /\ UNCHANGED made
    /\ view' = Fresh

OpenPanel ==
    /\ place.page = "site" /\ ~ place.panel
    /\ MoveTo([place EXCEPT !.panel = TRUE])
    /\ UNCHANGED <<ask, rows, title, faults>>

ClosePanel ==
    /\ place.page = "site" /\ place.panel
    /\ MoveTo([place EXCEPT !.panel = FALSE])
    /\ UNCHANGED <<ask, rows, title, faults>>

\* A link of the site.  The panel is part of the layout and stays as it is from one
\* page to the next, except on /ask, which has a Thread of its own.
Navigate ==
    /\ \E page \in {"site", "ask"} \ {place.page} : MoveTo([place EXCEPT !.page = page])
    /\ UNCHANGED <<ask, rows, title, faults>>

\* The document goes and comes back: every stream is closed, which the handler may
\* notice, in which case its next statement fails.
Reload ==
    /\ MoveTo(place)
    /\ \E noticed \in SUBSET {q \in Asked : ask[q].open} :
          ask' = [q \in Asked |->
                    [ask[q] EXCEPT !.open = FALSE, !.wire = <<>>,
                                   !.pc = IF q \in noticed THEN "over" ELSE @]]
    /\ UNCHANGED <<rows, title, faults>>

-----------------------------------------------------------------------------
(* The mounted Thread *)

\* CreateConversation, once per Thread; the disclosure is its first message.
OpenConversation ==
    /\ inst # 0 /\ view.conv = "opening"
    /\ \/ /\ view' = [view EXCEPT !.conv = "open",
                          !.shown = <<[role |-> "disclosure", q |-> 0, id |-> FALSE]>>]
          /\ UNCHANGED faults
       \/ view' = [view EXCEPT !.conv = "failed", !.error = TRUE] /\ Fault
    /\ UNCHANGED <<place, inst, made, ask, rows, title, told>>

\* The form is closed while an answer is waited for.
CanAsk == inst # 0 /\ ~ view.waiting

\* send: the question is shown at once and the stream is opened.
Ask(q) ==
    /\ CanAsk /\ view.conv = "open"
    /\ ask[q].to = 0 /\ \A p \in 1..(q - 1) : ask[p].to # 0
    /\ ask' = [ask EXCEPT ![q] = [NoQuestion EXCEPT !.to = inst, !.open = TRUE, !.pc = "load",
                                      !.seen = OnScreen("assistant"), !.among = Streaming]]
    /\ view' = [view EXCEPT !.error = FALSE, !.waiting = TRUE, !.since = TRUE,
                            !.shown = Append(@, [role |-> "user", q |-> q, id |-> FALSE])]
    /\ UNCHANGED <<place, inst, made, rows, title, told, faults>>

\* Without a conversation the reader is told to try again in a moment.
AskTooEarly ==
    /\ CanAsk /\ view.conv # "open"
    /\ view' = [view EXCEPT !.error = TRUE]
    /\ UNCHANGED <<place, inst, made, ask, rows, title, told, faults>>

ReplaceLast(list, m) == Append(Front(list), m)

\* What an event of q's stream does to the screen.
Shown(q, e, v) ==
    CASE e = "delta" -> [v EXCEPT !.waiting = FALSE,
                            !.shown = Append(@, [role |-> "assistant", q |-> q, id |-> FALSE])]
      [] e = "done"  -> [v EXCEPT
                            !.shown = ReplaceLast(@, [role |-> "assistant", q |-> q, id |-> TRUE])]
      [] e = "end"   -> [v EXCEPT !.waiting = FALSE, !.since = FALSE]
      [] e = "error" -> [v EXCEPT !.waiting = FALSE, !.since = FALSE, !.error = TRUE]

\* Mutant: a stream that fails leaves the form as it was.
ReadOrStay(q) ==
    /\ ask[q].open /\ ask[q].wire # <<>>
    /\ LET e == Head(ask[q].wire) IN
        /\ ask' = [ask EXCEPT ![q].wire = Tail(@), ![q].open = e \notin {"end", "error"}]
        /\ view' = IF q \in Ours /\ e # "error" THEN Shown(q, e, view) ELSE view
    /\ UNCHANGED <<place, inst, made, rows, title, told, faults>>

\* The loop over the stream goes on after its Thread is gone, and shows nothing.
Read(q) ==
    /\ ask[q].open /\ ask[q].wire # <<>>
    /\ LET e == Head(ask[q].wire) IN
        /\ ask' = [ask EXCEPT ![q].wire = Tail(@), ![q].open = e \notin {"end", "error"}]
        /\ view' = IF q \in Ours THEN Shown(q, e, view) ELSE view
    /\ UNCHANGED <<place, inst, made, rows, title, told, faults>>

\* The connection breaks: what was not read is lost, and the handler may notice.
Cut(q) ==
    /\ ask[q].open /\ ask[q].wire # <<"error">> /\ Fault
    /\ \E pc \in {ask[q].pc, "over"} :
          ask' = [ask EXCEPT ![q].wire = <<"error">>, ![q].pc = pc, ![q].broken = TRUE]
    /\ UNCHANGED <<place, inst, made, view, rows, title, told>>

-----------------------------------------------------------------------------
(* SendMessage.  A step ends with a statement. *)

Server == UNCHANGED <<place, inst, made, view, told>>

\* turnsFrom: an answer makes an exchange with the question stored just before it.
Turns(list) ==
    {i \in DOMAIN list : i > 1 /\ list[i].role = "assistant" /\ list[i - 1].role = "user"}

\* The last AskHistoryTurns of a set of places, or of numbers.
Newest(S) == {i \in S : Cardinality({j \in S : j > i}) < AskHistoryTurns}

\* Mutant: the first exchanges of the thread are kept, not the last.
OldestTurns(list) ==
    {[asked |-> list[i - 1].q, answered |-> list[i].q] :
        i \in {j \in Turns(list) : Cardinality({k \in Turns(list) : k < j}) < AskHistoryTurns}}

\* The history in the prompt.
History(list) ==
    {[asked |-> list[i - 1].q, answered |-> list[i].q] : i \in Newest(Turns(list))}

\* What is sent reaches a browser that still reads, unless the connection broke.
Sends(q, events, pc) ==
    ask' = [ask EXCEPT ![q].pc = pc,
                       ![q].wire = IF ask[q].open /\ @ # <<"error">> THEN @ \o events ELSE @]

\* Mutant: the handler gives up and leaves its stream open.
RefuseSilently(q) == Sends(q, <<>>, "over") /\ Fault /\ UNCHANGED <<rows, title>>

\* A statement fails, and with it the call.
Refuse(q) == Sends(q, <<"error">>, "over") /\ Fault /\ UNCHANGED <<rows, title>>

\* GetConversation: the history, and whether the thread has a name.
Load(q) ==
    /\ ask[q].pc = "load"
    /\ \/ /\ ask' = [ask EXCEPT ![q].pc = "store", ![q].given = History(rows[ask[q].to]),
                                ![q].untitled = title[ask[q].to] = 0]
          /\ UNCHANGED <<rows, title, faults>>
       \/ Refuse(q)
    /\ Server

Store(q) ==
    /\ ask[q].pc = "store"
    /\ \/ /\ rows' = [rows EXCEPT ![ask[q].to] = Append(@, [role |-> "user", q |-> q])]
          /\ ask' = [ask EXCEPT ![q].pc = IF ask[q].untitled THEN "title" ELSE "answer"]
          /\ UNCHANGED <<title, faults>>
       \/ Refuse(q)
    /\ Server

\* The first title is the first question; losing it is only logged.
Title(q) ==
    /\ ask[q].pc = "title"
    /\ ask' = [ask EXCEPT ![q].pc = "answer"]
    /\ \/ title' = [title EXCEPT ![ask[q].to] = q] /\ UNCHANGED faults
       \/ Fault /\ UNCHANGED title
    /\ UNCHANGED rows /\ Server

\* Answer, by whatever path it was reached, ends in finish: the answer is stored,
\* and nothing was said if that fails.
Answer(q) ==
    /\ ask[q].pc = "answer"
    /\ \/ /\ rows' = [rows EXCEPT ![ask[q].to] = Append(@, [role |-> "assistant", q |-> q])]
          /\ ask' = [ask EXCEPT ![q].pc = "reply"]
          /\ UNCHANGED <<title, faults>>
       \/ Refuse(q)
    /\ Server

\* Mutant: the finished message is sent alone.
ReplyDone(q) ==
    /\ ask[q].pc = "reply"
    /\ Sends(q, <<"done", "end">>, "over")
    /\ UNCHANGED <<rows, title, faults>> /\ Server

\* The text, then the message with its id and its sources.
Reply(q) ==
    /\ ask[q].pc = "reply"
    /\ Sends(q, <<"delta", "done", "end">>, "over")
    /\ UNCHANGED <<rows, title, faults>> /\ Server

SendMessage(q) == Load(q) \/ Store(q) \/ Title(q) \/ Answer(q) \/ Reply(q)

Next ==
    \/ OpenPanel \/ ClosePanel \/ Navigate \/ Reload
    \/ OpenConversation \/ AskTooEarly
    \/ \E q \in Asked : Ask(q) \/ Read(q) \/ Cut(q) \/ SendMessage(q)

\* The api runs its handlers, whose calls end; what was sent arrives, or the
\* connection breaks; the request that opens a conversation ends.
Fairness ==
    /\ WF_vars(OpenConversation)
    /\ \A q \in Asked : WF_vars(Read(q)) /\ WF_vars(SendMessage(q))

Spec == Init /\ [][Next]_vars /\ Fairness

-----------------------------------------------------------------------------
(* Properties *)

\* q is the last question of its thread, the others were asked one after the other, and
\* no connection of the thread broke.
Undisturbed(q) ==
    /\ ~ ask[q].broken
    /\ \A p \in Asked \ {q} :
          ask[p].to = ask[q].to => p < q /\ ask[p].among = {} /\ ~ ask[p].broken

\* A follow-up is answered from the last exchanges the reader has on the screen, each
\* answer with its own question: the handler reads the rows, not the screen, and the two
\* agree because finish stores an answer before a word of it is sent
\* (chat/answer.go finish, handlers/chat.go turnsFrom).  After a broken connection they
\* need not: the handler may go on, and its answer be stored after the next question.
FollowUpsAreInformed ==
    \A q \in Asked : ask[q].pc \notin {"none", "load", "over"} /\ Undisturbed(q) =>
        ask[q].given = {[asked |-> p, answered |-> p] : p \in Newest(ask[q].seen)}

\* A question stays on the screen of the thread it was asked in, whatever becomes of
\* its stream, as long as every answer before it was complete when it was asked
\* (thread.tsx replaceLast).
QuestionsStay ==
    \A q \in Ours : ask[q].among = {} => q \in OnScreen("user")

\* The clock of the wait runs exactly while it should: never without a stream, and
\* always for a question without its answer, unless that one was asked while an
\* answer was still coming in (waitStartedRef).
WaitIsTimed ==
    /\ inst # 0 /\ view.since => Streaming # {}
    /\ \A q \in Unanswered : ask[q].among = {} => view.since

\* No way of leaving a question behind goes unreported: closing the panel, moving
\* to the other surface, reloading (the unmount and pagehide of thread.tsx).
LeavingIsTold ==
    [][inst' # inst => \A q \in Unanswered : ask[q].among = {} => inst \in told']_vars

\* A question is settled: the reader sees its answer or an error, or has left the
\* thread, and can ask again.
QuestionsSettle ==
    \A q \in Asked : (q \in Ours /\ view.waiting) ~> (q \notin Ours \/ ~ view.waiting)
=============================================================================
