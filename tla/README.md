# Verification of career-site

TLA+ models of the parts of this repository where several actors write the same
state, with TLC instances that check them and TLAPS proofs about them. The
source is the reference: each definition translates the code named for it in
`PROJECT.json` (`map`), and comments, documents and tests of the repository are
used only to know what the code is meant to promise.

    tlc -workers 2 -config MCAccounts_lifecycle.cfg MCAccounts.tla
    tlapm AccountsProofs.tla

(`tlapm` in the same way for `DecisionTestProofs`, `MeetingsProofs`, `JdPipelineProofs`,
`JdReviewsProofs`, `AskThreadProofs`, `BookingScreenProofs` and `WatchScreensProofs`.)

## The system

career-site is a portfolio with member accounts. Caddy fronts two services: a
Next.js front end (`apps/web`) and a Go api (`services/api`, ConnectRPC). The api
keeps everything in one Postgres, calls a stateless Python sidecar for embedding,
generation and PDF rendering, sends mail through a provider, and talks to the
owner's Google Calendar. The api is a single instance. A request runs in a
goroutine of its own; a scheduler (`internal/scheduler`) runs each periodic job in
one goroutine, at start and then on an interval, a job never overlapping itself.
There are few transactions: most handlers are a sequence of autocommitted
statements, so *between two statements anything else may happen*. That is the
hazard the models are built around, and the grain of their actions: one action per
statement, or per call to another service.

| Component | State | Operations | Interacts with |
|---|---|---|---|
| Member accounts (`handlers/auth*.go`, `decision.go`, `admin.go`, `expiry.go`; `users/repo.go`, `access_grants.go`, `sessions.go`) | `users`, `email_tokens`, `sessions`, `approval_decisions`, `access_grants`; `notifiedWarn` in memory | register, verify, decide, extend, disable, sign in/out, reset; warn, cut, auto-decline | scheduler, mail |
| Decision test, a sitting (`handlers/decisiontest.go`, `users/decisiontest*.go`, `run-screen.tsx`, `decision-test-retry.ts`) | `dt_sessions`, `dt_session_items`, `dt_answers`, `dt_recalls`; the screen's phase; the retry queue | start, fetch block, answer, recall, finish; timers, resends, beacons | browser over the network |
| Decision test, analysis (`decisiontest_review.go`, `_results.go`, `_export*.go`) | reviews, exclusions, analysis inputs | review, clear, export | administrators |
| Meeting scheduling (`scheduling/*.go`, `users/meetings.go`, `handlers/meetings.go`) | `meeting_bookings` and its exclusion constraint, settings | offer, book, cancel | Google Calendar, the owner |
| Calendar connection and health (`users/calendar.go`, `calendar/google.go`, `handlers/calendar_health.go`) | `calendar_connection`, a marker in `app_settings` | connect, disconnect, record an outcome, probe and mail | Google, scheduler |
| JD pipeline (`jd/*.go`, `handlers/jd.go`, `users/jd_*.go`) | `jd_submissions`, `jd_runs`, one pipeline slot | submit, score, write, render, re-score, mail, recover on boot | sidecar, mail, the review page |
| Job runner (`jobs/runner.go`, `handlers/admin_jobs.go`, `admin_ops.go`) | a map of jobs in memory | start, report, finish, prune | the console's polling screens |
| Ask Roger (`chat/*.go`, `handlers/chat.go`, `components/ask/*.tsx`) | `chat_conversations`, `chat_messages`; the thread, the panel's place in `sessionStorage` | open, ask, answer, stream, close, navigate | sidecar, event log |
| Web front end (`apps/web`) | a client component's `useState` and refs; the tab's queue of server actions | click, send, handle a reply, unmount | the api |
| Corpus and ingest, rate limits and bot checks, authorisation and audit tables, event log, mail, evaluation, sidecar, deployment | see `PROJECT.json` | | |

What makes the modelled components correct, and what is hard about each:

- **Accounts.** One decision per verified request although the mail link and the
  console race; an access never cut early although the cut works from a list read
  earlier; requests, accesses and sessions end in time; one warning per period
  across restarts; one password change per reset link.
- **Decision test.** An answer is stored once, first one wins, graded on the item
  this run was given, whichever of button, timer, resend and beacon delivers it;
  no answer vanishes while the page lives; closing twice changes nothing; a
  repeat shares no question with earlier runs.
- **Meetings.** No two bookings hold overlapping time although no transaction
  spans the calendar and the database; the owner's own time is respected; holds
  and events do not outlive what they stand for.
- **Calendar health.** A dead credential is reported.
- **JD pipeline.** A re-score may start while an earlier run of the same row is
  still at work, and every statement may fail or be the last before a crash: the
  slot must come back on every way out, score and assessment must belong together,
  the last mail must say what the row said when it was made, and no row or record may
  claim for ever that work goes on.
- **Job runner and its screens.** A screen learns of a job only by asking again. A
  chain of polls that ends early is a frozen page; one that never finds its job
  again after a reload is a lost one.
- **Ask Roger.** The form opens with the first words of an answer, while its
  handler still runs: a follow-up must be answered from the newest exchanges the reader
  saw. A wait must end, be timed, and leave a trace if the reader gives up on it.
- **Booking page.** The tab's actions run one after the other, each handled by the
  render that sent it, while the member clicks on: two lists must not contradict
  each other when it all comes to rest.

## Modules

`AccountTables` holds the tables and one operator per repository method
(`SetStatus`, `ActivatePending`, `ExpireOne`, `ConsumeVerifyToken`, ...), guards
included. A user row has status, expiry, warning marker and a count of password
changes; tokens of each purpose are counts of minted, used and lapsed ones.
`Accounts` composes them into handlers. `req[r]` is the program counter and the
locals of goroutine `r`: `Register` then `MintVerify`; `VerifyLink` (the token is
spent), `GetActiveGrant` (the whitelist is read), then `ApplyWhitelistAutoApprove` with
the TTL read, or `ApplyPendingApproval`; `Decide` (the
status is read) then `ApproveUser` or `DeclineUser` (the guarded flip) then
`RecordApprovalDecision`; `ExtendAccess`, `ExtendSave`, `ExtendRevive`;
`Login`, `RevokeOldSession`, `MintSession`; `ResetPassword` (the token is spent),
`ResetRead`, `ResetSetHash`, `ResetRevoke`. Each job is
a list read by one action (`WarnJob`, `ExpireJob`, `AutoDecline`) and worked off row
by row, and goes on with the next row when a statement fails. Best-effort statements
(`RevokeOrLog`, `RecordOrLog`) may fail and are survived; any other that fails ends its
handler (`StatementFails`). `Restart` drops goroutines, lists and the in-memory map. `MCAccounts` holds the sets
of calls an instance uses. The theorems about a module `M` are in `MProofs`; those about
what the pipeline leaves behind are in `JdReviewsProofs`.

`DecisionTest` models the api and the run screen together. An RPC is a record in
`calls` which the server admits (status check), executes and answers, while the
browser may give up on it; the screen's phases, timers and buttons, the retry
queue and the page-hide beacons are actions of the participant. A hidden page either
goes (`PageHide`) or comes back from the back/forward cache with its queue handed to
the browser as beacons (`PageReturns`). Practice, intake
and grading arithmetic are left out; digits are version numbers, so that "the
digits shown" and "the digits recorded" can differ.

`Diary` is the abstract promise of the scheduler: appointments that never clash,
never move and never come back once called off. `CalendarLink` is the stored
credential, extended by the two modules that use it; a credential Google has revoked is
`fading` while the access token cached from before still passes. `Meetings` has the booking
handler one statement at a time (`BookMeeting`, `BookLook`, `BookCheck`,
`ClaimBooking`, `CreateEvent`, `AttachBookingEvent`, `ReleaseBooking`), cancellation
(`CancelMeeting`, `CancelBooking`, `CancelEvent`), the slot arithmetic, and the owner,
who changes settings and calendar at will. It implements `Diary` under the mapping
"an appointment is a row that holds time, with its stored clearance". The event
created on the calendar although its answer was lost is one of the outcomes of
`CreateEvent`, and a row that is inserted, or called off, although the answer of the
database was lost is `ClaimIsLost`, or one of the outcomes of `CancelFails`. Time is the slot grid of one day; a month, time zones and daylight
saving are left out, and so are the lead time and the horizon.

`CalendarHealth` abstracts timestamps to the only thing the job does with them:
whether the stamp it noted is still the present one. Every recorded outcome of
any call makes older stamps stale (`Touched`). The code compares stamps to the second;
two that differ by less are told apart here all the same. A run of the job is
`HealthRead`, `HealthProbe`, then `HealthClear` (best effort), or `HealthRecall` (a
marker that cannot be read stops nothing), `HealthNotify`, `HealthMark`.

`SlotLine` is the abstract promise of the pipeline slot: runs wait in a line of no
order, at most `Slots` of them work, and nobody waits or works for ever.
`JdPipeline` has `scoreAndPersist` one statement at a time. A run is a goroutine
(`pc`) and its `jd_runs` record: `Start` (record opened), `MarkScoring`, `Acquire` or `GiveUp` (the queue wait of three hours), `Retrieve`, `Assess`, `Gate`,
`WriteResume`, `KeepPdf`, then the deferred calls in their order: `Release`,
`notifyOutcome` in two steps, `ReadOutcome` (the row is read back) and `SendMail`, each of
which may lose the mail (`MailLost`), then `Close`. Of a row's data the model keeps
which run wrote it, so that half of one run beside half of another is visible.
Requests are `Admit`/`Accept` (count, then insert) and `AskRescore`/`Rescore` (read,
then write); `Crash` drops every goroutine and `Boot` runs the two sweeps before the
api serves anything. It implements `SlotLine`, liveness included, under the mapping
waiting = runs that start or queue, working = runs past `Acquire` and before their
release.

`JobRunner` is the map of jobs behind its mutex; a timeline is the number of
reports it keeps, and `Recent` the newest `ListCap` jobs (25 in the code), beyond which a
job is on no list although it runs. `WatchScreens` extends it with the five screens that poll: the
corpus panel, the evaluation page, the operations list, its detail dialog, and the
page of a review. A poll is a record in `calls`: to come or under way, answered
(`Serve`, or `ServeFails` with an error or a throw) from the state of that moment,
and handled later (`Reply`). Leaving a page drops its polls but not a server action
that waits in the tab's queue; a start answered after its page is gone shows nothing, and
the polls it would still send, unseen, are left out.

`AskThread` has the mounted thread (`view`), every stream (`ask[q]`: the Thread that
asked, what is on the wire, the handler's next statement) and the stored rows. `History`
is what the prompt of a follow-up is made of: `turnsFrom`, which pairs an answer with the
question stored just before it, and the last `AskHistoryTurns` of the pairs (two in
the code). The handler is `Load`, `Store`, `Title`, `Answer`, `Reply`; the browser reads the stream
event by event, and goes on reading after its Thread is gone. `MoveTo` is every way
of changing the place: the panel opens, closes, or gives way to the page `/ask`;
`Reload` closes all streams, `Cut` breaks one.

`BookingScreen` is the booking page over `Diary`, which `Meetings` implements: the
page's state, the queue `calls` of server actions (Next.js runs those of a tab one
after the other), and replies handled with the `duration` of the render that sent
them. The effect of the length has its `cancelled` flag (`live`). Other members book
and call off; a call that throws takes the page down, and what it was carrying out
lands later (`LateAction`). A booking answered with an error may hold its time all the
same (`kept`), as when neither the event could be made nor the hold released.

`history` variables (`owned`, `lapsed`, `warnings`, `lost`; `before`, `refused`, `fired`,
`gaveUp`; `excused`; `notices`; `mail`, `cut`, `lost`, `seen`; `seen`, `among`, `broken`;
`refused`, `blind`, `late`, `kept`, `crossed`; `dropped`, `threw`, `unseen`) are read by no action's guard except as bounds.

## What the runs show

Passing runs:

| Run | Instance | Shows |
|---|---|---|
| `accounts_lifecycle` | 1 account, 2 goroutines, 2 verification and 2 reset links, clock 0..1, 1 fault, permanent whitelist entry | `DecisionPerVerification`, `PasswordChangeSpendsToken` |
| `accounts_liveness` | 1 account, 1 goroutine, 1 session, all three jobs, extension by 1, 1 fault, `FairSpec` | `OneWarningPerPeriod`, `NoEarlyCut`, `PendingIsResolved`, `OverdueIsCut`, `OverdueSessionsEnd` |
| `dt_sitting` | 2 sittings before or beside the played one, 2 items, 1 question, 1 recall, 1 fault | `GradedOnOwnItem`, `RepeatDrawsUnseen`, `NoSilentLoss`, `FirstAnswerStands`, `FinishKeepsFirst` |
| `meetings_booking` | 2 goroutines, 2 rows, 2 starts that clash by their clearance, 1 fault, `FairSpec` | `KeepsDiary` (refinement), `StaleEventsExplained`, `HoldIsResolved` |
| `meetings_settings` | 1 goroutine, 2 rows, two clearances, one appointment of the owner's | `OwnersTimeRespected`, `OfferedCanBeClaimed` |
| `calendar_outage` | 3 faults, `FairSpec` | `OutageIsReported` |
| `jd_reviews` | 1 submission, 2 requests, 2 runs, 1 slot, 1 fault, 1 crash | `SlotsHeldByWorkers`, `ScoreIsExplained`, `LastMailIsTrue`, `RunRecordsAreTrue`, `ReviewsEnd`, `RunsTakeTurns` (refinement) |
| `ask_thread` | 2 threads mounted, 3 questions, a history of 1 turn, 1 fault | `FollowUpsAreInformed`, `QuestionsStay`, `WaitIsTimed`, `LeavingIsTold`, `QuestionsSettle` |
| `booking_page` | 2 starts, 2 lengths, 2 meetings, 2 actions queued by hand, 1 fault | `TakenIsNotOffered`, `HeldIsListed` |
| `watch_polling` | 2 jobs, a list of 1, a timeline of 1 report, 2 calls, 1 fault, restarts without bound | `ConsoleKeepsAsking`, `FreezesAreKnown`, `TruncationIsTold`, `RunIsReattached`, `ListCatchesUp` |

Runs that end in a violation, each a statement of the repository the code does
not keep (`findings` in `PROJECT.json` quotes both sides):

| Run | Statement | What happens |
|---|---|---|
| `accounts_marker` | the warning marker is cleared whenever `expires_at` changes | extending an access keeps it; the new period ends unannounced |
| `jd_silence` | a run closed at startup gets its submitter a failure mail instead of silence | the sweeps write the row and the record and mail nobody |

Some properties name the exceptions the code really has. `ScoreIsExplained` and
`RunRecordsAreTrue` excuse a run whose own statement the database refused;
`LastMailIsTrue` excuses a submission whose run died with the api, a mail that was lost,
and one that another run overtook between reading the row and sending; `NoSilentLoss`
an answer that a page which came back had handed to the browser; `FollowUpsAreInformed`
a thread whose questions overlapped or whose connection broke; `WaitIsTimed` and
`QuestionsStay` a question asked while the answer before it was still coming in;
`TakenIsNotOffered` a length chosen while a booking or a cancellation was on its way;
`HeldIsListed` a listing that failed, and a booking that was answered with an error and
held; `FreezesAreKnown` is the list of its exceptions; `RunIsReattached` is about the
newest jobs; `StaleEventsExplained` excuses a cancellation that did not see the
event, `OfferedCanBeClaimed` a booking made under a longer clearance, and
`OverdueSessionsEnd` a fault between the cut and its revocation. Each exception is a behaviour described
under "Seen while modelling".

### Bounds

Accounts are independent rows, so one account shows every race; two goroutines
and a job are the most actors any of these properties needs (decide against
decide, extend against cut), which `AccountsProofs` confirms for any number.
Two links let one be used after a decision, and two goroutines use one link, or two, at
once; two instants let an access that
ends at 1 be listed as over and be extended to 2; where warnings matter a third gives a
before, a now and an after to each deadline. A sitting of one block with one
question still has button, timer, resend and beacon for an answer, a recall, a
fetch and both closing calls, and two items are one more than the draw needs, so a
repeat may be drawn or refused. Two bookings on two starts show every clash of two
intervals the constraint distinguishes. Faults (`MaxFaults`) bound how often the
network, a best-effort statement or a restart interferes in one behaviour; each kind of
fault can be the one that happens. Two runs of one submission are an overlap of a re-score with what it
overtakes, submissions being independent rows but for the slot, which the two
runs share; one fault and one crash hit any statement of either. Three questions are a
follow-up with one exchange more before it than its history holds, two threads a panel and a
page. Two jobs are one of each kind, or one and its successor, and the older falls off a
list of one while it runs; a timeline of one report is at its cap
after the first and beyond it at the end. Two lengths and two starts make a long
meeting clash with the start after it. Deadlock is not checked where the bounds make
the system stop: clocks, questions and budgets run out and a closed tab makes no move.

### Fairness

`Accounts!Fairness`: a goroutine runs to its end (Go schedules it and every
statement has a deadline), the scheduler fires its jobs (its loop has no exit but
shutdown), time passes. Nobody is obliged to call anything.
`Meetings!FairSpec`: a goroutine runs to its end; the calendar may fail, not stall (the HTTP
client has a timeout). `CalendarHealth!FairSpec`: the scheduler keeps firing the
job. `JdFairness`: every goroutine runs, a call ends or meets the pipeline timeout, the
queue wait ends, the container is restarted (`restart: unless-stopped`).
`AskThread`: handlers run and what was sent is read, or the connection breaks; the reader
owes nothing. `BookingScreen`: the tab's queue is worked off. `WatchScreens`: timers fire and
replies are handled (weak); the tab serves a waiting call although navigation keeps
replacing the calls it competes with (strong, one per kind of call).
Restarts are bounded by `MaxFaults`: a server that restarts for ever is
promised nothing.

## What is proved

Every invariant and action property the passing runs check is proved, for every value of
the constants the named assumptions admit (`ParamAssumption`, `ReqsAssumption`,
`JdAssumption`, `SessionsAssumption`, ...); so are the steps of both refinements. What
is left to TLC is liveness. The assumptions say what the code says of its parameters:
natural numbers, finite sets of goroutines, a default among the lengths, model values
that are no data. One theorem has a hypothesis of its own, `ScoreHolds`.

| Module | Theorem | Statement |
|---|---|---|
| `AccountsProofs` | `TypeCorrect` | `Spec => []TypeOK` |
| | `OneDecision` | `Spec => []DecisionPerVerification` |
| | `OneChangePerToken` | `Spec => []PasswordChangeSpendsToken` |
| | `NoEarlyCutHolds` | `Spec => NoEarlyCut` |
| | `OneWarning` | `Spec => []OneWarningPerPeriod` |
| `DecisionTestProofs` | `TypeCorrect` | `Spec => []TypeOK` |
| | `OwnItemGraded` | `Spec => []GradedOnOwnItem` |
| | `FirstAnswerHolds` | `Spec => FirstAnswerStands` |
| | `FirstFinishHolds` | `Spec => FinishKeepsFirst` |
| | `RepeatsAreUnseen` | `Spec => []RepeatDrawsUnseen` |
| | `NothingIsLost` | `Spec => []NoSilentLoss` |
| `MeetingsProofs` | `TypeCorrect` | `Spec => []TypeOK` |
| | `ImplementsDiary` | `Spec => KeepsDiary` (the refinement) |
| | `OwnersTimeHolds` | `Spec => []OwnersTimeRespected` |
| | `StaleEventsAreExplained` | `Spec => []StaleEventsExplained` |
| | `OffersAreHonest` | `Spec => []OfferedCanBeClaimed` |
| `JdPipelineProofs` | `JdTypeCorrect` | `JdSpec => []JdTypeOK` |
| | `SlotsHeld` | `JdSpec => []SlotsHeldByWorkers` |
| | `LineKept` | `JdSpec => Line!LineInit /\ [][Line!LineNext]_(Line!lineVars)` |
| `JdReviewsProofs` | `RecordsAreTrue` | `JdSpec => []RunRecordsAreTrue` |
| | `LastMailHolds` | `JdSpec => []LastMailIsTrue` |
| | `ScoreHolds` | `Slots = 1` implies `JdSpec => []ScoreIsExplained` |
| `AskThreadProofs` | `TypeCorrect` | `Spec => []TypeOK` |
| | `FollowUpsKnow` | `Spec => []FollowUpsAreInformed` |
| | `QuestionsRemain` | `Spec => []QuestionsStay` |
| | `WaitsAreTimed` | `Spec => []WaitIsTimed` |
| | `LeavingIsReported` | `Spec => LeavingIsTold` |
| `BookingScreenProofs` | `OffersAreFree` | `Spec => []TakenIsNotOffered` |
| | `ListIsWhole` | `Spec => []HeldIsListed` |
| `WatchScreensProofs` | `ConsoleAsks` | `Spec => []ConsoleKeepsAsking` |
| | `OnlyKnownFreezes` | `Spec => []FreezesAreKnown` |
| | `TruncationHolds` | `Spec => []TruncationIsTold` |
| | `TypeCorrect` | the jobs and the screens are typed, the bound on `calls` aside |

Where an action is long, a first lemma reduces each step to its *shape*: which fields
it changes, how, and under which guard. The invariants are then carried over the
shapes. Hardly any of the properties is inductive by itself; each strengthening below was
model-checked on an instance before it was proved.

**Accounts.** `DecisionPerVerification` (`owned <= used`) needs the decisions that are on
their way: a goroutine that has spent a token and not yet flipped the row, a pending
row, and a goroutine that has flipped it and not yet written the ledger. `DecisionInv`
adds these up: recorded decisions, plus goroutines in `DecidingOps`, plus one if the
row is pending, never exceed the tokens used. Every step moves a unit between these
places or drops it; the guarded flips (`ActivatePending`, `DeclinePending`) are the
only way out of the pending row and spending a token the only way in. `PasswordInv`
counts the reset links spent and not yet turned into a hash in the same way, and
`WarningInv` the warnings: a mail is marked, about to be marked, or lost, and the job's
list has no row that is marked already. `NoEarlyCut` follows from `ExpireOne`'s own guard
once every other step is shown not to write the status `expired`.

**Decision test.** Typing needs to know that whatever is on its way names a question that
exists (`CallOK`, `WriteOK`, `ScreenOK`), and that nothing is called, shown or queued for a
session before its draw is committed (`NothingBefore`). `OwnItemGraded` follows:
an answer comes after the draw, and the draw is never changed. `LossInv` adds to
`NoSilentLoss` that an accepted call left its row behind, and that a closed page has
neither a queue nor an open call. `RepeatInv` follows the sittings a draw has
to avoid from its beginning to its commit: what they were given is excluded while it
is being made, and they stay committed. `EndTimed` says that a completed session has
its end time, which is why the statement's `COALESCE` keeps it.

**Meetings.** `RowsExist` says that a goroutine past the claim has a row. The
refinement is then step by step: only `ClaimBooking` adds an appointment, behind
`NoOverlap`; only a release or a cancellation removes one. `OwnInv` follows the
owner's appointments from what was known at submission, over the second look at the
calendar, to the interval of the claim. `EventInv` gives every row a single
maker, which knows what there is of it so far, so that a cancellation it did not see
is the only thing that can leave an event behind. `OffersAreHonest` is arithmetic on
intervals: the guard around a candidate against bare bookings is as strict
as the constraint on bookings with their clearance.

**JD pipeline.** `StepWalks` reduces each of the eleven steps of a run to where it takes
the goroutine and what it does to the slots: only `Acquire` enters `AtWork`, taking a slot,
and only `Release` leaves it, giving back its own. With that, `SlotsHeldByWorkers` is
inductive once the states are typed; a crash empties both sides at once. `LineKept` is
the step part of the refinement `RunsTakeTurns`: the slots counted by `Acquire` are the
runs the line sees working. `RunInv` says what is known of a run before its record says
it; `MailTold`, that the last mail is right, overtaken or lost, or a run has yet to send;
`ScoreInv`, that score and assessment belong together, or their runs lost a
statement, or a run is between the two. The last needs exclusion between `Assess` and
`Gate`: with two slots the theorem is false, since one run may assess between
another's assessment and its verdict. Hence its hypothesis `Slots = 1`, which the
code has as a constant (`PipelineConcurrency`, `jd/scorer.go`); a change of that
constant would need another argument for the row.

**Ask Roger.** `Sound` follows an answer from its row to the screen: the handler
stores before it sends, so what is on the wire, and then on the screen, is stored.
`HistoryInv` adds the order: in a thread whose questions were asked one after the other
over unbroken connections the rows are questions, each followed by its answer, the
screen follows them, and a handler is over before the next question can be asked. So the
pairs `turnsFrom` makes are the exchanges the reader saw, and the last of them are the
last the reader saw.
For the screen, `LastMayGo` says that while a stream has its final message still to
come, the message it will replace is an answer, or a question asked while an
answer was coming in; `Alone`, that a question asked otherwise has the thread to itself
until its text is there. `AskedWhenOpen` keeps the disclosure from overwriting
anything.

**Booking page.** Both properties are about a page at rest, so the invariant says what
everything still in the tab's queue will bring. `CallOK`: what a call has been answered
is true of the meetings the page knows of, whoever booked since. `TimesInv` and
`ListInv`: what is on the screen is right for the length chosen, or a call that will put
it right is queued; the exceptions (`crossed`, `late`, `kept`, `blind`) are part of both.
The ids of the proof are unbounded.

**Polling screens.** `ConsoleKeepsAsking` and `FreezesAreKnown` need to know which page a call belongs to
(`AtHome`), what its answer can be (`AnswersFit`), and that the look for a running
evaluation comes before anything else the page is told (`ResumeFirst`). The proof found
one flaw of the model: the reply to a start was a `CASE` whose guards overlapped for a
page that is gone, which leaves the choice open; it is an `IF` now: a component that is
gone shows nothing, whatever the answer.

Only model-checked: liveness (`PendingIsResolved`, `OverdueIsCut`, `OverdueSessionsEnd`,
`HoldIsResolved`, `OutageIsReported`, `ReviewsEnd`, `RunsTakeTurns`, `QuestionsSettle`,
`RunIsReattached`, `ListCatchesUp`), which with ENABLED is out of the
prover's reach; the bound on the calls of the tab in `WatchScreens!TypeOK`; and the two
statements the code does not keep. Induction over data and RECURSIVE operators are out
of its reach too; the modules use neither.

## Not modelled

`PROJECT.json` lists every component with its reason. In short: retrieval,
prompting and rendering are data without control; policy tables and telemetry have
no behaviour; rate limits are one mutex around arithmetic; analysis pages are
read-only. Inside the modelled components: mail wording, ICS files, time zones,
the bot check and breach lookup, profile edits, and what a session may do once
minted.

Of the front end, server-rendered pages, forms of one action and layout are left
out: what they show is what one call returned. Generated clients (`src/gen`) are
the wire format of the calls the models make.

## Seen while modelling

Behaviours the models reach and no property forbids, because the code has them. Where a
comment of the repository says otherwise it is named; the properties' comments name those
that bear on them:

- Accounts: a second verification link moves a decided account back to pending (the
  comment on `Verify` says it moves the user *from unverified*); an auto-decline
  overtakes an approval; a session minted while its account is cut survives, and so do
  all of its sessions when the statement that revokes them fails.
- Decision test: a run may be closed while an answer still waits to be resent
  (`run-screen.tsx` says they are stored by then); two fetches of a block overtake each
  other, so that the digits shown are not those recorded; a resend in flight when the
  page is hidden is in no beacon; and a page that comes back has emptied its queue into
  beacons, of which it never learns whether they arrived.
- Meetings: after the clearance is shortened, `Slots` offers starts next to older
  bookings that no claim can take. A claim whose answer from the database is lost leaves
  a hold without an event, which nobody was told of; a cancellation whose answer is
  lost leaves the event, and the second attempt finds the booking called off and answers
  ok.
- Calendar health: each failing probe moves the stamp its own marker is compared
  with, so the job mails at every interval although its comment says the marker
  prevents that.
- JD pipeline: a submission whose pipeline died before its first statement stays
  received; a lost `SetJdResume` leaves the row at generating until the next boot;
  a re-score leaves the earlier résumé beside the new score until it writes its own; an
  assessment that was not stored leaves a score without one; concurrent submissions
  pass the quota together; a mail may say what the row said before a re-score changed it.
- Ask Roger: moving between the panel and `/ask` starts a new thread
  (`ask-panel.tsx` says the thread stays alive as the reader moves around the site);
  a question asked while an answer is still coming in may be overwritten by that
  answer's last event, and its clock is stopped with it; a conversation that could
  not be opened is never tried again, although the reader is told to try again. After
  a broken connection the handler goes on, and its answer may be stored behind the next
  question: `turnsFrom` then drops it, or pairs it with that question.
- Booking page: a refresh is sent for the length of the render that asked for it, so
  the list may show times for a length that is no longer chosen, although
  `booking.tsx:146` refetches "per length"; after an error the page does not look for a
  hold that was kept.
- Polling screens: a poll that throws leaves the corpus panel and the evaluation page
  frozen, a start that throws leaves the panel's buttons disabled; the corpus panel
  does not find its job again after it was left, though it says (`job-panel.tsx:139`) that
  the numbers refresh on return; the detail dialog stops at an error answer, although
  `job-detail.tsx:70` says that a failed poll must not end the polling; an evaluation
  with 25 newer jobs behind it is not found again; the review page after an hour or one failure;
  an evaluation started before the look for a running one returned is polled twice.

## Plan

1. *Done:* accounts, decision-test sitting, meetings, calendar health, JD pipeline,
   job runner, and the browser's side of the chat, of booking and of polling; proofs
   of every invariant and action property the runs check, and of the steps of both
   refinements.
2. `DecisionTest`: review and clear of a block; a session's rights after sign-in in
   `Accounts`; the index of the corpus under two re-index jobs.
3. Proofs that go with these, and the safety part of `CalendarHealth` (what a report of
   the job was based on).
