------------------------------- MODULE Accounts -------------------------------
(***************************************************************************)
(* The member account: registration, e-mail verification, the owner's      *)
(* decision (one-click mail link or console), the whitelist, access        *)
(* extension, disabling, sign-in, password reset, and the three scheduler  *)
(* jobs that warn, expire and auto-decline.                                *)
(*                                                                         *)
(* A handler runs in a request goroutine.  It reads a row, decides, and    *)
(* writes with later statements; req[r] holds what goroutine r has read    *)
(* and the statement it will execute next, so two requests, or a request   *)
(* and a job, interleave between statements as they do in the program.     *)
(***************************************************************************)
EXTENDS AccountTables

CONSTANTS
    Reqs,           \* request goroutines
    Calls,          \* the RPCs, links and jobs the environment uses
    AcceptTTL,      \* access granted by an owner approval (30 days)
    PendingTTL,     \* how long a request may stay pending (7 days)
    WarnWindow,     \* how far ahead of expiry the reminder fires (3 days)
    Extensions,     \* the values of extend_days
    Dates,          \* the values of new_expires_at
    Grants,         \* the TTLs of whitelist entries, Never for a permanent one
    MaxNow,         \* bound: the clock stops here
    MaxTokens,      \* bound: verify tokens ever minted per account
    MaxResets,      \* bound: reset tokens ever minted per account
    MaxExpiry,      \* bound: the latest expires_at reached by extend_days
    MaxFaults       \* bound: restarts, and best-effort statements that fail

ASSUME ParamAssumption ==
    /\ AcceptTTL  \in Nat /\ PendingTTL \in Nat /\ WarnWindow \in Nat
    /\ Extensions \subseteq Nat /\ Dates \subseteq Nat
    /\ Grants \subseteq Time
    /\ MaxNow \in Nat /\ MaxTokens \in Nat /\ MaxResets \in Nat
    /\ MaxExpiry \in Nat /\ MaxFaults \in Nat

ASSUME ReqsAssumption == IsFiniteSet(Reqs)

VARIABLES
    now,        \* the clock
    grant,      \* access_grants: NoGrant, or the TTL of the active entry (Never: permanent)
    owned,      \* approval_decisions: rows written by the owner or the whitelist
    lapsed,     \* approval_decisions: rows written by the scheduler
    req,        \* the request goroutines
    warner,     \* the expiry-warn job: listed users, and the one being marked
    cutter,     \* the expiry-cut job: listed users, and the one being finished
    decliner,   \* the auto-decline job: listed users, and the one being recorded
    notified,   \* ExpiryJobs.notifiedWarn, lost on restart
    warnings,   \* expiry warnings mailed since the access period opened
    lost,       \* warnings mailed whose marker was never written
    faults      \* restarts and failed best-effort statements so far

vars == <<tables, now, grant, owned, lapsed, req, warner, cutter, decliner,
          notified, warnings, lost, faults>>

Ops == {"idle", "mintVerify", "lookup", "autoApprove", "park", "recordOwner",
        "approve", "decline", "recordDecline", "revoke", "extend", "revive",
        "login", "mint", "readReset", "setHash", "resetRevoke"}

\* The statements whose failure is logged and survived; that of any other ends
\* the handler.
BestEffort == {"idle", "recordOwner", "recordDecline", "revoke", "login", "resetRevoke"}

Request == [op : Ops, user : Users \cup {Nobody}, target : Time, wasExpired : BOOLEAN]
Job     == [list : SUBSET Users, at : Users \cup {Nobody}]

Idle    == [op |-> "idle", user |-> Nobody, target |-> Never, wasExpired |-> FALSE]
JobIdle == [list |-> {}, at |-> Nobody]

RequestsOK ==
    /\ req \in [Reqs -> Request]
    /\ \A r \in Reqs : req[r].op # "idle" => req[r].user \in Users

JobsOK ==
    /\ warner \in Job /\ cutter \in Job /\ decliner \in Job
    /\ notified \subseteq Users

CountsOK ==
    /\ owned    \in [Users -> Nat]
    /\ lapsed   \in [Users -> Nat]
    /\ warnings \in [Users -> Nat]
    /\ lost     \in [Users -> Nat]

EnvOK ==
    /\ now    \in Nat
    /\ grant  \in [Users -> Time \cup {NoGrant}]
    /\ faults \in Nat

\* Every table, goroutine and job holds what its columns and fields admit.
TypeOK == TablesOK /\ RequestsOK /\ JobsOK /\ CountsOK /\ EnvOK

Init ==
    /\ TablesInit
    /\ now = 0
    /\ grant    = [u \in Users |-> NoGrant]
    /\ owned    = [u \in Users |-> 0]
    /\ lapsed   = [u \in Users |-> 0]
    /\ req      = [r \in Reqs |-> Idle]
    /\ warner = JobIdle /\ cutter = JobIdle /\ decliner = JobIdle
    /\ notified = {}
    /\ warnings = [u \in Users |-> 0]
    /\ lost     = [u \in Users |-> 0]
    /\ faults   = 0

-----------------------------------------------------------------------------
jobs    == <<warner, cutter, decliner, notified>>
mail    == <<warnings, lost>>
ledger  == <<owned, lapsed>>
env     == <<now, grant, faults>>

\* Goroutine r serves a new call `c`.
Begin(r, c) == c \in Calls /\ req[r].op = "idle"

\* Goroutine r will execute `op` for u next.
Start(r, u, op) ==
    req' = [req EXCEPT ![r] = [op |-> op, user |-> u, target |-> Never,
                               wasExpired |-> FALSE]]

\* Goroutine r goes on with `op` for the user it already serves.
Then(r, op) == req' = [req EXCEPT ![r].op = op]

\* The same, with the timestamp or the TTL that `op` will write.
ThenWrite(r, op, t) == req' = [req EXCEPT ![r].op = op, ![r].target = t]

Done(r) == req' = [req EXCEPT ![r] = Idle]

At(r, op, u) == req[r].op = op /\ req[r].user = u

Plus(t) == IF t = Never THEN Never ELSE now + t

\* A new access period is one about which no warning has been mailed.
OpensPeriod(u) == warnings' = [warnings EXCEPT ![u] = 0]

\* Something the code logs and survives goes wrong.
Fault == faults < MaxFaults /\ faults' = faults + 1

\* Sessions are revoked best effort wherever an account stops.
RevokeOrLog(u) ==
    \/ RevokeSessions(u) /\ UNCHANGED faults
    \/ Fault /\ UNCHANGED sessions

\* approval_decisions rows are inserted best effort.
RecordOrLog(rows, rowsNext, u) ==
    \/ rowsNext = [rows EXCEPT ![u] = @ + 1] /\ UNCHANGED faults
    \/ Fault /\ rowsNext = rows

-----------------------------------------------------------------------------
(* Registration and verification *)

\* Create is a no-op on a duplicate address; only an unverified row gets mail.
Register(r, u) ==
    /\ Begin(r, "register")
    /\ users[u].status \in {"absent", "unverified"}
    /\ verify[u].live + verify[u].used < MaxTokens
    /\ CreateUser(u)
    /\ Start(r, u, "mintVerify")
    /\ UNCHANGED <<verify, reset, sessions, jobs, mail, ledger, env>>

MintVerify(r, u) ==
    /\ At(r, "mintVerify", u)
    /\ CreateVerifyToken(u)
    /\ Done(r)
    /\ UNCHANGED <<users, reset, sessions, jobs, mail, ledger, env>>

VerifyLink(r, u) ==
    /\ Begin(r, "verify")
    /\ ConsumeVerifyToken(u, now)
    /\ Start(r, u, "lookup")
    /\ UNCHANGED <<users, reset, sessions, jobs, mail, ledger, env>>

\* The whitelist is read; what the handler writes next follows what it read,
\* whatever becomes of the entry.
GetActiveGrant(r, u) ==
    /\ At(r, "lookup", u)
    /\ IF grant[u] = NoGrant
       THEN Then(r, "park")
       ELSE ThenWrite(r, "autoApprove", grant[u])
    /\ UNCHANGED <<tables, jobs, mail, ledger, env>>

\* The row's status plays no part in what a consumed token does to it.  The
\* TTL is the one looked up, counted from the time of the write.
ApplyWhitelistAutoApprove(r, u) ==
    /\ At(r, "autoApprove", u)
    /\ Activate(u, Plus(req[r].target))
    /\ OpensPeriod(u)
    /\ Then(r, "recordOwner")
    /\ UNCHANGED <<verify, reset, sessions, warner, cutter, decliner, notified,
                   lost, ledger, env>>

ApplyPendingApproval(r, u) ==
    /\ At(r, "park", u)
    /\ SetStatus(u, "pending_approval")
    /\ Done(r)
    /\ UNCHANGED <<verify, reset, sessions, jobs, mail, ledger, env>>

TokenLapses(u) ==
    /\ \/ VerifyTokenLapses(u) /\ UNCHANGED reset
       \/ ResetTokenLapses(u) /\ UNCHANGED verify
    /\ UNCHANGED <<users, sessions, req, jobs, mail, ledger, env>>

-----------------------------------------------------------------------------
(* The owner's decision *)

\* The mail link and the console both look for a pending row first.
Decide(r, u, decision) ==
    /\ Begin(r, "decide")
    /\ Is(u, "pending_approval")
    /\ Start(r, u, decision)
    /\ UNCHANGED <<tables, jobs, mail, ledger, env>>

ApproveUser(r, u) ==
    /\ At(r, "approve", u)
    /\ \/ /\ ActivatePending(u, now + AcceptTTL)
          /\ OpensPeriod(u)
          /\ Then(r, "recordOwner")
       \/ /\ ~ Is(u, "pending_approval")
          /\ Done(r)
          /\ UNCHANGED <<users, warnings>>
    /\ UNCHANGED <<verify, reset, sessions, warner, cutter, decliner, notified,
                   lost, ledger, env>>

DeclineUser(r, u) ==
    /\ At(r, "decline", u)
    /\ \/ DeclinePending(u) /\ Then(r, "recordDecline")
       \/ ~ Is(u, "pending_approval") /\ Done(r) /\ UNCHANGED users
    /\ UNCHANGED <<verify, reset, sessions, jobs, mail, ledger, env>>

\* The insert is best effort: a failure is logged and the handler goes on.
RecordApprovalDecision(r, u) ==
    /\ \/ At(r, "recordOwner", u) /\ Done(r)
       \/ At(r, "recordDecline", u) /\ Then(r, "revoke")
    /\ RecordOrLog(owned, owned', u)
    /\ UNCHANGED <<tables, jobs, mail, lapsed, now, grant>>

-----------------------------------------------------------------------------
(* The administrator *)

SetMemberStatus(r, u, s) ==
    /\ Begin(r, "setStatus")
    /\ ~ Is(u, "absent")
    /\ SetStatus(u, s)
    /\ IF s = "disabled" THEN Start(r, u, "revoke") ELSE UNCHANGED req
    /\ UNCHANGED <<verify, reset, sessions, jobs, mail, ledger, env>>

\* The last statement of a decline and of a disable.
RevokeAll(r, u) ==
    /\ At(r, "revoke", u)
    /\ RevokeOrLog(u)
    /\ Done(r)
    /\ UNCHANGED <<users, verify, reset, jobs, mail, ledger, now, grant>>

\* extend_days counts from the later of now and the current expiry; the other
\* two modes name the new expiry.
ExtendTargets(u) ==
    LET base == IF users[u].expiresAt # Never /\ users[u].expiresAt > now
                THEN users[u].expiresAt ELSE now
    IN  {base + d : d \in {n \in Extensions : base + n <= MaxExpiry}}
            \cup Dates \cup {Never}

\* The handler computes the new expiry from the row it reads here.
ExtendAccess(r, u, t) ==
    /\ Begin(r, "extend")
    /\ ~ Is(u, "absent")
    /\ req' = [req EXCEPT ![r] = [op |-> "extend", user |-> u, target |-> t,
                                  wasExpired |-> Is(u, "expired")]]
    /\ UNCHANGED <<tables, jobs, mail, ledger, env>>

\* SetExpiresAt, then the test on the status read earlier.
ExtendSave(r, u) ==
    /\ At(r, "extend", u)
    /\ SetExpiresAt(u, req[r].target)
    /\ OpensPeriod(u)
    /\ IF /\ req[r].wasExpired
          /\ req[r].target # Never
          /\ req[r].target > now
       THEN Then(r, "revive") ELSE Done(r)
    /\ UNCHANGED <<verify, reset, sessions, jobs, lost, ledger, env>>

ExtendRevive(r, u) ==
    /\ At(r, "revive", u)
    /\ SetStatus(u, "active")
    /\ Done(r)
    /\ UNCHANGED <<verify, reset, sessions, jobs, mail, ledger, env>>

UpsertAccessGrant(u, ttl) ==
    /\ "grant" \in Calls
    /\ grant' = [grant EXCEPT ![u] = ttl]
    /\ UNCHANGED <<tables, req, jobs, mail, ledger, now, faults>>

\* Deleting the entry, or its own entry_expires_at passing.
DeleteAccessGrant(u) ==
    /\ grant[u] # NoGrant
    /\ grant' = [grant EXCEPT ![u] = NoGrant]
    /\ UNCHANGED <<tables, req, jobs, mail, ledger, now, faults>>

-----------------------------------------------------------------------------
(* Sign-in, sign-out and password reset *)

\* Past the password, the status decides; an expiry that has passed but was
\* not swept yet does not.
Login(r, u) ==
    /\ Begin(r, "login")
    /\ Is(u, "active")
    /\ Start(r, u, "login")
    /\ UNCHANGED <<tables, jobs, mail, ledger, env>>

\* The session the browser presented, if it presented one, is revoked best effort.
RevokeOldSession(r, u) ==
    /\ At(r, "login", u)
    /\ \/ UNCHANGED <<sessions, faults>>
       \/ \E old \in Sids : RevokeSession(old) /\ UNCHANGED faults
       \/ Fault /\ UNCHANGED sessions
    /\ Then(r, "mint")
    /\ UNCHANGED <<users, verify, reset, jobs, mail, ledger, now, grant>>

\* Sids bounds the sessions followed: one beyond them leaves no trace here.
MintSession(r, u) ==
    /\ At(r, "mint", u)
    /\ \/ \E s \in Sids : CreateSession(u, s)
       \/ (\A s \in Sids : sessions[s] # Nobody) /\ UNCHANGED sessions
    /\ Done(r)
    /\ UNCHANGED <<users, verify, reset, jobs, mail, ledger, env>>

\* Sign-out, or the session's own expiry.
Logout(s) ==
    /\ sessions[s] # Nobody
    /\ RevokeSession(s)
    /\ UNCHANGED <<users, verify, reset, req, jobs, mail, ledger, env>>

ForgotPassword(u) ==
    /\ "reset" \in Calls
    /\ ~ Is(u, "absent")
    /\ reset[u].live + reset[u].used < MaxResets
    /\ CreateResetToken(u)
    /\ UNCHANGED <<users, verify, sessions, req, jobs, mail, ledger, env>>

\* The token is spent first.
ResetPassword(r, u) ==
    /\ Begin(r, "reset")
    /\ ConsumeResetToken(u)
    /\ Start(r, u, "readReset")
    /\ UNCHANGED <<users, verify, sessions, jobs, mail, ledger, env>>

\* A refused account or a breached password ends the handler with the token gone.
ResetRead(r, u) ==
    /\ At(r, "readReset", u)
    /\ \/ ~ Is(u, "disabled") /\ ~ Is(u, "declined") /\ Then(r, "setHash")
       \/ Done(r)
    /\ UNCHANGED <<tables, jobs, mail, ledger, env>>

ResetSetHash(r, u) ==
    /\ At(r, "setHash", u)
    /\ SetPasswordHash(u)
    /\ Then(r, "resetRevoke")
    /\ UNCHANGED <<verify, reset, sessions, jobs, mail, ledger, env>>

ResetRevoke(r, u) ==
    /\ At(r, "resetRevoke", u)
    /\ RevokeOrLog(u)
    /\ Then(r, "mint")
    /\ UNCHANGED <<users, verify, reset, jobs, mail, ledger, now, grant>>

-----------------------------------------------------------------------------
(* The scheduler jobs: each is one goroutine, so a run starts only when the *)
(* last one is over.                                                        *)

Listing(job, c) == c \in Calls /\ job = JobIdle

WarnJob ==
    /\ Listing(warner, "warn")
    /\ warner' = [JobIdle EXCEPT !.list = ExpiringSoon(now, WarnWindow)]
    /\ UNCHANGED <<tables, req, cutter, decliner, notified, mail, ledger, env>>

\* The mail may fail, and then nothing is recorded.  A member this process has
\* already warned is passed over.
WarnSend(u) ==
    /\ warner.at = Nobody /\ u \in warner.list
    /\ \/ /\ u \notin notified
          /\ warnings' = [warnings EXCEPT ![u] = @ + 1]
          /\ notified' = notified \cup {u}
          /\ warner' = [list |-> warner.list \ {u}, at |-> u]
       \/ /\ warner' = [warner EXCEPT !.list = @ \ {u}]
          /\ UNCHANGED <<warnings, notified>>
    /\ UNCHANGED <<tables, req, cutter, decliner, lost, ledger, env>>

WarnMark(u) ==
    /\ warner.at = u
    /\ \/ MarkExpiryWarned(u) /\ UNCHANGED <<lost, faults>>
       \/ Fault /\ lost' = [lost EXCEPT ![u] = @ + 1] /\ UNCHANGED users
    /\ warner' = [warner EXCEPT !.at = Nobody]
    /\ UNCHANGED <<verify, reset, sessions, req, cutter, decliner, notified,
                   warnings, ledger, now, grant>>

ExpireJob ==
    /\ Listing(cutter, "cut")
    /\ cutter' = [JobIdle EXCEPT !.list = Expired(now)]
    /\ UNCHANGED <<tables, req, warner, decliner, notified, mail, ledger, env>>

\* Mutant: the flip is not followed up, so the sessions survive it.
ExpireFlipOnly(u) ==
    /\ cutter.at = Nobody /\ u \in cutter.list
    /\ ExpireOne(u, now) \/ UNCHANGED users
    /\ cutter' = [cutter EXCEPT !.list = @ \ {u}]
    /\ UNCHANGED <<verify, reset, sessions, req, warner, decliner, notified,
                   mail, ledger, env>>

\* A row another writer has changed since it was listed is passed over, and so
\* is one whose update fails.
ExpireFlip(u) ==
    /\ cutter.at = Nobody /\ u \in cutter.list
    /\ \/ /\ ExpireOne(u, now)
          /\ cutter' = [list |-> cutter.list \ {u}, at |-> u]
          /\ UNCHANGED faults
       \/ /\ \/ ~ Overdue(u, now) /\ UNCHANGED faults
             \/ Fault
          /\ cutter' = [cutter EXCEPT !.list = @ \ {u}]
          /\ UNCHANGED users
    /\ UNCHANGED <<verify, reset, sessions, req, warner, decliner, notified,
                   mail, ledger, now, grant>>

ExpireRevoke(u) ==
    /\ cutter.at = u
    /\ RevokeOrLog(u)
    /\ notified' = notified \ {u}
    /\ cutter' = [cutter EXCEPT !.at = Nobody]
    /\ UNCHANGED <<users, verify, reset, req, warner, decliner, mail, ledger,
                   now, grant>>

AutoDecline ==
    /\ Listing(decliner, "autoDecline")
    /\ decliner' = [JobIdle EXCEPT !.list = PendingOlderThan(now, PendingTTL)]
    /\ UNCHANGED <<tables, req, warner, cutter, notified, mail, ledger, env>>

\* Whatever the status has become since the row was listed; a row whose update
\* fails is passed over.
AutoDeclineFlip(u) ==
    /\ decliner.at = Nobody /\ u \in decliner.list
    /\ \/ /\ SetStatus(u, "declined")
          /\ decliner' = [list |-> decliner.list \ {u}, at |-> u]
          /\ UNCHANGED faults
       \/ /\ Fault
          /\ decliner' = [decliner EXCEPT !.list = @ \ {u}]
          /\ UNCHANGED users
    /\ UNCHANGED <<verify, reset, sessions, req, warner, cutter, notified,
                   mail, ledger, now, grant>>

AutoDeclineRecord(u) ==
    /\ decliner.at = u
    /\ RecordOrLog(lapsed, lapsed', u)
    /\ decliner' = [decliner EXCEPT !.at = Nobody]
    /\ UNCHANGED <<tables, req, warner, cutter, notified, mail, owned, now, grant>>

-----------------------------------------------------------------------------
(* The world *)

Tick ==
    /\ now < MaxNow
    /\ now' = now + 1
    /\ UNCHANGED <<tables, req, jobs, mail, ledger, grant, faults>>

\* A crash or a deploy: goroutines and the in-process map are gone.
Restart ==
    /\ Fault
    /\ req' = [r \in Reqs |-> Idle]
    /\ warner' = JobIdle /\ cutter' = JobIdle /\ decliner' = JobIdle
    /\ notified' = {}
    /\ lost' = [u \in Users |-> IF warner.at = u THEN lost[u] + 1 ELSE lost[u]]
    /\ UNCHANGED <<tables, warnings, ledger, now, grant>>

\* The database refuses the statement goroutine r is about to execute, and the
\* handler answers with an error; what it wrote before stays.
StatementFails(r) ==
    /\ req[r].op \notin BestEffort
    /\ Fault
    /\ Done(r)
    /\ UNCHANGED <<tables, jobs, mail, ledger, now, grant>>

\* The statements goroutine r executes without waiting for anyone.
Continue(r, u) ==
    \/ MintVerify(r, u) \/ GetActiveGrant(r, u)
    \/ ApplyWhitelistAutoApprove(r, u) \/ ApplyPendingApproval(r, u)
    \/ ApproveUser(r, u) \/ DeclineUser(r, u)
    \/ RecordApprovalDecision(r, u)
    \/ RevokeAll(r, u)
    \/ ExtendSave(r, u) \/ ExtendRevive(r, u)
    \/ ResetRead(r, u) \/ ResetSetHash(r, u) \/ ResetRevoke(r, u)
    \/ RevokeOldSession(r, u) \/ MintSession(r, u)

Call(r, u) ==
    \/ Register(r, u) \/ VerifyLink(r, u)
    \/ \E d \in {"approve", "decline"} : Decide(r, u, d)
    \/ \E s \in {"active", "disabled"} : SetMemberStatus(r, u, s)
    \/ \E t \in ExtendTargets(u) : ExtendAccess(r, u, t)
    \/ Login(r, u) \/ ResetPassword(r, u)

WarnStep    == WarnJob     \/ \E u \in Users : WarnSend(u) \/ WarnMark(u)
CutStep     == ExpireJob   \/ \E u \in Users : ExpireFlip(u) \/ ExpireRevoke(u)
DeclineStep == AutoDecline \/ \E u \in Users : AutoDeclineFlip(u) \/ AutoDeclineRecord(u)

World ==
    \/ \E u \in Users :
          \/ TokenLapses(u) \/ ForgotPassword(u) \/ DeleteAccessGrant(u)
          \/ \E ttl \in Grants : UpsertAccessGrant(u, ttl)
    \/ \E s \in Sids : Logout(s)
    \/ \E r \in Reqs : StatementFails(r)
    \/ Tick \/ Restart

Next ==
    \/ \E r \in Reqs, u \in Users : Call(r, u) \/ Continue(r, u)
    \/ WarnStep \/ CutStep \/ DeclineStep
    \/ World

Spec == Init /\ [][Next]_vars

\* A goroutine runs to its end, the scheduler keeps firing its jobs, and time
\* passes.  Nobody is obliged to call.
Fairness ==
    /\ \A r \in Reqs : WF_vars(\E u \in Users : Continue(r, u))
    /\ WF_vars(WarnStep) /\ WF_vars(CutStep) /\ WF_vars(DeclineStep)
    /\ WF_vars(Tick)

FairSpec == Spec /\ Fairness

-----------------------------------------------------------------------------
(* Properties *)

\* However many mail links, console clicks and whitelist hits race, one
\* verification of the address yields at most one decision that took effect
\* and was recorded (approval_decisions; the guarded flips of ApproveUser and
\* DeclineUser; the single use of the verify token).
DecisionPerVerification == \A u \in Users : owned[u] <= verify[u].used

\* The hard cut, working from a list read earlier, never ends an access that an
\* administrator has extended or made permanent in the meantime (ExpireOne).
NoEarlyCut ==
    [][\A u \in Users :
          Is(u, "active") /\ users'[u].status = "expired" =>
              users[u].expiresAt # Never /\ users[u].expiresAt <= now]_vars

\* A second warning about the same access period takes a marker that was never
\* written: a restart alone does not repeat the mail (expiry_warning_sent_at).
OneWarningPerPeriod == \A u \in Users : warnings[u] <= 1 + lost[u]

\* Concurrent uses of one reset link change the password at most once: every
\* change of a password has a spent reset token of its own (ConsumeToken).
PasswordChangeSpendsToken == \A u \in Users : users[u].pw <= reset[u].used

\* A request nobody decides is resolved by the auto-decline job, if the clock
\* of this instance lives long enough for the token to age.
PendingIsResolved ==
    \A u \in Users :
        Is(u, "pending_approval") /\ now + PendingTTL < MaxNow
            ~> ~ Is(u, "pending_approval")

\* An access period that is over ends, or is extended.
OverdueIsCut == \A u \in Users : Overdue(u, now) ~> ~ Overdue(u, now)

\* With no failure on the way, a session that is live when its member's access
\* runs out dies with the access, unless the account is moved to another state.
OverdueSessionsEnd ==
    \A u \in Users, s \in Sids :
        faults = 0 /\ sessions[s] = u /\ Overdue(u, now)
            ~> \/ sessions[s] # u
               \/ ~ Is(u, "expired") /\ ~ Overdue(u, now)
               \/ faults > 0

-----------------------------------------------------------------------------
(* Inductive strengthenings, proved in AccountsProofs *)

Serving(u, ops) == {r \in Reqs : req[r].user = u /\ req[r].op \in ops}

\* A spent verify token is at one place: with the goroutine that spent it, in a
\* pending row, with the goroutine that decided the row, or in the ledger.
DecidingOps == {"lookup", "autoApprove", "park", "recordOwner", "recordDecline"}
Deciding(u) == Serving(u, DecidingOps)
Pending(u)  == IF Is(u, "pending_approval") THEN 1 ELSE 0
DecisionInv ==
    \A u \in Users : owned[u] + Cardinality(Deciding(u)) + Pending(u) <= verify[u].used

\* A spent reset token is with the goroutine that spent it, or in the password.
ResettingOps == {"readReset", "setHash"}
Resetting(u) == Serving(u, ResettingOps)
PasswordInv ==
    \A u \in Users : users[u].pw + Cardinality(Resetting(u)) <= reset[u].used

\* A mailed warning is marked, about to be marked, or lost; and the job's list
\* holds only rows without a marker.
WarningInv ==
    /\ \A u \in Users :
          warnings[u] <= lost[u] + (IF users[u].warned \/ warner.at = u THEN 1 ELSE 0)
    /\ \A u \in warner.list : ~ users[u].warned /\ warner.at # u

-----------------------------------------------------------------------------
(* A statement of the repository's comments that the code does not keep *)

\* access_grants.go says that the warning marker is cleared whenever
\* expires_at changes.
ExpiryChangeClearsMarker ==
    [][\A u \in Users :
          users'[u].expiresAt # users[u].expiresAt => ~ users'[u].warned]_vars
=============================================================================
