---------------------------- MODULE AccountTables ----------------------------
(***************************************************************************)
(* The tables behind a member account, and the SQL statements of           *)
(* internal/users that write them.  One statement is one atomic step of    *)
(* Postgres, so an operator here is the unit from which the handlers and   *)
(* the scheduler jobs of module Accounts are built.                        *)
(*                                                                         *)
(* Time is a natural number; Never is the NULL of a nullable timestamp.    *)
(***************************************************************************)
EXTENDS Integers, FiniteSets

CONSTANTS
    Users,      \* the e-mail addresses that may register
    Sids,       \* session rows (a row is reused once its session is dead)
    Never,      \* the NULL timestamp
    Nobody,     \* no user
    NoGrant     \* no whitelist entry

ASSUME NeverAssumption   == Never \notin Int
ASSUME NobodyAssumption  == Nobody \notin Users
ASSUME NoGrantAssumption == NoGrant \notin Int /\ NoGrant # Never

VARIABLES
    users,      \* users: status, expires_at, expiry_warning_sent_at, and how
                \*   often password_hash was overwritten
    verify,     \* email_tokens, purpose 'verify': live and used counts, first use
    reset,      \* email_tokens, purpose 'reset': live and used counts
    sessions    \* sessions: the owner of each live session

tables == <<users, verify, reset, sessions>>

Time   == Nat \cup {Never}
Status == {"absent", "unverified", "pending_approval", "active",
           "declined", "expired", "disabled"}
UserRow   == [status : Status, expiresAt : Time, warned : BOOLEAN, pw : Nat]
VerifyRow == [live : Nat, used : Nat, first : Time]
ResetRow  == [live : Nat, used : Nat]

TablesOK ==
    /\ users    \in [Users -> UserRow]
    /\ verify   \in [Users -> VerifyRow]
    /\ reset    \in [Users -> ResetRow]
    /\ sessions \in [Sids -> Users \cup {Nobody}]

TablesInit ==
    /\ users    = [u \in Users |->
                     [status |-> "absent", expiresAt |-> Never,
                      warned |-> FALSE,    pw |-> 0]]
    /\ verify   = [u \in Users |-> [live |-> 0, used |-> 0, first |-> Never]]
    /\ reset    = [u \in Users |-> [live |-> 0, used |-> 0]]
    /\ sessions = [s \in Sids |-> Nobody]

-----------------------------------------------------------------------------
(* users *)

Is(u, s) == users[u].status = s

CreateUser(u) == users' = [users EXCEPT ![u].status = "unverified"]

\* UPDATE users SET status: no condition on the status it overwrites.
SetStatus(u, s) == users' = [users EXCEPT ![u].status = s]

\* Activation opens a new access period: new expiry, warning marker cleared.
Activate(u, t) ==
    users' = [users EXCEPT ![u].status = "active", ![u].expiresAt = t, ![u].warned = FALSE]

\* Mutant: the one-click flip without its status condition.
ActivatePendingUnguarded(u, t) == Activate(u, t)

\* The guarded flips report whether the row was still pending; a caller that
\* lost the race writes nothing.
ActivatePending(u, t) == Is(u, "pending_approval") /\ Activate(u, t)
DeclinePending(u)     == Is(u, "pending_approval") /\ SetStatus(u, "declined")

SetExpiresAt(u, t) == users' = [users EXCEPT ![u].expiresAt = t]

SetPasswordHash(u) == users' = [users EXCEPT ![u].pw = @ + 1]

MarkExpiryWarned(u) == users' = [users EXCEPT ![u].warned = TRUE]

\* The rows the hard-cut job lists, and the condition ExpireOne re-checks.
Overdue(u, now) ==
    /\ Is(u, "active")
    /\ users[u].expiresAt # Never
    /\ users[u].expiresAt <= now

\* Mutant: only members who were warned are cut.
ExpiredIfWarned(now) == {u \in Users : Overdue(u, now) /\ users[u].warned}

Expired(now) == {u \in Users : Overdue(u, now)}

\* Mutant: the flip trusts the list it was given.
ExpireOneUnguarded(u, now) == now \in Nat /\ SetStatus(u, "expired")

ExpireOne(u, now) == Overdue(u, now) /\ SetStatus(u, "expired")

\* Mutant: the query does not look at the marker.
ExpiringSoonUnmarked(now, within) ==
    {u \in Users : /\ Is(u, "active")
                   /\ users[u].expiresAt # Never
                   /\ now < users[u].expiresAt
                   /\ users[u].expiresAt <= now + within}

ExpiringSoon(now, within) ==
    {u \in Users : /\ Is(u, "active")
                   /\ users[u].expiresAt # Never
                   /\ now < users[u].expiresAt
                   /\ users[u].expiresAt <= now + within
                   /\ ~ users[u].warned}

\* Mutant: the comparison of the first use with the cut-off is reversed.
PendingYoungerThan(now, age) ==
    {u \in Users : /\ Is(u, "pending_approval")
                   /\ verify[u].first # Never
                   /\ verify[u].first > now - age}

\* Any used verify token of the account counts, so its first use decides.
PendingOlderThan(now, age) ==
    {u \in Users : /\ Is(u, "pending_approval")
                   /\ verify[u].first # Never
                   /\ verify[u].first < now - age}

-----------------------------------------------------------------------------
(* email_tokens *)

CreateVerifyToken(u) == verify' = [verify EXCEPT ![u].live = @ + 1]
CreateResetToken(u)  == reset'  = [reset  EXCEPT ![u].live = @ + 1]

\* Mutant: consumption does not look for an unused token.
ConsumeVerifyTokenBlindly(u, now) ==
    verify' = [verify EXCEPT ![u] =
                 [live |-> @.live - 1, used |-> @.used + 1, first |-> now]]

\* One UPDATE matches a token that is unused and unexpired and marks it used.
ConsumeVerifyToken(u, now) ==
    /\ verify[u].live > 0
    /\ verify' = [verify EXCEPT ![u] =
                    [live  |-> @.live - 1,
                     used  |-> @.used + 1,
                     first |-> IF @.first = Never THEN now ELSE @.first]]

\* Mutant: a used token is accepted again.
ConsumeResetTokenAgain(u) ==
    \/ /\ reset[u].live > 0
       /\ reset' = [reset EXCEPT ![u] = [live |-> @.live - 1, used |-> @.used + 1]]
    \/ reset[u].used > 0 /\ UNCHANGED reset

ConsumeResetToken(u) ==
    /\ reset[u].live > 0
    /\ reset' = [reset EXCEPT ![u] = [live |-> @.live - 1, used |-> @.used + 1]]

VerifyTokenLapses(u) ==
    /\ verify[u].live > 0
    /\ verify' = [verify EXCEPT ![u].live = @ - 1]

ResetTokenLapses(u) ==
    /\ reset[u].live > 0
    /\ reset' = [reset EXCEPT ![u].live = @ - 1]

-----------------------------------------------------------------------------
(* sessions *)

RevokeSession(s) == sessions' = [sessions EXCEPT ![s] = Nobody]

RevokeSessions(u) ==
    sessions' = [s \in Sids |-> IF sessions[s] = u THEN Nobody ELSE sessions[s]]

CreateSession(u, s) ==
    /\ sessions[s] = Nobody
    /\ sessions' = [sessions EXCEPT ![s] = u]
=============================================================================
