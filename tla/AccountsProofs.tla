---------------------------- MODULE AccountsProofs ----------------------------
(***************************************************************************)
(* Theorems about Accounts, for any set of users and sessions, any number  *)
(* of request goroutines, and any values of the time-outs and bounds.      *)
(***************************************************************************)
EXTENDS Accounts, FiniteSetTheorems, TLAPS

-----------------------------------------------------------------------------
(* What one statement leaves behind *)

\* Every UPDATE and INSERT of users keeps the columns in range.
LEMMA UserStatementsTyped ==
  ASSUME users \in [Users -> UserRow], NEW u \in Users
  PROVE  /\ CreateUser(u) => users' \in [Users -> UserRow]
         /\ \A s \in Status : SetStatus(u, s) => users' \in [Users -> UserRow]
         /\ \A t \in Time : Activate(u, t) => users' \in [Users -> UserRow]
         /\ \A t \in Time : SetExpiresAt(u, t) => users' \in [Users -> UserRow]
         /\ MarkExpiryWarned(u) => users' \in [Users -> UserRow]
         /\ SetPasswordHash(u) => users' \in [Users -> UserRow]
<1>1. CreateUser(u) => users' \in [Users -> UserRow]
  BY DEF CreateUser, UserRow, Status
<1>2. ASSUME NEW s \in Status, SetStatus(u, s) PROVE users' \in [Users -> UserRow]
  BY <1>2 DEF SetStatus, UserRow
<1>3. ASSUME NEW t \in Time, Activate(u, t) PROVE users' \in [Users -> UserRow]
  BY <1>3 DEF Activate, UserRow, Status
<1>4. ASSUME NEW t \in Time, SetExpiresAt(u, t) PROVE users' \in [Users -> UserRow]
  BY <1>4 DEF SetExpiresAt, UserRow
<1>5. MarkExpiryWarned(u) => users' \in [Users -> UserRow]
  BY DEF MarkExpiryWarned, UserRow
<1>6. SetPasswordHash(u) => users' \in [Users -> UserRow]
  BY DEF SetPasswordHash, UserRow
<1> QED BY <1>1, <1>2, <1>3, <1>4, <1>5, <1>6

\* Every statement on the two kinds of e-mail token keeps the counts natural.
LEMMA TokenStatementsTyped ==
  ASSUME verify \in [Users -> VerifyRow], reset \in [Users -> ResetRow],
         NEW u \in Users, NEW t \in Nat
  PROVE  /\ CreateVerifyToken(u) \/ ConsumeVerifyToken(u, t) \/ VerifyTokenLapses(u)
              => verify' \in [Users -> VerifyRow]
         /\ CreateResetToken(u) \/ ConsumeResetToken(u) \/ ResetTokenLapses(u)
              => reset' \in [Users -> ResetRow]
  BY NeverAssumption
  DEF CreateVerifyToken, ConsumeVerifyToken, VerifyTokenLapses, VerifyRow,
      CreateResetToken, ConsumeResetToken, ResetTokenLapses, ResetRow, Time

\* Every statement on sessions leaves each row with an owner or dead.
LEMMA SessionStatementsTyped ==
  ASSUME sessions \in [Sids -> Users \cup {Nobody}], NEW u \in Users
  PROVE  /\ RevokeSessions(u) => sessions' \in [Sids -> Users \cup {Nobody}]
         /\ \A s \in Sids : RevokeSession(s) => sessions' \in [Sids -> Users \cup {Nobody}]
         /\ \A s \in Sids : CreateSession(u, s) => sessions' \in [Sids -> Users \cup {Nobody}]
  BY DEF RevokeSession, RevokeSessions, CreateSession

\* A goroutine that starts, goes on or ends stays well formed.
LEMMA RequestStepsTyped ==
  ASSUME RequestsOK, NEW r \in Reqs, NEW u \in Users, NEW op \in Ops
  PROVE  /\ Start(r, u, op) => RequestsOK'
         /\ Done(r) => RequestsOK'
         /\ Then(r, op) /\ req[r].op # "idle" => RequestsOK'
         /\ \A t \in Time : ThenWrite(r, op, t) /\ req[r].op # "idle" => RequestsOK'
<1>1. Start(r, u, op) => RequestsOK'
  BY DEF RequestsOK, Start, Request, Time
<1>2. Done(r) => RequestsOK'
  BY DEF RequestsOK, Done, Idle, Request, Ops, Time
<1>3. Then(r, op) /\ req[r].op # "idle" => RequestsOK'
  BY DEF RequestsOK, Then, Request
<1>4. ASSUME NEW t \in Time, ThenWrite(r, op, t), req[r].op # "idle" PROVE RequestsOK'
  BY <1>4 DEF RequestsOK, ThenWrite, Request
<1> QED BY <1>1, <1>2, <1>3, <1>4

-----------------------------------------------------------------------------
(* Type correctness *)

\* Nobody has registered yet, and no goroutine serves.
LEMMA InitTyped == Init => TypeOK
  BY NeverAssumption, NobodyAssumption, NoGrantAssumption
  DEF Init, TypeOK, TablesInit, TablesOK, UserRow, VerifyRow, ResetRow, Status,
      Time, RequestsOK, Request, JobsOK, Job, Ops, Idle, JobIdle, CountsOK, EnvOK

\* A call that has just arrived.
LEMMA CallTyped ==
  ASSUME TypeOK, NEW r \in Reqs, NEW u \in Users, Call(r, u)
  PROVE  TypeOK'
<1> USE DEF TypeOK, TablesOK, JobsOK, CountsOK, EnvOK, tables, jobs, mail, ledger, env
<1>1. CASE Register(r, u)
  BY <1>1, UserStatementsTyped, RequestStepsTyped DEF Register, Ops
<1>2. CASE VerifyLink(r, u)
  BY <1>2, TokenStatementsTyped, RequestStepsTyped DEF VerifyLink, Ops
<1>3. ASSUME NEW d \in {"approve", "decline"}, Decide(r, u, d) PROVE TypeOK'
  BY <1>3, RequestStepsTyped DEF Decide, Ops
<1>4. ASSUME NEW s \in {"active", "disabled"}, SetMemberStatus(r, u, s) PROVE TypeOK'
  BY <1>4, UserStatementsTyped, RequestStepsTyped, s \in Status
  DEF SetMemberStatus, Status, Ops, RequestsOK
<1>5. ASSUME NEW t \in ExtendTargets(u), ExtendAccess(r, u, t) PROVE TypeOK'
  <2>1. t \in Time
    <3>1. users[u].expiresAt \in Time
      BY DEF UserRow
    <3>2. CASE t \in Dates \cup {Never}
      BY <3>2, ParamAssumption DEF Time
    <3>3. ASSUME NEW base \in Nat, NEW d \in Extensions, t = base + d PROVE t \in Time
      BY <3>3, ParamAssumption DEF Time
    <3> QED
      BY <1>5, <3>1, <3>2, <3>3 DEF ExtendTargets, Time
  <2>2. RequestsOK'
    BY <1>5, <2>1 DEF ExtendAccess, RequestsOK, Request, Ops, Is
  <2> QED
    BY <1>5, <2>2 DEF ExtendAccess
<1>6. CASE Login(r, u)
  BY <1>6, RequestStepsTyped DEF Login, Ops
<1>7. CASE ResetPassword(r, u)
  BY <1>7, TokenStatementsTyped, RequestStepsTyped DEF ResetPassword, Ops, RequestsOK
<1> QED
  BY <1>1, <1>2, <1>3, <1>4, <1>5, <1>6, <1>7 DEF Call

\* The next statement of a goroutine already serving a call.
LEMMA ContinueTyped ==
  ASSUME TypeOK, NEW r \in Reqs, NEW u \in Users, Continue(r, u)
  PROVE  TypeOK'
<1> USE DEF TypeOK, TablesOK, JobsOK, CountsOK, EnvOK, tables, jobs, mail, ledger, env, At
<1>1. CASE MintVerify(r, u)
  BY <1>1, TokenStatementsTyped, RequestStepsTyped DEF MintVerify, Ops
<1>13. CASE GetActiveGrant(r, u)
  <2>1. CASE grant[u] = NoGrant
    BY <1>13, <2>1, RequestStepsTyped DEF GetActiveGrant, Ops
  <2>2. CASE grant[u] # NoGrant
    BY <1>13, <2>2, RequestStepsTyped DEF GetActiveGrant, Ops
  <2> QED BY <2>1, <2>2
<1>2. CASE ApplyWhitelistAutoApprove(r, u)
  <2>1. Plus(req[r].target) \in Time
    BY DEF Plus, Time, RequestsOK, Request
  <2> QED
    BY <1>2, <2>1, UserStatementsTyped, RequestStepsTyped
    DEF ApplyWhitelistAutoApprove, OpensPeriod, Ops
<1>3. CASE ApplyPendingApproval(r, u)
  BY <1>3, UserStatementsTyped, RequestStepsTyped DEF ApplyPendingApproval, Ops, Status
<1>4. CASE ApproveUser(r, u)
  <2>1. now + AcceptTTL \in Time
    BY ParamAssumption DEF Time
  <2> QED
    BY <1>4, <2>1, UserStatementsTyped, RequestStepsTyped
    DEF ApproveUser, ActivatePending, OpensPeriod, Ops
<1>5. CASE DeclineUser(r, u)
  BY <1>5, UserStatementsTyped, RequestStepsTyped
  DEF DeclineUser, DeclinePending, Ops, Status
<1>6. CASE RecordApprovalDecision(r, u)
  BY <1>6, RequestStepsTyped DEF RecordApprovalDecision, RecordOrLog, Fault, Ops
<1>7. CASE RevokeAll(r, u)
  BY <1>7, SessionStatementsTyped, RequestStepsTyped DEF RevokeAll, RevokeOrLog, Fault, Ops
<1>8. CASE ExtendSave(r, u)
  <2>1. req[r].target \in Time
    BY DEF RequestsOK, Request
  <2> QED
    BY <1>8, <2>1, UserStatementsTyped, RequestStepsTyped DEF ExtendSave, OpensPeriod, Ops
<1>9. CASE ExtendRevive(r, u)
  BY <1>9, UserStatementsTyped, RequestStepsTyped DEF ExtendRevive, Ops, Status
<1>10. CASE ResetSetHash(r, u)
  BY <1>10, UserStatementsTyped, RequestStepsTyped DEF ResetSetHash, Ops
<1>11. CASE ResetRevoke(r, u)
  BY <1>11, SessionStatementsTyped, RequestStepsTyped DEF ResetRevoke, RevokeOrLog, Fault, Ops
<1>12. CASE MintSession(r, u)
  BY <1>12, SessionStatementsTyped, RequestStepsTyped DEF MintSession, Ops
<1>14. CASE RevokeOldSession(r, u)
  BY <1>14, SessionStatementsTyped, RequestStepsTyped DEF RevokeOldSession, Fault, Ops
<1>15. CASE ResetRead(r, u)
  BY <1>15, RequestStepsTyped DEF ResetRead, Ops
<1> QED
  BY <1>1, <1>2, <1>3, <1>4, <1>5, <1>6, <1>7, <1>8, <1>9, <1>10, <1>11, <1>12,
     <1>13, <1>14, <1>15
  DEF Continue

\* A step of one of the scheduler jobs.
LEMMA JobTyped ==
  ASSUME TypeOK, WarnStep \/ CutStep \/ DeclineStep
  PROVE  TypeOK'
<1> USE DEF TypeOK, TablesOK, JobsOK, CountsOK, EnvOK, tables, jobs, mail, ledger, env,
            Job, JobIdle
<1>1. CASE WarnJob
  BY <1>1 DEF WarnJob, ExpiringSoon, RequestsOK
<1>2. ASSUME NEW u \in Users, WarnSend(u) PROVE TypeOK'
  BY <1>2 DEF WarnSend, RequestsOK
<1>3. ASSUME NEW u \in Users, WarnMark(u) PROVE TypeOK'
  BY <1>3, UserStatementsTyped DEF WarnMark, Fault, RequestsOK
<1>4. CASE ExpireJob
  BY <1>4 DEF ExpireJob, Expired, RequestsOK
<1>5. ASSUME NEW u \in Users, ExpireFlip(u) PROVE TypeOK'
  BY <1>5, UserStatementsTyped DEF ExpireFlip, ExpireOne, Fault, Status, RequestsOK
<1>6. ASSUME NEW u \in Users, ExpireRevoke(u) PROVE TypeOK'
  BY <1>6, SessionStatementsTyped DEF ExpireRevoke, RevokeOrLog, Fault, RequestsOK
<1>7. CASE AutoDecline
  BY <1>7 DEF AutoDecline, PendingOlderThan, RequestsOK
<1>8. ASSUME NEW u \in Users, AutoDeclineFlip(u) PROVE TypeOK'
  BY <1>8, UserStatementsTyped DEF AutoDeclineFlip, Fault, Status, RequestsOK
<1>9. ASSUME NEW u \in Users, AutoDeclineRecord(u) PROVE TypeOK'
  BY <1>9 DEF AutoDeclineRecord, RecordOrLog, Fault, RequestsOK
<1> QED
  BY <1>1, <1>2, <1>3, <1>4, <1>5, <1>6, <1>7, <1>8, <1>9
  DEF WarnStep, CutStep, DeclineStep

\* Everything else: links that lapse, the whitelist, sign-outs, time, restarts.
LEMMA WorldTyped ==
  ASSUME TypeOK, World
  PROVE  TypeOK'
<1> USE DEF TypeOK, TablesOK, JobsOK, CountsOK, EnvOK, tables, jobs, mail, ledger, env
<1>1. ASSUME NEW u \in Users, TokenLapses(u) PROVE TypeOK'
  BY <1>1, TokenStatementsTyped DEF TokenLapses, RequestsOK
<1>2. ASSUME NEW u \in Users, ForgotPassword(u) PROVE TypeOK'
  BY <1>2, TokenStatementsTyped DEF ForgotPassword, RequestsOK
<1>3. ASSUME NEW u \in Users, DeleteAccessGrant(u) PROVE TypeOK'
  BY <1>3 DEF DeleteAccessGrant, RequestsOK
<1>4. ASSUME NEW u \in Users, NEW ttl \in Grants, UpsertAccessGrant(u, ttl) PROVE TypeOK'
  BY <1>4, ParamAssumption DEF UpsertAccessGrant, RequestsOK
<1>5. ASSUME NEW s \in Sids, Logout(s) PROVE TypeOK'
  BY <1>5 DEF Logout, RevokeSession, RequestsOK
<1>6. CASE Tick
  BY <1>6 DEF Tick, RequestsOK
<1>7. CASE Restart
  <2>1. RequestsOK'
    BY <1>7 DEF Restart, RequestsOK, Request, Idle, Ops, Time
  <2>2. JobsOK'
    BY <1>7 DEF Restart, Job, JobIdle
  <2>3. CountsOK' /\ EnvOK' /\ TablesOK'
    BY <1>7 DEF Restart, Fault
  <2> QED
    BY <2>1, <2>2, <2>3
<1>8. ASSUME NEW r \in Reqs, StatementFails(r) PROVE TypeOK'
  <2>1. RequestsOK'
    BY <1>8 DEF StatementFails, Done, RequestsOK, Request, Idle, Ops, Time
  <2> QED
    BY <1>8, <2>1 DEF StatementFails, Fault
<1> QED
  BY <1>1, <1>2, <1>3, <1>4, <1>5, <1>6, <1>7, <1>8 DEF World

\* Every step of every request, job and fault keeps the tables, the goroutines
\* and the jobs well typed.
THEOREM TypeCorrect == Spec => []TypeOK
<1>1. TypeOK /\ [Next]_vars => TypeOK'
  <2> SUFFICES ASSUME TypeOK, [Next]_vars PROVE TypeOK'
    OBVIOUS
  <2>1. CASE Next
    BY <2>1, CallTyped, ContinueTyped, JobTyped, WorldTyped DEF Next
  <2>2. CASE UNCHANGED vars
    BY <2>2 DEF vars, tables, TypeOK, TablesOK, RequestsOK, JobsOK, CountsOK, EnvOK
  <2> QED
    BY <2>1, <2>2
<1> QED
  BY <1>1, InitTyped, PTL DEF Spec

-----------------------------------------------------------------------------
(* Counting goroutines *)

\* How the number of goroutines serving v with one of the statements `ops`
\* follows goroutine r.
LEMMA ServingMoves ==
  ASSUME RequestsOK, NEW r \in Reqs, NEW v \in Users, NEW ops, NEW q,
         req' = [req EXCEPT ![r] = q]
  PROVE  /\ Cardinality(Serving(v, ops)) \in Nat
         /\ Cardinality(Serving(v, ops)') =
               Cardinality(Serving(v, ops))
               - (IF req[r].user = v /\ req[r].op \in ops THEN 1 ELSE 0)
               + (IF q.user = v /\ q.op \in ops THEN 1 ELSE 0)
<1>1. IsFiniteSet(Serving(v, ops)) /\ Cardinality(Serving(v, ops)) \in Nat
  <2>1. Serving(v, ops) \in SUBSET Reqs
    BY DEF Serving
  <2> QED
    BY <2>1, ReqsAssumption, FS_Subset, FS_CardinalityType
<1>2. r \in Serving(v, ops) <=> req[r].user = v /\ req[r].op \in ops
  BY DEF Serving
<1>3. CASE q.user = v /\ q.op \in ops
  <2>1. Serving(v, ops)' = Serving(v, ops) \cup {r}
    BY <1>3 DEF Serving, RequestsOK
  <2>2. Cardinality(Serving(v, ops) \cup {r}) =
            IF r \in Serving(v, ops) THEN Cardinality(Serving(v, ops))
                                     ELSE Cardinality(Serving(v, ops)) + 1
    BY <1>1, FS_AddElement
  <2> QED
    BY <1>1, <1>2, <1>3, <2>1, <2>2
<1>4. CASE ~ (q.user = v /\ q.op \in ops)
  <2>1. Serving(v, ops)' = Serving(v, ops) \ {r}
    BY <1>4 DEF Serving, RequestsOK
  <2>2. Cardinality(Serving(v, ops) \ {r}) =
            IF r \in Serving(v, ops) THEN Cardinality(Serving(v, ops)) - 1
                                     ELSE Cardinality(Serving(v, ops))
    BY <1>1, FS_RemoveElement
  <2> QED
    BY <1>1, <1>2, <1>4, <2>1, <2>2
<1> QED
  BY <1>3, <1>4

\* The four ways a handler moves the goroutine that serves u.
LEMMA StepCounts ==
  ASSUME RequestsOK, NEW r \in Reqs, NEW u \in Users, NEW v \in Users, NEW ops,
         "idle" \notin ops, NEW op,
         req[r].op = "idle" \/ req[r].user = u
  PROVE  LET n == Cardinality(Serving(v, ops))
             m == Cardinality(Serving(v, ops)')
             out == IF u = v /\ req[r].op \in ops THEN 1 ELSE 0
             in  == IF u = v /\ op \in ops THEN 1 ELSE 0
         IN  /\ Start(r, u, op) => m = n - out + in
             /\ Then(r, op) /\ req[r].op # "idle" => m = n - out + in
             /\ \A t : ThenWrite(r, op, t) /\ req[r].op # "idle" => m = n - out + in
             /\ Done(r) => m = n - out
<1> DEFINE n == Cardinality(Serving(v, ops))
           m == Cardinality(Serving(v, ops)')
           out == IF u = v /\ req[r].op \in ops THEN 1 ELSE 0
           in  == IF u = v /\ op \in ops THEN 1 ELSE 0
<1>1. out = IF req[r].user = v /\ req[r].op \in ops THEN 1 ELSE 0
  OBVIOUS
<1>2. ASSUME NEW q, req' = [req EXCEPT ![r] = q]
      PROVE  /\ n \in Nat
             /\ m = n - out + (IF q.user = v /\ q.op \in ops THEN 1 ELSE 0)
  BY <1>1, <1>2, ServingMoves
<1>3. ASSUME Start(r, u, op) PROVE m = n - out + in
  <2> DEFINE q == [op |-> op, user |-> u, target |-> Never, wasExpired |-> FALSE]
  <2>1. req' = [req EXCEPT ![r] = q] /\ q.user = u /\ q.op = op
    BY <1>3 DEF Start
  <2> HIDE DEF q
  <2>2. m = n - out + (IF q.user = v /\ q.op \in ops THEN 1 ELSE 0)
    BY <1>2, <2>1
  <2> QED
    BY <2>1, <2>2
<1>4. ASSUME Then(r, op), req[r].op # "idle" PROVE m = n - out + in
  <2> DEFINE q == [req[r] EXCEPT !.op = op]
  <2>1. req' = [req EXCEPT ![r] = q] /\ q.user = u /\ q.op = op
    BY <1>4 DEF Then, RequestsOK, Request
  <2> HIDE DEF q
  <2>2. m = n - out + (IF q.user = v /\ q.op \in ops THEN 1 ELSE 0)
    BY <1>2, <2>1
  <2> QED
    BY <2>1, <2>2
<1>5. ASSUME Done(r) PROVE m = n - out
  <2>1. req' = [req EXCEPT ![r] = Idle] /\ Idle.op = "idle"
    BY <1>5 DEF Done, Idle
  <2>2. n \in Nat /\ m = n - out + (IF Idle.user = v /\ Idle.op \in ops THEN 1 ELSE 0)
    BY <1>2, <2>1
  <2> QED
    BY <2>1, <2>2
<1>6. ASSUME NEW t, ThenWrite(r, op, t), req[r].op # "idle" PROVE m = n - out + in
  <2> DEFINE q == [req[r] EXCEPT !.op = op, !.target = t]
  <2>1. req' = [req EXCEPT ![r] = q] /\ q.user = u /\ q.op = op
    BY <1>6 DEF ThenWrite, RequestsOK, Request
  <2> HIDE DEF q
  <2>2. m = n - out + (IF q.user = v /\ q.op \in ops THEN 1 ELSE 0)
    BY <1>2, <2>1
  <2> QED
    BY <2>1, <2>2
<1> QED
  BY <1>3, <1>4, <1>5, <1>6

-----------------------------------------------------------------------------
(* One decision per verification *)

\* Finitely many goroutines can be on their way to a decision.
LEMMA DecidingCount ==
  ASSUME RequestsOK, NEW v \in Users
  PROVE  Cardinality(Deciding(v)) \in Nat
<1>1. Deciding(v) \in SUBSET Reqs
  BY DEF Deciding, Serving
<1> QED
  BY <1>1, ReqsAssumption, FS_Subset, FS_CardinalityType

\* StepCounts for the goroutines that hold a spent verify token.
LEMMA DecidingMoves ==
  ASSUME RequestsOK, NEW r \in Reqs, NEW u \in Users, NEW v \in Users, NEW op,
         req[r].op = "idle" \/ req[r].user = u
  PROVE  LET n == Cardinality(Deciding(v))
             m == Cardinality(Deciding(v)')
             out == IF u = v /\ req[r].op \in DecidingOps THEN 1 ELSE 0
             in  == IF u = v /\ op \in DecidingOps THEN 1 ELSE 0
         IN  /\ Start(r, u, op) => m = n - out + in
             /\ Then(r, op) /\ req[r].op # "idle" => m = n - out + in
             /\ \A t : ThenWrite(r, op, t) /\ req[r].op # "idle" => m = n - out + in
             /\ Done(r) => m = n - out
<1>1. "idle" \notin DecidingOps
  BY DEF DecidingOps
<1>2. Deciding(v) = Serving(v, DecidingOps) /\ Deciding(v)' = Serving(v, DecidingOps)'
  BY DEF Deciding
<1> QED
  BY <1>1, <1>2, StepCounts

\* A step that writes no decision, spends no token and parks nobody.
LEMMA DecisionQuiet ==
  ASSUME TypeOK, DecisionInv, NEW v \in Users,
         owned'[v] = owned[v], verify'[v].used = verify[v].used,
         users'[v].status = "pending_approval" => users[v].status = "pending_approval",
         NEW d \in {0, 1}, Cardinality(Deciding(v)') = Cardinality(Deciding(v)) - d
  PROVE  owned'[v] + Cardinality(Deciding(v)') + Pending(v)' <= verify'[v].used
<1>1. Cardinality(Deciding(v)) \in Nat /\ owned[v] \in Nat /\ verify[v].used \in Nat
  BY DecidingCount DEF TypeOK, CountsOK, TablesOK, VerifyRow
<1>2. owned[v] + Cardinality(Deciding(v)) + Pending(v) <= verify[v].used
  BY DEF DecisionInv
<1>3. Pending(v) \in {0, 1} /\ Pending(v)' \in {0, 1} /\ Pending(v)' <= Pending(v)
  BY DEF Pending, Is
<1> QED
  BY <1>1, <1>2, <1>3

\* A request that begins: a verify link moves one use from the token to a goroutine.
LEMMA DecisionCall ==
  ASSUME TypeOK, DecisionInv, NEW r \in Reqs, NEW u \in Users, Call(r, u), NEW v \in Users
  PROVE  owned'[v] + Cardinality(Deciding(v)') + Pending(v)' <= verify'[v].used
<1> USE DEF tables, ledger, Is
<1>1. /\ RequestsOK /\ Cardinality(Deciding(v)) \in Nat
      /\ users \in [Users -> UserRow] /\ verify \in [Users -> VerifyRow]
  BY DecidingCount DEF TypeOK, TablesOK
<1> DEFINE Quiet == /\ owned'[v] = owned[v] /\ verify'[v].used = verify[v].used
                    /\ users'[v].status = "pending_approval" =>
                          users[v].status = "pending_approval"
                    /\ Cardinality(Deciding(v)') = Cardinality(Deciding(v)) - 0
<1>2. CASE Register(r, u)
  <2>1. Quiet
    BY <1>1, <1>2, DecidingMoves DEF Register, Begin, CreateUser, UserRow, DecidingOps
  <2> QED
    BY <2>1, DecisionQuiet
<1>3. CASE VerifyLink(r, u)
  <2>1. /\ owned'[v] = owned[v] /\ users' = users
        /\ verify'[v].used = verify[v].used + IF u = v THEN 1 ELSE 0
    BY <1>1, <1>3 DEF VerifyLink, ConsumeVerifyToken, VerifyRow
  <2>2. Cardinality(Deciding(v)') = Cardinality(Deciding(v)) + IF u = v THEN 1 ELSE 0
    BY <1>1, <1>3, DecidingMoves DEF VerifyLink, Begin, DecidingOps
  <2>3. /\ owned[v] + Cardinality(Deciding(v)) + Pending(v) <= verify[v].used
        /\ owned[v] \in Nat /\ verify[v].used \in Nat /\ Pending(v) \in Nat
        /\ Pending(v)' = Pending(v)
    BY <1>1, <2>1 DEF DecisionInv, TypeOK, CountsOK, VerifyRow, Pending
  <2> QED
    BY <1>1, <2>1, <2>2, <2>3
<1>4. ASSUME NEW d \in {"approve", "decline"}, Decide(r, u, d) PROVE Quiet
  BY <1>1, <1>4, DecidingMoves DEF Decide, Begin, DecidingOps
<1>5. ASSUME NEW s \in {"active", "disabled"}, SetMemberStatus(r, u, s) PROVE Quiet
  <2>1. Cardinality(Deciding(v)') = Cardinality(Deciding(v)) - 0
    <3>1. CASE s = "disabled"
      BY <1>1, <1>5, <3>1, DecidingMoves DEF SetMemberStatus, Begin, DecidingOps
    <3>2. CASE s # "disabled"
      BY <1>1, <1>5, <3>2 DEF SetMemberStatus, Deciding, Serving
    <3> QED
      BY <3>1, <3>2
  <2> QED
    BY <1>1, <1>5, <2>1 DEF SetMemberStatus, SetStatus, UserRow
<1>6. ASSUME NEW t \in ExtendTargets(u), ExtendAccess(r, u, t) PROVE Quiet
  <2> DEFINE q == [op |-> "extend", user |-> u, target |-> t, wasExpired |-> Is(u, "expired")]
  <2>1. req' = [req EXCEPT ![r] = q] /\ q.op \notin DecidingOps /\ req[r].op \notin DecidingOps
    BY <1>6 DEF ExtendAccess, Begin, DecidingOps
  <2> HIDE DEF q
  <2>2. Cardinality(Serving(v, DecidingOps)') =
            Cardinality(Serving(v, DecidingOps))
            - (IF req[r].user = v /\ req[r].op \in DecidingOps THEN 1 ELSE 0)
            + (IF q.user = v /\ q.op \in DecidingOps THEN 1 ELSE 0)
    BY <1>1, <2>1, ServingMoves
  <2>3. Cardinality(Deciding(v)') = Cardinality(Deciding(v)) - 0
    BY <1>1, <2>1, <2>2 DEF Deciding
  <2> QED
    BY <1>6, <2>3 DEF ExtendAccess
<1>7. CASE Login(r, u)
  <2>1. Quiet
    BY <1>1, <1>7, DecidingMoves DEF Login, Begin, DecidingOps
  <2> QED
    BY <2>1, DecisionQuiet
<1>8. CASE ResetPassword(r, u)
  <2>1. Quiet
    BY <1>1, <1>8, DecidingMoves DEF ResetPassword, Begin, DecidingOps
  <2> QED
    BY <2>1, DecisionQuiet
<1> QED
  BY <1>2, <1>3, <1>4, <1>5, <1>6, <1>7, <1>8, DecisionQuiet DEF Call

\* A goroutine that goes on: it records the decision it came for, parks the row, or
\* loses.
LEMMA DecisionContinue ==
  ASSUME TypeOK, DecisionInv, NEW r \in Reqs, NEW u \in Users, Continue(r, u),
         NEW v \in Users
  PROVE  owned'[v] + Cardinality(Deciding(v)') + Pending(v)' <= verify'[v].used
<1> USE DEF tables, ledger, Is
<1> DEFINE n == Cardinality(Deciding(v))
           m == Cardinality(Deciding(v)')
           one == IF u = v THEN 1 ELSE 0
<1>1. /\ RequestsOK /\ n \in Nat /\ owned \in [Users -> Nat]
      /\ users \in [Users -> UserRow] /\ verify \in [Users -> VerifyRow]
  BY DecidingCount DEF TypeOK, TablesOK, CountsOK
<1>2. /\ owned[v] + n + Pending(v) <= verify[v].used
      /\ owned[v] \in Nat /\ verify[v].used \in Nat /\ Pending(v) \in {0, 1}
  BY <1>1 DEF DecisionInv, VerifyRow, Pending
<1> DEFINE Quiet == /\ owned'[v] = owned[v] /\ verify'[v].used = verify[v].used
                    /\ users'[v].status = "pending_approval" =>
                          users[v].status = "pending_approval"
                    /\ m = n - 0
<1>3. CASE MintVerify(r, u)
  <2>1. Quiet
    BY <1>1, <1>3, DecidingMoves
    DEF MintVerify, At, CreateVerifyToken, VerifyRow, DecidingOps
  <2> QED
    BY <2>1, DecisionQuiet
<1>15. CASE GetActiveGrant(r, u)
  <2>1. m = n - 0
    <3>1. CASE Then(r, "park")
      BY <1>1, <1>15, <3>1, DecidingMoves DEF GetActiveGrant, At, DecidingOps
    <3>2. CASE ThenWrite(r, "autoApprove", grant[u])
      <4>1. /\ req[r].op = "lookup" /\ req[r].user = u
            /\ req[r].op \in DecidingOps /\ "autoApprove" \in DecidingOps
        BY <1>15 DEF GetActiveGrant, At, DecidingOps
      <4> QED BY <1>1, <3>2, <4>1, DecidingMoves
    <3> QED BY <1>15, <3>1, <3>2 DEF GetActiveGrant
  <2>2. Quiet
    BY <1>15, <2>1 DEF GetActiveGrant
  <2> QED
    BY <2>2, DecisionQuiet
<1>4. CASE ApplyWhitelistAutoApprove(r, u)
  <2>1. Quiet
    BY <1>1, <1>4, DecidingMoves
    DEF ApplyWhitelistAutoApprove, At, Activate, UserRow, DecidingOps
  <2> QED
    BY <2>1, DecisionQuiet
<1>5. CASE ApplyPendingApproval(r, u)
  <2>1. owned' = owned /\ verify' = verify /\ m = n - one
    BY <1>1, <1>5, DecidingMoves DEF ApplyPendingApproval, At, DecidingOps
  <2>2. Pending(v)' = IF u = v THEN 1 ELSE Pending(v)
    BY <1>1, <1>5 DEF ApplyPendingApproval, SetStatus, Pending, UserRow
  <2> QED
    BY <1>1, <1>2, <2>1, <2>2
<1>6. CASE ApproveUser(r, u)
  <2>1. CASE ActivatePending(u, now + AcceptTTL) /\ Then(r, "recordOwner")
    <3>1. owned' = owned /\ verify' = verify
      BY <1>6 DEF ApproveUser
    <3>2. m = n + one
      BY <1>1, <1>6, <2>1, DecidingMoves DEF ApproveUser, At, DecidingOps
    <3>3. Pending(u) = 1 /\ Pending(v)' = IF u = v THEN 0 ELSE Pending(v)
      BY <1>1, <2>1 DEF ActivatePending, Activate, Pending, UserRow
    <3> QED
      BY <1>1, <1>2, <3>1, <3>2, <3>3
  <2>2. CASE Done(r) /\ UNCHANGED users
    <3>1. Quiet
      BY <1>1, <1>6, <2>2, DecidingMoves DEF ApproveUser, At, DecidingOps
    <3> QED
      BY <3>1, DecisionQuiet
  <2> QED
    BY <1>6, <2>1, <2>2 DEF ApproveUser
<1>7. CASE DeclineUser(r, u)
  <2>1. CASE DeclinePending(u) /\ Then(r, "recordDecline")
    <3>1. owned' = owned /\ verify' = verify
      BY <1>7 DEF DeclineUser
    <3>2. m = n + one
      BY <1>1, <1>7, <2>1, DecidingMoves DEF DeclineUser, At, DecidingOps
    <3>3. Pending(u) = 1 /\ Pending(v)' = IF u = v THEN 0 ELSE Pending(v)
      BY <1>1, <2>1 DEF DeclinePending, SetStatus, Pending, UserRow
    <3> QED
      BY <1>1, <1>2, <3>1, <3>2, <3>3
  <2>2. CASE Done(r) /\ UNCHANGED users
    <3>1. Quiet
      BY <1>1, <1>7, <2>2, DecidingMoves DEF DeclineUser, At, DecidingOps
    <3> QED
      BY <3>1, DecisionQuiet
  <2> QED
    BY <1>7, <2>1, <2>2 DEF DeclineUser
<1>8. CASE RecordApprovalDecision(r, u)
  <2>1. m = n - one
    BY <1>1, <1>8, DecidingMoves DEF RecordApprovalDecision, At, DecidingOps
  <2>2. /\ owned'[v] = owned[v] \/ owned'[v] = owned[v] + one
        /\ verify' = verify /\ Pending(v)' = Pending(v)
    BY <1>1, <1>8 DEF RecordApprovalDecision, RecordOrLog, Pending
  <2> QED
    BY <1>1, <1>2, <2>1, <2>2
<1>9. CASE RevokeAll(r, u)
  <2>1. Quiet
    BY <1>1, <1>9, DecidingMoves DEF RevokeAll, At, DecidingOps
  <2> QED
    BY <2>1, DecisionQuiet
<1>10. CASE ExtendSave(r, u)
  <2>1. m = n - 0
    BY <1>1, <1>10, DecidingMoves DEF ExtendSave, At, DecidingOps
  <2>2. Quiet
    BY <1>1, <1>10, <2>1 DEF ExtendSave, SetExpiresAt, UserRow
  <2> QED
    BY <2>2, DecisionQuiet
<1>11. CASE ExtendRevive(r, u)
  <2>1. Quiet
    BY <1>1, <1>11, DecidingMoves DEF ExtendRevive, At, SetStatus, UserRow, DecidingOps
  <2> QED
    BY <2>1, DecisionQuiet
<1>12. CASE ResetSetHash(r, u)
  <2>1. Quiet
    BY <1>1, <1>12, DecidingMoves DEF ResetSetHash, At, SetPasswordHash, UserRow, DecidingOps
  <2> QED
    BY <2>1, DecisionQuiet
<1>13. CASE ResetRevoke(r, u)
  <2>1. Quiet
    BY <1>1, <1>13, DecidingMoves DEF ResetRevoke, At, DecidingOps
  <2> QED
    BY <2>1, DecisionQuiet
<1>14. CASE MintSession(r, u) \/ RevokeOldSession(r, u)
  <2>1. Quiet
    BY <1>1, <1>14, DecidingMoves DEF MintSession, RevokeOldSession, At, DecidingOps
  <2> QED
    BY <2>1, DecisionQuiet
<1>16. CASE ResetRead(r, u)
  <2>1. Quiet
    BY <1>1, <1>16, DecidingMoves DEF ResetRead, At, DecidingOps
  <2> QED
    BY <2>1, DecisionQuiet
<1> QED
  BY <1>3, <1>4, <1>5, <1>6, <1>7, <1>8, <1>9, <1>10, <1>11, <1>12, <1>13, <1>14,
     <1>15, <1>16 DEF Continue

\* The expiry jobs, the clock and a restart decide nothing; the jobs only unpark.
LEMMA DecisionOther ==
  ASSUME TypeOK, DecisionInv, WarnStep \/ CutStep \/ DeclineStep \/ World \/ UNCHANGED vars,
         NEW v \in Users
  PROVE  owned'[v] + Cardinality(Deciding(v)') + Pending(v)' <= verify'[v].used
<1> USE DEF tables, ledger, Is
<1>1. /\ RequestsOK /\ Cardinality(Deciding(v)) \in Nat
      /\ users \in [Users -> UserRow] /\ verify \in [Users -> VerifyRow]
  BY DecidingCount DEF TypeOK, TablesOK
<1>2. CASE Restart
  <2>1. Deciding(v)' = {}
    BY <1>2 DEF Restart, Idle, Deciding, Serving, DecidingOps
  <2>2. Cardinality(Deciding(v)') = 0
    BY <2>1, FS_EmptySet
  <2>3. /\ owned'[v] = owned[v] /\ verify' = verify /\ Pending(v)' = Pending(v)
        /\ owned[v] \in Nat /\ verify[v].used \in Nat /\ Pending(v) \in Nat
        /\ owned[v] + Cardinality(Deciding(v)) + Pending(v) <= verify[v].used
    BY <1>1, <1>2 DEF Restart, Pending, TypeOK, CountsOK, VerifyRow, DecisionInv
  <2> QED
    BY <1>1, <2>2, <2>3
<1> DEFINE Calm == /\ owned'[v] = owned[v] /\ verify'[v].used = verify[v].used
                   /\ users'[v].status = "pending_approval" =>
                         users[v].status = "pending_approval"
                   /\ req' = req
<1>3. ASSUME Calm
      PROVE  owned'[v] + Cardinality(Deciding(v)') + Pending(v)' <= verify'[v].used
  <2>1. Deciding(v)' = Deciding(v)
    BY <1>3 DEF Deciding, Serving
  <2>2. Cardinality(Deciding(v)') = Cardinality(Deciding(v)) - 0
    BY <1>1, <2>1
  <2> QED
    BY <1>3, <2>2, DecisionQuiet
<1>4. CASE WarnStep
  <2>1. Calm
    BY <1>1, <1>4 DEF WarnStep, WarnJob, WarnSend, WarnMark, MarkExpiryWarned, UserRow
  <2> QED
    BY <1>3, <2>1
<1>5. CASE CutStep
  <2>1. Calm
    BY <1>1, <1>5 DEF CutStep, ExpireJob, ExpireFlip, ExpireOne, SetStatus, ExpireRevoke,
                      UserRow
  <2> QED
    BY <1>3, <2>1
<1>6. CASE DeclineStep
  <2>1. Calm
    BY <1>1, <1>6 DEF DeclineStep, AutoDecline, AutoDeclineFlip, SetStatus,
                      AutoDeclineRecord, UserRow
  <2> QED
    BY <1>3, <2>1
<1>9. ASSUME NEW r \in Reqs, StatementFails(r)
      PROVE  owned'[v] + Cardinality(Deciding(v)') + Pending(v)' <= verify'[v].used
  <2> DEFINE u == req[r].user
             out == IF u = v /\ req[r].op \in DecidingOps THEN 1 ELSE 0
  <2>1. u \in Users /\ Done(r)
    BY <1>1, <1>9 DEF StatementFails, BestEffort, RequestsOK
  <2>2. Cardinality(Deciding(v)') = Cardinality(Deciding(v)) - out /\ out \in {0, 1}
    BY <1>1, <2>1, DecidingMoves
  <2>3. owned' = owned /\ verify' = verify /\ users' = users
    BY <1>9 DEF StatementFails
  <2> QED
    BY <2>2, <2>3, DecisionQuiet
<1>7. CASE World /\ ~ Restart /\ ~ \E r \in Reqs : StatementFails(r)
  <2>1. Calm
    BY <1>1, <1>7 DEF World, TokenLapses, VerifyTokenLapses, ForgotPassword,
       DeleteAccessGrant, UpsertAccessGrant, Logout, Tick, VerifyRow
  <2> QED
    BY <1>3, <2>1
<1>8. CASE UNCHANGED vars
  BY <1>8, <1>3 DEF vars
<1> QED
  BY <1>2, <1>4, <1>5, <1>6, <1>7, <1>8, <1>9

\* One verification of an address yields at most one recorded decision, whatever
\* the number of mail links, console clicks and whitelist hits that race for it.
THEOREM OneDecision == Spec => []DecisionPerVerification
<1>1. Init => DecisionInv
  <2> SUFFICES ASSUME Init, NEW v \in Users
               PROVE  owned[v] + Cardinality(Deciding(v)) + Pending(v) <= verify[v].used
    BY DEF DecisionInv
  <2>1. Deciding(v) = {}
    BY DEF Init, Idle, Deciding, Serving, DecidingOps
  <2> QED
    BY <2>1, FS_EmptySet DEF Init, TablesInit, Pending, Is
<1>2. TypeOK /\ DecisionInv /\ [Next]_vars => DecisionInv'
  <2> SUFFICES ASSUME TypeOK, DecisionInv, [Next]_vars, NEW v \in Users
               PROVE  owned'[v] + Cardinality(Deciding(v)') + Pending(v)' <= verify'[v].used
    BY DEF DecisionInv
  <2> QED
    BY DecisionCall, DecisionContinue, DecisionOther DEF Next
<1>3. TypeOK /\ DecisionInv => DecisionPerVerification
  <2> SUFFICES ASSUME TypeOK, DecisionInv, NEW v \in Users PROVE owned[v] <= verify[v].used
    BY DEF DecisionPerVerification
  <2>1. Cardinality(Deciding(v)) \in Nat /\ Pending(v) \in Nat
    BY DecidingCount DEF TypeOK, Pending
  <2> QED
    BY <2>1 DEF TypeOK, TablesOK, CountsOK, VerifyRow, DecisionInv
<1> QED
  BY <1>1, <1>2, <1>3, TypeCorrect, PTL DEF Spec

-----------------------------------------------------------------------------
(* One password change per reset token *)

\* A goroutine that goes on with anything but the password leaves those that have
\* spent a reset token where they are.
LEMMA ResettingKept ==
  ASSUME RequestsOK, NEW r \in Reqs, NEW u \in Users, NEW v \in Users, NEW op,
         op \notin ResettingOps, req[r].op \notin ResettingOps,
         \/ Start(r, u, op) \/ Then(r, op) \/ Done(r) \/ UNCHANGED req
         \/ \E t \in Time \cup {NoGrant} : ThenWrite(r, op, t)
  PROVE  Resetting(v)' = Resetting(v)
<1>1. req \in [Reqs -> Request] /\ Idle.op = "idle"
  BY DEF RequestsOK, Idle
<1>2. req'[r].op \notin ResettingOps /\ \A p \in Reqs : p # r => req'[p] = req[p]
  BY <1>1 DEF Start, Then, ThenWrite, Done, Request, ResettingOps
<1> QED BY <1>2 DEF Resetting, Serving

\* A step that writes no password and spends no token.
LEMMA PasswordQuiet ==
  ASSUME PasswordInv, NEW v \in Users,
         users'[v].pw = users[v].pw, reset'[v].used = reset[v].used,
         Resetting(v)' = Resetting(v)
  PROVE  users'[v].pw + Cardinality(Resetting(v)') <= reset'[v].used
  BY DEF PasswordInv

\* The two numbers PasswordInv adds to what is spent.
LEMMA ResettingCount ==
  ASSUME TypeOK, PasswordInv, NEW v \in Users
  PROVE  /\ Cardinality(Resetting(v)) \in Nat /\ users[v].pw \in Nat /\ reset[v].used \in Nat
         /\ users[v].pw + Cardinality(Resetting(v)) <= reset[v].used
<1>1. Resetting(v) \in SUBSET Reqs
  BY DEF Resetting, Serving
<1>2. Cardinality(Resetting(v)) \in Nat
  BY <1>1, ReqsAssumption, FS_Subset, FS_CardinalityType
<1> QED BY <1>2 DEF TypeOK, TablesOK, UserRow, ResetRow, PasswordInv

\* StepCounts for the goroutines that hold a spent reset token.
LEMMA ResettingMoves ==
  ASSUME RequestsOK, NEW r \in Reqs, NEW u \in Users, NEW v \in Users, NEW op,
         req[r].op = "idle" \/ req[r].user = u
  PROVE  LET n == Cardinality(Resetting(v))
             m == Cardinality(Resetting(v)')
             out == IF u = v /\ req[r].op \in ResettingOps THEN 1 ELSE 0
             in  == IF u = v /\ op \in ResettingOps THEN 1 ELSE 0
         IN  /\ Start(r, u, op) => m = n - out + in
             /\ Then(r, op) /\ req[r].op # "idle" => m = n - out + in
             /\ \A t : ThenWrite(r, op, t) /\ req[r].op # "idle" => m = n - out + in
             /\ Done(r) => m = n - out
<1>1. "idle" \notin ResettingOps
  BY DEF ResettingOps
<1>2. Resetting(v) = Serving(v, ResettingOps) /\ Resetting(v)' = Serving(v, ResettingOps)'
  BY DEF Resetting
<1> QED
  BY <1>1, <1>2, StepCounts

\* A request that begins: a reset link moves one use from the token to a goroutine.
LEMMA PasswordCall ==
  ASSUME TypeOK, PasswordInv, NEW r \in Reqs, NEW u \in Users, Call(r, u), NEW v \in Users
  PROVE  users'[v].pw + Cardinality(Resetting(v)') <= reset'[v].used
<1> USE DEF tables
<1>1. /\ RequestsOK /\ users \in [Users -> UserRow] /\ reset \in [Users -> ResetRow]
  BY DEF TypeOK, TablesOK
<1>2. CASE ResetPassword(r, u)
  <2>1. users' = users /\ reset'[v].used = reset[v].used + IF u = v THEN 1 ELSE 0
    BY <1>1, <1>2 DEF ResetPassword, ConsumeResetToken, ResetRow
  <2>2. Cardinality(Resetting(v)') = Cardinality(Resetting(v)) + IF u = v THEN 1 ELSE 0
    BY <1>1, <1>2, ResettingCount, ResettingMoves DEF ResetPassword, Begin, ResettingOps
  <2> QED BY <2>1, <2>2, ResettingCount
<1>3. CASE ~ ResetPassword(r, u)
  <2>1. users'[v].pw = users[v].pw /\ reset' = reset
    BY <1>1, <1>3 DEF Call, Register, CreateUser, VerifyLink, Decide, SetMemberStatus, SetStatus,
                      ExtendAccess, Login, UserRow
  <2>2. Resetting(v)' = Resetting(v)
    <3>1. CASE \E t \in ExtendTargets(u) : ExtendAccess(r, u, t)
      BY <1>1, <3>1 DEF ExtendAccess, Begin, RequestsOK, Resetting, Serving, ResettingOps
    <3>2. CASE ~ \E t \in ExtendTargets(u) : ExtendAccess(r, u, t)
      <4>1. req[r].op = "idle"
        BY <1>3, <3>2 DEF Call, Register, VerifyLink, Decide, SetMemberStatus, Login, Begin
      <4>2. PICK op \in {"mintVerify", "lookup", "approve", "decline", "revoke", "login"} :
              Start(r, u, op) \/ UNCHANGED req
        BY <1>3, <3>2 DEF Call, Register, VerifyLink, Decide, SetMemberStatus, Login
      <4> QED BY <1>1, <4>1, <4>2, ResettingKept DEF ResettingOps
    <3> QED BY <3>1, <3>2
  <2> QED BY <2>1, <2>2, PasswordQuiet
<1> QED BY <1>2, <1>3

\* A goroutine that goes on: only the one that spent a token writes a password.
LEMMA PasswordContinue ==
  ASSUME TypeOK, PasswordInv, NEW r \in Reqs, NEW u \in Users, Continue(r, u), NEW v \in Users
  PROVE  users'[v].pw + Cardinality(Resetting(v)') <= reset'[v].used
<1>1. /\ RequestsOK /\ users \in [Users -> UserRow]
  BY DEF TypeOK, TablesOK
<1>2. CASE ResetSetHash(r, u)
  <2>1. users'[v].pw = users[v].pw + (IF u = v THEN 1 ELSE 0) /\ reset' = reset
    BY <1>1, <1>2 DEF ResetSetHash, SetPasswordHash, UserRow
  <2>2. Cardinality(Resetting(v)') = Cardinality(Resetting(v)) - IF u = v THEN 1 ELSE 0
    BY <1>1, <1>2, ResettingCount, ResettingMoves DEF ResetSetHash, At, ResettingOps
  <2> QED BY <2>1, <2>2, ResettingCount
<1>4. CASE ResetRead(r, u)
  <2>1. users' = users /\ reset' = reset
    BY <1>4 DEF ResetRead, tables
  <2>2. \/ Cardinality(Resetting(v)') = Cardinality(Resetting(v))
        \/ Cardinality(Resetting(v)') = Cardinality(Resetting(v)) - IF u = v THEN 1 ELSE 0
    <3>1. /\ req[r].op = "readReset" /\ req[r].user = u
          /\ req[r].op \in ResettingOps /\ "setHash" \in ResettingOps
      BY <1>4 DEF ResetRead, At, ResettingOps
    <3>2. CASE Then(r, "setHash")
      BY <1>1, <3>1, <3>2, ResettingCount, ResettingMoves
    <3>3. CASE Done(r)
      BY <1>1, <3>1, <3>3, ResettingCount, ResettingMoves
    <3> QED BY <1>4, <3>2, <3>3 DEF ResetRead
  <2> QED BY <2>1, <2>2, ResettingCount
<1>3. CASE ~ ResetSetHash(r, u) /\ ~ ResetRead(r, u)
  <2>1. users'[v].pw = users[v].pw
    BY <1>1, <1>3 DEF Continue, MintVerify, GetActiveGrant, ApplyWhitelistAutoApprove, ApplyPendingApproval,
       ApproveUser, ActivatePending, DeclineUser, DeclinePending, RecordApprovalDecision,
       RevokeAll, ExtendSave, SetExpiresAt, ExtendRevive, ResetRevoke, RevokeOldSession, MintSession, Activate,
       SetStatus, tables, UserRow
  <2>2. reset' = reset
    BY <1>3 DEF Continue, MintVerify, GetActiveGrant, ApplyWhitelistAutoApprove, ApplyPendingApproval,
       ApproveUser, DeclineUser, RecordApprovalDecision,
       RevokeAll, ExtendSave, ExtendRevive, ResetRevoke, RevokeOldSession, MintSession, tables
  <2>3. req[r].op \notin ResettingOps
    BY <1>3 DEF Continue, MintVerify, GetActiveGrant, ApplyWhitelistAutoApprove, ApplyPendingApproval,
       ApproveUser, DeclineUser, RecordApprovalDecision,
       RevokeAll, ExtendSave, ExtendRevive, ResetRevoke, RevokeOldSession, MintSession, At, ResettingOps
  <2>4. \/ Done(r)
        \/ \E op \in {"park", "recordOwner", "recordDecline", "revoke", "revive", "mint"} : Then(r, op)
        \/ ThenWrite(r, "autoApprove", grant[u])
    BY <1>3 DEF Continue, MintVerify, GetActiveGrant, ApplyWhitelistAutoApprove, ApplyPendingApproval,
       ApproveUser, DeclineUser, RecordApprovalDecision,
       RevokeAll, ExtendSave, ExtendRevive, ResetRevoke, RevokeOldSession, MintSession
  <2>5. Resetting(v)' = Resetting(v)
    <3>1. CASE Done(r)
      BY <1>1, <2>3, <3>1, ResettingKept, "idle" \notin ResettingOps DEF ResettingOps
    <3>2. ASSUME NEW op \in {"park", "recordOwner", "recordDecline", "revoke", "revive", "mint"},
                 Then(r, op)
          PROVE  Resetting(v)' = Resetting(v)
      BY <1>1, <2>3, <3>2, ResettingKept, op \notin ResettingOps DEF ResettingOps
    <3>3. CASE ThenWrite(r, "autoApprove", grant[u])
      BY <1>1, <2>3, <3>3, ResettingKept, grant[u] \in Time \cup {NoGrant},
         "autoApprove" \notin ResettingOps DEF ResettingOps, TypeOK, EnvOK
    <3> QED BY <2>4, <3>1, <3>2, <3>3
  <2> QED BY <2>1, <2>2, <2>5, PasswordQuiet
<1> QED BY <1>2, <1>3, <1>4

\* The jobs, the clock and a restart change no password; a restart loses the goroutines.
LEMMA PasswordOther ==
  ASSUME TypeOK, PasswordInv, WarnStep \/ CutStep \/ DeclineStep \/ World \/ UNCHANGED vars,
         NEW v \in Users
  PROVE  users'[v].pw + Cardinality(Resetting(v)') <= reset'[v].used
<1> USE DEF tables
<1>1. users \in [Users -> UserRow] /\ reset \in [Users -> ResetRow]
  BY DEF TypeOK, TablesOK
<1>2. CASE Restart
  <2>1. Resetting(v)' = {}
    BY <1>2 DEF Restart, Idle, Resetting, Serving, ResettingOps
  <2>2. Cardinality(Resetting(v)') = 0 /\ users' = users /\ reset' = reset
    BY <1>2, <2>1, FS_EmptySet DEF Restart
  <2> QED BY <2>2, ResettingCount
<1> DEFINE Calm == users'[v].pw = users[v].pw /\ reset'[v].used = reset[v].used /\ req' = req
<1>3. ASSUME Calm PROVE users'[v].pw + Cardinality(Resetting(v)') <= reset'[v].used
  BY <1>3, PasswordQuiet DEF Resetting, Serving
<1>4. CASE WarnStep \/ CutStep \/ DeclineStep
  <2>1. Calm
    BY <1>1, <1>4 DEF WarnStep, WarnJob, WarnSend, WarnMark, MarkExpiryWarned, CutStep, ExpireJob,
       ExpireFlip, ExpireOne, SetStatus, ExpireRevoke, DeclineStep, AutoDecline, AutoDeclineFlip,
       AutoDeclineRecord, UserRow
  <2> QED BY <1>3, <2>1
<1>7. ASSUME NEW r \in Reqs, StatementFails(r)
      PROVE  users'[v].pw + Cardinality(Resetting(v)') <= reset'[v].used
  <2> DEFINE u == req[r].user
             out == IF u = v /\ req[r].op \in ResettingOps THEN 1 ELSE 0
  <2>1. u \in Users /\ Done(r) /\ RequestsOK
    BY <1>7 DEF StatementFails, BestEffort, RequestsOK, TypeOK
  <2>2. Cardinality(Resetting(v)') = Cardinality(Resetting(v)) - out /\ out \in {0, 1}
    BY <2>1, ResettingMoves
  <2>3. reset' = reset /\ users' = users
    BY <1>7 DEF StatementFails
  <2> QED BY <2>2, <2>3, ResettingCount
<1>5. CASE World /\ ~ Restart /\ ~ \E r \in Reqs : StatementFails(r)
  <2>1. Calm
    BY <1>1, <1>5 DEF World, TokenLapses, ResetTokenLapses, ForgotPassword, CreateResetToken,
       DeleteAccessGrant, UpsertAccessGrant, Logout, Tick, ResetRow
  <2> QED BY <1>3, <2>1
<1>6. CASE UNCHANGED vars
  BY <1>3, <1>6 DEF vars
<1> QED BY <1>2, <1>4, <1>5, <1>6, <1>7

\* Every change of a password has a spent reset token of its own, however many uses of
\* one reset link race and whenever the process stops between the token and the hash.
THEOREM OneChangePerToken == Spec => []PasswordChangeSpendsToken
<1>1. Init => PasswordInv
  <2> SUFFICES ASSUME Init, NEW v \in Users
               PROVE  users[v].pw + Cardinality(Resetting(v)) <= reset[v].used
    BY DEF PasswordInv
  <2>1. Resetting(v) = {}
    BY DEF Init, Idle, Resetting, Serving, ResettingOps
  <2> QED BY <2>1, FS_EmptySet DEF Init, TablesInit
<1>2. TypeOK /\ PasswordInv /\ [Next]_vars => PasswordInv'
  <2> SUFFICES ASSUME TypeOK, PasswordInv, [Next]_vars, NEW v \in Users
               PROVE  users'[v].pw + Cardinality(Resetting(v)') <= reset'[v].used
    BY DEF PasswordInv
  <2> QED BY PasswordCall, PasswordContinue, PasswordOther DEF Next
<1>3. TypeOK /\ PasswordInv => PasswordChangeSpendsToken
  BY ResettingCount DEF PasswordChangeSpendsToken
<1> QED BY <1>1, <1>2, <1>3, TypeCorrect, PTL DEF Spec

-----------------------------------------------------------------------------
(* The hard cut *)

\* No request writes the status `expired`, and the job writes it only over a row
\* that is overdue at that moment.
LEMMA ExpiredByCutOnly ==
  ASSUME TypeOK, Next, NEW v \in Users, Is(v, "active"), users'[v].status = "expired"
  PROVE  Overdue(v, now)
<1> USE DEF tables, Is
<1>1. users \in [Users -> UserRow] /\ users[v].status = "active"
  BY DEF TypeOK, TablesOK
<1>2. ASSUME NEW r \in Reqs, NEW u \in Users, Call(r, u) PROVE FALSE
  <2>1. CASE Register(r, u)
    BY <1>1, <2>1 DEF Register, CreateUser, UserRow
  <2>2. ASSUME NEW s \in {"active", "disabled"}, SetMemberStatus(r, u, s) PROVE FALSE
    BY <1>1, <2>2 DEF SetMemberStatus, SetStatus, UserRow
  <2> QED
    BY <1>1, <1>2, <2>1, <2>2
    DEF Call, VerifyLink, Decide, ExtendAccess, Login, ResetPassword
<1>3. ASSUME NEW r \in Reqs, NEW u \in Users, Continue(r, u) PROVE FALSE
  <2>1. CASE ApplyWhitelistAutoApprove(r, u) \/ ApproveUser(r, u)
    BY <1>1, <2>1 DEF ApplyWhitelistAutoApprove, ApproveUser, ActivatePending, Activate, UserRow
  <2>2. CASE ApplyPendingApproval(r, u) \/ DeclineUser(r, u) \/ ExtendRevive(r, u)
    BY <1>1, <2>2
    DEF ApplyPendingApproval, DeclineUser, DeclinePending, ExtendRevive, SetStatus, UserRow
  <2>3. CASE ExtendSave(r, u) \/ ResetSetHash(r, u)
    BY <1>1, <2>3 DEF ExtendSave, SetExpiresAt, ResetSetHash, SetPasswordHash, UserRow
  <2> QED
    BY <1>1, <1>3, <2>1, <2>2, <2>3
    DEF Continue, MintVerify, GetActiveGrant, RecordApprovalDecision, RevokeAll, ResetRead,
        ResetRevoke, RevokeOldSession, MintSession
<1>4. ~ WarnStep
  BY <1>1 DEF WarnStep, WarnJob, WarnSend, WarnMark, MarkExpiryWarned, UserRow
<1>5. ~ DeclineStep
  BY <1>1 DEF DeclineStep, AutoDecline, AutoDeclineFlip, SetStatus, AutoDeclineRecord, UserRow
<1>6. ~ World
  BY <1>1 DEF World, TokenLapses, ForgotPassword, DeleteAccessGrant, UpsertAccessGrant,
              Logout, StatementFails, Tick, Restart
<1>7. CASE CutStep
  <2>1. PICK u \in Users : ExpireFlip(u) /\ ExpireOne(u, now)
    BY <1>1, <1>7 DEF CutStep, ExpireJob, ExpireFlip, ExpireRevoke
  <2>2. u = v
    BY <1>1, <2>1 DEF ExpireOne, SetStatus, UserRow
  <2> QED
    BY <2>1, <2>2 DEF ExpireOne
<1> QED
  BY <1>2, <1>3, <1>4, <1>5, <1>6, <1>7 DEF Next

\* The hard cut never ends an access that was extended or made permanent after
\* the job listed it.
THEOREM NoEarlyCutHolds == Spec => NoEarlyCut
<1> DEFINE A == \A u \in Users :
                  Is(u, "active") /\ users'[u].status = "expired" =>
                      users[u].expiresAt # Never /\ users[u].expiresAt <= now
<1>1. TypeOK /\ [Next]_vars => [A]_vars
  <2> SUFFICES ASSUME TypeOK, Next PROVE A
    OBVIOUS
  <2> QED
    BY ExpiredByCutOnly DEF Overdue
<1> QED
  BY <1>1, TypeCorrect, PTL DEF Spec, NoEarlyCut

-----------------------------------------------------------------------------
(* Warnings *)

\* A step that mails nothing and leaves the markers and the warning job alone.
LEMMA WarningQuiet ==
  ASSUME WarningInv, warner' = warner, lost' = lost, warnings' = warnings,
         \A v \in Users : users'[v].warned = users[v].warned,
         warner.list \subseteq Users
  PROVE  WarningInv'
  BY DEF WarningInv

\* A step that opens a new access period of u, with the marker cleared or kept.
LEMMA WarningReset ==
  ASSUME TypeOK, WarningInv, NEW u \in Users, warner' = warner, lost' = lost, OpensPeriod(u),
         \A v \in Users : users'[v].warned = users[v].warned \/ (v = u /\ ~ users'[v].warned)
  PROVE  WarningInv'
<1>1. /\ warnings \in [Users -> Nat] /\ lost \in [Users -> Nat] /\ warner.list \subseteq Users
  BY DEF TypeOK, CountsOK, JobsOK, Job
<1> QED
  BY <1>1 DEF WarningInv, OpensPeriod

\* Requests: an extension lets the row be warned again, no other mails a warning.
LEMMA WarningRequest ==
  ASSUME TypeOK, WarningInv, NEW r \in Reqs, NEW u \in Users, Call(r, u) \/ Continue(r, u)
  PROVE  WarningInv'
<1> USE DEF tables, jobs, mail
<1>1. users \in [Users -> UserRow] /\ warner.list \subseteq Users
  BY DEF TypeOK, TablesOK, JobsOK, Job
<1>2. CASE Call(r, u)
  <2>1. warner' = warner /\ lost' = lost /\ warnings' = warnings
    BY <1>2 DEF Call, Register, VerifyLink, Decide, SetMemberStatus, ExtendAccess, Login,
                ResetPassword
  <2>2. \A v \in Users : users'[v].warned = users[v].warned
    BY <1>1, <1>2 DEF Call, Register, CreateUser, VerifyLink, Decide, SetMemberStatus,
                      SetStatus, ExtendAccess, Login, ResetPassword, UserRow
  <2> QED
    BY <1>1, <2>1, <2>2, WarningQuiet
<1>3. CASE ApplyWhitelistAutoApprove(r, u)
  BY <1>1, <1>3, WarningReset DEF ApplyWhitelistAutoApprove, Activate, UserRow
<1>4. CASE ExtendSave(r, u)
  BY <1>1, <1>4, WarningReset DEF ExtendSave, SetExpiresAt, UserRow
<1>5. CASE ApproveUser(r, u) /\ ActivatePending(u, now + AcceptTTL)
  <2>1. OpensPeriod(u) /\ warner' = warner /\ lost' = lost
    BY <1>5 DEF ApproveUser, ActivatePending
  <2>2. \A v \in Users : users'[v].warned = users[v].warned \/ (v = u /\ ~ users'[v].warned)
    BY <1>1, <1>5 DEF ActivatePending, Activate, UserRow
  <2> QED
    BY <2>1, <2>2, WarningReset
<1>6. CASE ApproveUser(r, u) /\ UNCHANGED <<users, warnings>>
  BY <1>1, <1>6, WarningQuiet DEF ApproveUser
<1>7. CASE \/ MintVerify(r, u) \/ ApplyPendingApproval(r, u) \/ DeclineUser(r, u)
           \/ RecordApprovalDecision(r, u) \/ RevokeAll(r, u) \/ ExtendRevive(r, u)
           \/ ResetSetHash(r, u) \/ ResetRevoke(r, u) \/ GetActiveGrant(r, u)
           \/ ResetRead(r, u) \/ RevokeOldSession(r, u) \/ MintSession(r, u)
  <2>1. warner' = warner /\ lost' = lost /\ warnings' = warnings
    BY <1>7 DEF MintVerify, ApplyPendingApproval, DeclineUser, RecordApprovalDecision,
                RevokeAll, ExtendRevive, ResetSetHash, ResetRevoke, MintSession,
                GetActiveGrant, ResetRead, RevokeOldSession
  <2>2. \A v \in Users : users'[v].warned = users[v].warned
    BY <1>1, <1>7 DEF MintVerify, ApplyPendingApproval, DeclineUser, DeclinePending,
       SetStatus, RecordApprovalDecision, RevokeAll, ExtendRevive, ResetSetHash,
       SetPasswordHash, ResetRevoke, MintSession, GetActiveGrant, ResetRead,
       RevokeOldSession, UserRow
  <2> QED
    BY <1>1, <2>1, <2>2, WarningQuiet
<1> QED
  BY <1>2, <1>3, <1>4, <1>5, <1>6, <1>7 DEF Continue, ApproveUser

\* The warning job: a mail is marked next, or its mark is lost.
LEMMA WarningJob ==
  ASSUME TypeOK, WarningInv, WarnStep
  PROVE  WarningInv'
<1> USE DEF tables
<1>1. /\ users \in [Users -> UserRow] /\ warner \in Job
      /\ warnings \in [Users -> Nat] /\ lost \in [Users -> Nat]
  BY DEF TypeOK, TablesOK, CountsOK, JobsOK
<1>2. CASE WarnJob
  <2>1. warner.at = Nobody /\ warner'.at = Nobody
    BY <1>2 DEF WarnJob, Listing, JobIdle
  <2>2. \A u \in warner'.list : u \in Users /\ ~ users[u].warned
    BY <1>2 DEF WarnJob, JobIdle, ExpiringSoon
  <2>3. users' = users /\ warnings' = warnings /\ lost' = lost
    BY <1>2 DEF WarnJob, mail
  <2> QED
    BY <2>1, <2>2, <2>3, NobodyAssumption DEF WarningInv
<1>3. ASSUME NEW u \in Users, WarnSend(u) PROVE WarningInv'
  <2>1. /\ u \in warner.list /\ warner.at = Nobody /\ ~ users[u].warned
        /\ users' = users /\ lost' = lost
    BY <1>1, <1>3 DEF WarnSend, WarningInv, Job
  <2>2. CASE /\ warnings' = [warnings EXCEPT ![u] = @ + 1]
             /\ warner' = [list |-> warner.list \ {u}, at |-> u]
    <3>1. warner'.at = u /\ warner'.list = warner.list \ {u}
      BY <2>2
    <3> QED
      BY <1>1, <2>1, <2>2, <3>1, NobodyAssumption DEF WarningInv, Job
  <2>3. CASE warner' = [warner EXCEPT !.list = @ \ {u}] /\ warnings' = warnings
    <3>1. warner'.at = warner.at /\ warner'.list = warner.list \ {u}
      BY <1>1, <2>3 DEF Job
    <3> QED
      BY <1>1, <2>1, <2>3, <3>1 DEF WarningInv, Job
  <2> QED
    BY <1>3, <2>2, <2>3 DEF WarnSend
<1>4. ASSUME NEW u \in Users, WarnMark(u) PROVE WarningInv'
  <2>1. warner.at = u /\ warner'.at = Nobody /\ warner'.list = warner.list /\ warnings' = warnings
    BY <1>1, <1>4 DEF WarnMark, Job
  <2>2. u \notin warner.list
    BY <2>1 DEF WarningInv
  <2>3. CASE MarkExpiryWarned(u) /\ UNCHANGED <<lost, faults>>
    BY <1>1, <2>1, <2>2, <2>3, NobodyAssumption
    DEF MarkExpiryWarned, WarningInv, Job, UserRow
  <2>4. CASE lost' = [lost EXCEPT ![u] = @ + 1] /\ UNCHANGED users
    BY <1>1, <2>1, <2>2, <2>4, NobodyAssumption DEF WarningInv, Job
  <2> QED
    BY <1>4, <2>3, <2>4 DEF WarnMark
<1> QED
  BY <1>2, <1>3, <1>4 DEF WarnStep

\* The other jobs, the clock and a restart mail no warning.
LEMMA WarningOther ==
  ASSUME TypeOK, WarningInv, CutStep \/ DeclineStep \/ World \/ UNCHANGED vars
  PROVE  WarningInv'
<1> USE DEF tables, jobs, mail
<1>1. /\ users \in [Users -> UserRow] /\ warner \in Job
      /\ warnings \in [Users -> Nat] /\ lost \in [Users -> Nat]
  BY DEF TypeOK, TablesOK, CountsOK, JobsOK
<1>2. CASE Restart
  <2>1. /\ warner' = JobIdle /\ users' = users /\ warnings' = warnings
        /\ lost' = [u \in Users |-> IF warner.at = u THEN lost[u] + 1 ELSE lost[u]]
    BY <1>2 DEF Restart
  <2> QED
    BY <1>1, <2>1, NobodyAssumption DEF WarningInv, JobIdle
<1> DEFINE Calm == /\ warner' = warner /\ lost' = lost /\ warnings' = warnings
                   /\ \A v \in Users : users'[v].warned = users[v].warned
<1>3. CASE CutStep
  <2>1. Calm
    BY <1>1, <1>3 DEF CutStep, ExpireJob, ExpireFlip, ExpireOne, SetStatus, ExpireRevoke,
                      UserRow
  <2> QED
    BY <1>1, <2>1, WarningQuiet DEF Job
<1>4. CASE DeclineStep
  <2>1. Calm
    BY <1>1, <1>4 DEF DeclineStep, AutoDecline, AutoDeclineFlip, SetStatus,
                      AutoDeclineRecord, UserRow
  <2> QED
    BY <1>1, <2>1, WarningQuiet DEF Job
<1>5. CASE World /\ ~ Restart
  <2>1. Calm
    BY <1>5 DEF World, TokenLapses, ForgotPassword, DeleteAccessGrant, UpsertAccessGrant,
                Logout, StatementFails, Tick
  <2> QED
    BY <1>1, <2>1, WarningQuiet DEF Job
<1>6. CASE UNCHANGED vars
  BY <1>1, <1>6, WarningQuiet DEF vars, Job
<1> QED
  BY <1>2, <1>3, <1>4, <1>5, <1>6

\* A restart alone never repeats a warning: beyond the first mail about an access
\* period, each repetition follows a mail whose marker was never written.
THEOREM OneWarning == Spec => []OneWarningPerPeriod
<1>1. Init => WarningInv
  BY NobodyAssumption DEF Init, TablesInit, JobIdle, WarningInv
<1>2. TypeOK /\ WarningInv /\ [Next]_vars => WarningInv'
  BY WarningRequest, WarningJob, WarningOther DEF Next
<1>3. TypeOK /\ WarningInv => OneWarningPerPeriod
  BY DEF TypeOK, CountsOK, WarningInv, OneWarningPerPeriod
<1> QED
  BY <1>1, <1>2, <1>3, TypeCorrect, PTL DEF Spec
=============================================================================
