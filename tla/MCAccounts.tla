------------------------------ MODULE MCAccounts ------------------------------
(***************************************************************************)
(* Small instances of Accounts for TLC.                                    *)
(***************************************************************************)
EXTENDS Accounts, TLC

ReqSymmetry == Permutations(Reqs)

\* Everything that moves an account between its states, and the reset link.
LifecycleCalls == {"register", "verify", "decide", "grant", "setStatus",
                   "cut", "autoDecline", "reset"}

\* Sign-in, reset, and all three scheduler jobs; nobody is disabled.
SessionCalls == {"register", "verify", "decide", "extend", "login", "reset",
                 "warn", "cut", "autoDecline"}

\* Enough to warn a member and to extend the access afterwards.
WarningCalls == {"register", "verify", "decide", "extend", "warn"}
=============================================================================
