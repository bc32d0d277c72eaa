---------------------------- MODULE CalendarLink ----------------------------
(***************************************************************************)
(* This program's link to the owner's Google Calendar: the stored          *)
(* credential (calendar_connection), which every call resolves afresh,     *)
(* what Google makes of it, and the access token cached from before.       *)
(***************************************************************************)
EXTENDS Integers

CONSTANT MaxFaults      \* bound: failed calls and statements, and restarts

ASSUME MaxFaultsAssumption == MaxFaults \in Nat

VARIABLES
    link,       \* the stored credential: none, one Google accepts, one it refuses
                \*   while a cached access token still passes, one it refuses
    faults      \* failed calls, failed statements and restarts so far

linkVars == <<link, faults>>

LinkOK   == link \in {"none", "working", "fading", "broken"} /\ faults \in Nat
LinkInit == link = "none" /\ faults = 0

Fault == faults < MaxFaults /\ faults' = faults + 1

Accepted == link \in {"working", "fading"}

\* A call to Google that succeeds, or fails: without a credential, with one that
\* is refused, or on the way.
CallWorks == Accepted /\ UNCHANGED linkVars
CallFails ==
    /\ \/ ~ Accepted /\ UNCHANGED faults
       \/ Accepted /\ Fault
    /\ UNCHANGED link

ConnectLink    == link # "working" /\ link' = "working" /\ UNCHANGED faults
DisconnectLink == link # "none" /\ link' = "none" /\ UNCHANGED faults

\* Google stops accepting the credential, but not yet the cached access token, if
\* there is one.
RevokedLink == link = "working" /\ link' \in {"fading", "broken"} /\ UNCHANGED faults

\* The access token lapses, or the client that caches it does.
LapsedToken == link = "fading" /\ link' = "broken" /\ UNCHANGED faults
=============================================================================
