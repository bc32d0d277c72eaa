------------------------------ MODULE SlotLine ------------------------------
(***************************************************************************)
(* What the pipeline slots promise: runs wait in a line of no order, at    *)
(* most Slots of them work at once, a run that is over stays over, and no  *)
(* run waits or works for ever.                                            *)
(***************************************************************************)
EXTENDS FiniteSets, Naturals

CONSTANTS
    Runs,       \* everything that may ever ask for a slot
    Slots       \* how many may work at once

VARIABLES
    waiting, working, over

lineVars == <<waiting, working, over>>

LineInit == waiting = {} /\ working = {} /\ over = {}

Join(r) ==
    /\ r \notin waiting \cup working \cup over
    /\ waiting' = waiting \cup {r}
    /\ UNCHANGED <<working, over>>

Begin(r) ==
    /\ r \in waiting /\ Cardinality(working) < Slots
    /\ waiting' = waiting \ {r} /\ working' = working \cup {r}
    /\ UNCHANGED over

\* A run leaves: its work is done, or it gives up the wait.
Leave(r) ==
    /\ r \in waiting \cup working
    /\ waiting' = waiting \ {r} /\ working' = working \ {r}
    /\ over' = over \cup {r}

\* The process stops, and every run with it.
Collapse ==
    /\ waiting' = {} /\ working' = {}
    /\ over' = over \cup waiting \cup working

LineNext == Collapse \/ \E r \in Runs : Join(r) \/ Begin(r) \/ Leave(r)

LineSpec ==
    /\ LineInit /\ [][LineNext]_lineVars
    /\ \A r \in Runs : WF_lineVars(Leave(r))
=============================================================================
