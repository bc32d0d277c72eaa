-------------------------------- MODULE Diary --------------------------------
(***************************************************************************)
(* What the meeting scheduler promises: an appointment holds a stretch of  *)
(* time, its clearance included, that no other appointment holds; it keeps *)
(* that time until it is called off; and once called off it stays off.     *)
(***************************************************************************)
EXTENDS Integers

CONSTANT Appointments       \* records with an id, and the time held: [lo, hi)

VARIABLES
    diary,      \* the appointments that hold time
    closed      \* the ids that were called off

Clash(a, b) == a.lo < b.hi /\ b.lo < a.hi

Init == diary = {} /\ closed = {}

Agree(a) ==
    /\ a.id \notin closed
    /\ \A b \in diary : a.id # b.id /\ ~ Clash(a, b)
    /\ diary' = diary \cup {a}
    /\ UNCHANGED closed

CallOff(a) ==
    /\ diary'  = diary \ {a}
    /\ closed' = closed \cup {a.id}

Next ==
    \/ \E a \in Appointments : Agree(a)
    \/ \E a \in diary : CallOff(a)

Spec == Init /\ [][Next]_<<diary, closed>>
=============================================================================
