----------------------------- MODULE MCMeetings -----------------------------
(* Finite instances of Meetings. *)
EXTENDS Meetings

Day == [lo |-> 0, hi |-> 3]

Clear   == [durations |-> {1}, gap |-> 1, windows |-> {Day}, perDay |-> 2]
Close   == [durations |-> {1}, gap |-> 0, windows |-> {Day}, perDay |-> 2]

OneConfig  == {Clear}
TwoConfigs == {Clear, Close}

Lunch == {[lo |-> 1, hi |-> 2]}
=============================================================================
