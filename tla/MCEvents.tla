------------------------------ MODULE MCEvents ------------------------------
(* Events for TLC: one listener for all events and one for a single event. *)
EXTENDS Events, TLC

CONSTANTS l1, l2, e1, e2, c1, exit, read

MCListeners == {l1, l2}
MCEventSet == {e1, e2}
MCEventName == l1 :> All @@ l2 :> exit @@ e1 :> exit @@ e2 :> read
MCCallback == l1 :> c1 @@ l2 :> c1
=============================================================================
