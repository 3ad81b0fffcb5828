---------------------------- MODULE ServiceRing -----------------------------
(***************************************************************************)
(* What srv_center promises of the services registered under one name:     *)
(* they take turns.  `ring' lists them in the order in which they will be  *)
(* handed out, one that was registered twice with two turns, and `last' is *)
(* the one handed out last.                                                *)
(***************************************************************************)
EXTENDS Sequences

CONSTANTS Handles, NoHandle
VARIABLES ring, last

Init == ring = <<>> /\ last = NoHandle

\* The service whose turn it is goes to the end.
Pick ==
    /\ ring # <<>>
    /\ last' = Head(ring)
    /\ ring' = Append(Tail(ring), Head(ring))

\* A registration is next but one, of a service that has a turn already as of a new one.
Join(h) ==
    /\ h \in Handles
    /\ ring' = IF ring = <<>> THEN <<h>> ELSE <<Head(ring), h>> \o Tail(ring)
    /\ UNCHANGED last

Next == Pick \/ \E h \in Handles : Join(h)

Spec == Init /\ [][Next]_<<ring, last>>
=============================================================================
