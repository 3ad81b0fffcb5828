--------------------------- MODULE RoundLifecycle ---------------------------
(***************************************************************************)
(* What the game service makes of every room: its rounds are played one    *)
(* after the other, at most max_round of them, each goes through the       *)
(* statuses of game_status.lua in order, and only the last one is closed.  *)
(* There is one way out: a round that ended, but for the last, may be      *)
(* started again by a READY that comes before the next one is opened.      *)
(* Then two rounds are played at once and may each open a further one past *)
(* max_round; of such a room this module says no more ("replayed").        *)
(* idx[r] is the number of rounds opened so far in room r and status[r]    *)
(* the status of the latest.                                               *)
(***************************************************************************)
EXTENDS Naturals

CONSTANTS Rooms, MaxRound
VARIABLES idx, status

Init == /\ idx = [r \in Rooms |-> 0]
        /\ status = [r \in Rooms |-> "none"]

\* A round is opened: the room's first, or the one after a round that ended.
Open(r) ==
    /\ idx[r] < MaxRound
    /\ idx[r] = 0 \/ status[r] = "ENDED"
    /\ idx' = [idx EXCEPT ![r] = @ + 1]
    /\ status' = [status EXCEPT ![r] = "WAIT"]

Advance(r, from, to) ==
    /\ status[r] = from
    /\ status' = [status EXCEPT ![r] = to]
    /\ UNCHANGED idx

Bet(r) == Advance(r, "WAIT", "BET")
Deal(r) == Advance(r, "BET", "DEAL")
End(r) == Advance(r, "DEAL", "ENDED")
Close(r) == idx[r] = MaxRound /\ Advance(r, "ENDED", "CLOSED")

\* A round that ended, and is not the last, is started again.
Replay(r) == idx[r] < MaxRound /\ Advance(r, "ENDED", "replayed")

\* One more round is opened beside it.
Further(r) ==
    /\ status[r] = "replayed"
    /\ idx' = [idx EXCEPT ![r] = @ + 1]
    /\ UNCHANGED status

Next == \E r \in Rooms :
    Open(r) \/ Bet(r) \/ Deal(r) \/ End(r) \/ Close(r) \/ Replay(r) \/ Further(r)

Spec == Init /\ [][Next]_<<idx, status>>
=============================================================================
