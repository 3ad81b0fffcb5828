----------------------------- MODULE GameAction -----------------------------
(***************************************************************************)
(* srv_game_action.lua with the BAIJIALE actions, Round.lua and            *)
(* Round_list.lua: the rounds of a room, driven by READY messages, which   *)
(* the game service's queue serialises, and by timer callbacks, which it   *)
(* does not.                                                               *)
(*                                                                         *)
(*   WAIT --READY--> BET --15s--> DEAL --10s--> ENDED --5s--> next WAIT    *)
(*                                                  \--last--> CLOSED      *)
(***************************************************************************)
EXTENDS HallRoom

(* Round.lua *)

\* The timers that close_timeout deletes.
TimersOf(r, i) == {t \in armed : t.rid = r /\ t.idx = i}

create_timeout(r, i, kind) ==
    (armed \ TimersOf(r, i)) \cup {[rid |-> r, idx |-> i, kind |-> kind]}

close_timeout(r, i) == armed \ TimersOf(r, i)

\* A round in a new status: betting after anything but WAIT is its being replayed.
InStatus(round, st) ==
    [round EXCEPT !.status = st, !.replayed = @ \/ (st = "BET" /\ round.status # "WAIT")]

change_status(r, i, st) == [rounds EXCEPT ![r][i] = InStatus(@, st)]

(* Round_list.getRoundByRoundId without an index: the latest round. *)
Latest(r) == Len(rounds[r])

(* _createRound *)
NewRound(seat) == [status |-> "WAIT", seat |-> seat, replayed |-> FALSE]

-----------------------------------------------------------------------------
(* Calls of other services, admitted by the game service's queue. *)

\* initByRoom, called by createRoom: the list of rounds and its first round.
initByRoom(p) ==
    /\ pc[p] = "create_init" /\ Serving("game", p)
    /\ LET r == loc[p].rid IN
       IF rounds[r] = <<>>
         THEN /\ rounds' = [rounds EXCEPT ![r] = <<NewRound(loc[p].uid)>>]
              /\ ready' = [ready EXCEPT ![r] = 0]
         ELSE UNCHANGED <<rounds, ready>>
    /\ queue' = Leave(queue, "game")
    /\ Goto(p, "create_done")
    /\ UNCHANGED <<players, hallVars, armed, answer>>

\* Mutant: the game service serves closeRound at once, outside its queue.
closeRound_unqueued(p) ==
    /\ pc[p] = "next_close"
    /\ armed' = close_timeout(loc[p].rid, Latest(loc[p].rid))
    /\ ready' = [ready EXCEPT ![loc[p].rid] = 0]
    /\ queue' = [queue EXCEPT !["game"] = Append(SelectSeq(@, LAMBDA q : q # p), p)]
    /\ Goto(p, "next_init")
    /\ UNCHANGED <<players, hallVars, rounds, answer>>

\* closeRound, called by the timer that opens the next round.  It closes the
\* latest round; the same coroutine then calls initByRound.
closeRound(p) ==
    /\ pc[p] = "next_close" /\ Serving("game", p)
    /\ armed' = close_timeout(loc[p].rid, Latest(loc[p].rid))
    /\ ready' = [ready EXCEPT ![loc[p].rid] = 0]
    /\ queue' = Enter(Leave(queue, "game"), "game", p)
    /\ Goto(p, "next_init")
    /\ UNCHANGED <<players, hallVars, rounds, answer>>

\* Mutant: the game service serves initByRound at once, outside its queue.
initByRound_unqueued(p) ==
    /\ pc[p] = "next_init"
    /\ rounds' = [rounds EXCEPT ![loc[p].rid] = Append(@, NewRound(loc[p].uid))]
    /\ ready' = [ready EXCEPT ![loc[p].rid] = 0]
    /\ queue' = [queue EXCEPT !["game"] = SelectSeq(@, LAMBDA q : q # p)]
    /\ Finish(p)
    /\ UNCHANGED <<players, hallVars, armed, answer>>

\* initByRound: one more round in status WAIT.
initByRound(p) ==
    /\ pc[p] = "next_init" /\ Serving("game", p)
    /\ rounds' = [rounds EXCEPT ![loc[p].rid] = Append(@, NewRound(loc[p].uid))]
    /\ ready' = [ready EXCEPT ![loc[p].rid] = 0]
    /\ queue' = Leave(queue, "game")
    /\ Finish(p)
    /\ UNCHANGED <<players, hallVars, armed, answer>>

-----------------------------------------------------------------------------
(* gameAction *)

\* The user of the connection is known (getUidByFd) and in the fight scene.
InFight(u) == u \in Uids /\ players[u].scene = "fight"

\* The fd is unknown to srv_game_login, or its player is not in the fight scene.
gameAction_refuse(p) ==
    /\ pc[p] \in {"action_ready", "action_bet"} /\ Serving("game", p)
    /\ ~InFight(loc[p].uid)
    /\ Goto(p, "act_end")
    /\ UNCHANGED <<players, hallVars, gameVars, queue, answer>>

\* Action_READY.handle: the player's rid is read here and used to the end of the
\* handler; the hall relays the message to the other seats.
gameAction_ready(p) ==
    /\ pc[p] = "action_ready" /\ Serving("game", p)
    /\ InFight(loc[p].uid)
    /\ loc' = [loc EXCEPT ![p].rid = players[loc[p].uid].rid]
    /\ pc' = [pc EXCEPT ![p] = "ready_bcast"]
    /\ queue' = Enter(queue, "hall", p)
    /\ UNCHANGED <<players, hallVars, gameVars, answer>>

\* Action_BET.handle: a bet of more than the player's diamonds is answered with
\* NO_DIAMONDS, any other is relayed.  Nothing is recorded.
gameAction_bet(p) ==
    /\ pc[p] = "action_bet" /\ Serving("game", p)
    /\ InFight(loc[p].uid)
    /\ \/ Goto(p, "act_end") /\ UNCHANGED queue
       \/ /\ loc' = [loc EXCEPT ![p].rid = players[loc[p].uid].rid]
          /\ pc' = [pc EXCEPT ![p] = "betmsg_bcast"]
          /\ queue' = Enter(queue, "hall", p)
    /\ UNCHANGED <<players, hallVars, gameVars, answer>>

\* One player more; more players than the desk needs are not told apart.
CountReady(r) == IF ready[r] > DeskPlayers THEN ready[r] ELSE ready[r] + 1

\* The player is counted (ROOM_HANDLE_PEOPLE[nil] raises an error) and the room is
\* asked for.
READY_mark(p) ==
    /\ pc[p] = "ready_mark"
    /\ IF loc[p].rid = NoRid
         THEN Abort(p) /\ UNCHANGED <<ready, queue>>
         ELSE /\ ready' = [ready EXCEPT ![loc[p].rid] = CountReady(loc[p].rid)]
              /\ loc' = [loc EXCEPT ![p].n = CountReady(loc[p].rid)]
              /\ pc' = [pc EXCEPT ![p] = "ready_room"]
              /\ queue' = Enter(queue, "hall", p)
    /\ UNCHANGED <<players, hallVars, rounds, armed, answer>>

\* isfull = -1: wait for more players.  0: the desk has just filled up, push_all is
\* called for the latest round.  1: the latest round is pushed to this player.
READY_full(p) ==
    /\ pc[p] = "ready_full"
    /\ LET n == loc[p].n  r == loc[p].rid IN
       IF n < DeskPlayers \/ Latest(r) = 0
         THEN Goto(p, "act_end") /\ UNCHANGED queue
         ELSE /\ queue' = Enter(queue, "hall", p)
              /\ IF n = DeskPlayers
                   THEN /\ loc' = [loc EXCEPT ![p].idx = Latest(r),
                                              ![p].uid = rounds[r][Latest(r)].seat]
                        /\ pc' = [pc EXCEPT ![p] = "push_seat"]
                   ELSE Goto(p, "push_one")
    /\ UNCHANGED <<players, hallVars, gameVars, answer>>

\* Action_BET.init: the status first, the timer after the broadcast.
BET_init(p) ==
    /\ pc[p] = "bet_init"
    /\ rounds' = change_status(loc[p].rid, loc[p].idx, "BET")
    /\ queue' = Enter(queue, "hall", p)
    /\ Goto(p, "bet_bcast")
    /\ UNCHANGED <<players, hallVars, ready, armed, answer>>

\* Mutant: the bet countdown is never started.
BET_arm_none(p) ==
    /\ pc[p] = "bet_arm"
    /\ Goto(p, "act_end")
    /\ UNCHANGED <<players, hallVars, gameVars, queue, answer>>

BET_arm(p) ==
    /\ pc[p] = "bet_arm"
    /\ armed' = create_timeout(loc[p].rid, loc[p].idx, "BET")
    /\ Goto(p, "act_end")
    /\ UNCHANGED <<players, hallVars, rounds, ready, queue, answer>>

\* gameAction returns, or an error leaves it: either way the queue is released.
gameAction_end(p) ==
    /\ pc[p] = "act_end" /\ Serving("game", p)
    /\ queue' = Leave(queue, "game")
    /\ Finish(p)
    /\ UNCHANGED <<players, hallVars, gameVars, answer>>

-----------------------------------------------------------------------------
(* Timer callbacks.  They run in the game service but not in its queue. *)

\* Mutant: ActionHelper_ENDED.init does not change the status.
StatusAfterStays == [BET |-> "DEAL", DEAL |-> "DEAL"]

\* The status that the callback of each countdown sets, and its first call.
StatusAfter == [BET |-> "DEAL", DEAL |-> "ENDED"]
LabelAfter == [BET |-> "deal_bcast", DEAL |-> "ended_bcast", ENDED |-> "next_room"]

\* A countdown expires and its callback runs up to its first call of the hall:
\* Action_DEAL.init, ActionHelper_ENDED.init, or the start of the next round.
fire(p, t) ==
    /\ pc[p] = "idle" /\ t \in armed
    /\ t.kind = "ENDED" => Latest(t.rid) < RoundCap
    /\ armed' = armed \ {t}
    /\ rounds' = IF t.kind = "ENDED" THEN rounds
                 ELSE change_status(t.rid, t.idx, StatusAfter[t.kind])
    /\ loc' = [loc EXCEPT ![p].rid = t.rid, ![p].idx = t.idx]
    /\ pc' = [pc EXCEPT ![p] = LabelAfter[t.kind]]
    /\ queue' = Enter(queue, "hall", p)
    /\ UNCHANGED <<players, hallVars, ready, answer>>

\* Action_DEAL.init between its two broadcasts: the cards are shown.
DEAL_cards(p) ==
    /\ pc[p] = "deal_cards"
    /\ queue' = Enter(queue, "hall", p)
    /\ Goto(p, "deal_bcast2")
    /\ UNCHANGED <<players, hallVars, gameVars, answer>>

DEAL_arm(p) ==
    /\ pc[p] = "deal_arm"
    /\ armed' = create_timeout(loc[p].rid, loc[p].idx, "DEAL")
    /\ Finish(p)
    /\ UNCHANGED <<players, hallVars, rounds, ready, queue, answer>>

\* Mutant: off by one, the room plays a round too many.
IsLastRoundLate(i) == i > MaxRound

IsLastRound(i) == i >= MaxRound

\* ActionHelper_ENDED.init after its broadcast: the last round goes on to
\* ActionHelper_CLOSED.init, any other starts the countdown to the next round.
ENDED_next(p) ==
    /\ pc[p] = "ended_next"
    /\ IF IsLastRound(loc[p].idx)
         THEN /\ rounds' = change_status(loc[p].rid, loc[p].idx, "CLOSED")
              /\ queue' = Enter(queue, "hall", p)
              /\ Goto(p, "closed_bcast")
              /\ UNCHANGED armed
         ELSE /\ armed' = create_timeout(loc[p].rid, loc[p].idx, "ENDED")
              /\ Finish(p)
              /\ UNCHANGED <<rounds, queue>>
    /\ UNCHANGED <<players, hallVars, ready, answer>>

\* ActionHelper_CLOSED.init after its broadcast.
CLOSED_close(p) ==
    /\ pc[p] = "closed_close"
    /\ armed' = close_timeout(loc[p].rid, loc[p].idx)
    /\ queue' = Enter(queue, "hall", p)
    /\ Goto(p, "close_room")
    /\ UNCHANGED <<players, hallVars, rounds, ready, answer>>

=============================================================================
