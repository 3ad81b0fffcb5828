------------------------------ MODULE HallRoom ------------------------------
(***************************************************************************)
(* srv_hall_room.lua with Room_list.lua: creating and closing rooms and    *)
(* broadcasting to them, and the handlers of srv_token_login.lua these     *)
(* call.  Every action below is taken by the coroutine p whose request the *)
(* hall service has admitted.                                              *)
(***************************************************************************)
EXTENDS TableState

(* srv_token_login: what the other services ask of it. *)

\* login_by_token: a new Player replaces the old one, whose scene, socket and
\* rid are forgotten.
login_by_token(u) ==
    /\ players' = [players EXCEPT ![u] = FreshPlayer]
    /\ UNCHANGED <<hallVars, gameVars, queue, pc, loc, answer>>

\* chanage_serverScene_by_uid_token, for a token that checks out.
chanage_serverScene(u, s) ==
    /\ players[u].on
    /\ players' = [players EXCEPT ![u].scene = s, ![u].bound = TRUE]
    /\ UNCHANGED <<hallVars, gameVars, queue, pc, loc, answer>>

\* setRidWithUid
setRidWithUid(r, u) == [players EXCEPT ![u].rid = IF players[u].on THEN r ELSE @]

\* Mutant: the player goes back to the hall but keeps the rid of the closed room.
ExitRoomKeepsRid(u) ==
    [players EXCEPT ![u] = [@ EXCEPT !.scene = "hall", !.bound = FALSE]]

\* ExitRoomWithUid: whatever room the player is in, it is left.
ExitRoomWithUid(u) ==
    IF ~players[u].on THEN players
    ELSE [players EXCEPT ![u] = [@ EXCEPT !.scene = "hall", !.bound = FALSE, !.rid = NoRid]]

\* sendMsg raises an error when the player has no socket: skynet.call(nil, ...).
sendMsgFails(u) == players[u].on /\ ~players[u].bound

-----------------------------------------------------------------------------
(* createRoom *)

\* Mutant: judge_roomcode_repeat never finds a repetition.
NoRepeat(code) == FALSE

judge_roomcode_repeat(code) ==
    \E r \in Rids : rooms[r] # NoRoom /\ rooms[r].code = code

\* Mutant: a player who is in a room may create another one.
CreateRefusalAnyRid(u) ==
    IF ~players[u].on THEN "LOGIN_IS_OFFLINE"
    ELSE IF players[u].scene # "hall" THEN "HALL_OFFLINE"
    ELSE IF NeedCard < RoomCard[u] THEN "HALL_CREATE_ROOM_NO_CARD"
    ELSE "none"

\* The early returns of createRoom, in their order.  The error code for a player
\* who is already in a room is misspelt, hence nil, and code_utils.package turns
\* nil into OK.
CreateRefusal(u) ==
    IF ~players[u].on THEN "LOGIN_IS_OFFLINE"
    ELSE IF players[u].scene # "hall" THEN "HALL_OFFLINE"
    ELSE IF players[u].rid # NoRid THEN "OK"
    ELSE IF NeedCard < RoomCard[u] THEN "HALL_CREATE_ROOM_NO_CARD"
    ELSE "none"

createRoom_refuse(p) ==
    /\ pc[p] = "create" /\ Serving("hall", p)
    /\ CreateRefusal(loc[p].uid) # "none"
    /\ answer' = [answer EXCEPT ![p] = [code |-> CreateRefusal(loc[p].uid), rid |-> NoRid]]
    /\ queue' = Leave(queue, "hall")
    /\ Finish(p)
    /\ UNCHANGED <<players, hallVars, gameVars>>

\* Mutant: an id is skipped.
SkipRoomId == ridIndex + 2

getCurrentRoomId == ridIndex + 1

\* getCurrentRoomId and getCurrentRoomCode, after the checks.
createRoom_allocate(p) ==
    /\ pc[p] = "create" /\ Serving("hall", p)
    /\ CreateRefusal(loc[p].uid) = "none"
    /\ ridIndex' = getCurrentRoomId
    /\ \E code \in Codes :
         /\ ~judge_roomcode_repeat(code)
         /\ loc' = [loc EXCEPT ![p].rid = getCurrentRoomId, ![p].code = code]
    /\ pc' = [pc EXCEPT ![p] = "create_setrid"]
    /\ UNCHANGED <<players, rooms, gameVars, queue, answer>>

createRoom_setRid(p) ==
    /\ pc[p] = "create_setrid" /\ Serving("hall", p)
    /\ players' = setRidWithUid(loc[p].rid, loc[p].uid)
    /\ Goto(p, "create_store")
    /\ UNCHANGED <<hallVars, gameVars, queue, answer>>

\* Mutant: createRoom does not wait for the game service to open the first round.
createRoom_store_early(p) ==
    /\ pc[p] = "create_store" /\ Serving("hall", p)
    /\ rooms' = [rooms EXCEPT ![loc[p].rid] = [code |-> loc[p].code, seat |-> loc[p].uid]]
    /\ Goto(p, "create_done")
    /\ UNCHANGED <<players, ridIndex, gameVars, queue, answer>>

\* Room_list.setRoom, then srv_game_action is called with the hall's queue held.
createRoom_store(p) ==
    /\ pc[p] = "create_store" /\ Serving("hall", p)
    /\ rooms' = [rooms EXCEPT ![loc[p].rid] = [code |-> loc[p].code, seat |-> loc[p].uid]]
    /\ queue' = Enter(queue, "game", p)
    /\ Goto(p, "create_init")
    /\ UNCHANGED <<players, ridIndex, gameVars, answer>>

createRoom_return(p) ==
    /\ pc[p] = "create_done" /\ Serving("hall", p)
    /\ answer' = [answer EXCEPT ![p] = [code |-> "OK", rid |-> loc[p].rid]]
    /\ queue' = Leave(queue, "hall")
    /\ Finish(p)
    /\ UNCHANGED <<players, hallVars, gameVars>>

-----------------------------------------------------------------------------
(* closeRoom *)

\* deleteRoom; indexing the missing room raises an error.
closeRoom_delete(p) ==
    /\ pc[p] = "close_room" /\ Serving("hall", p)
    /\ IF rooms[loc[p].rid] = NoRoom
         THEN /\ Abort(p)
              /\ queue' = Leave(queue, "hall")
              /\ UNCHANGED rooms
         ELSE /\ rooms' = [rooms EXCEPT ![loc[p].rid] = NoRoom]
              /\ loc' = [loc EXCEPT ![p].uid = rooms[loc[p].rid].seat]
              /\ pc' = [pc EXCEPT ![p] = "close_exit"]
              /\ UNCHANGED queue
    /\ UNCHANGED <<players, ridIndex, gameVars, answer>>

\* Every seat leaves (one seat: nobody but the creator sits down).  The loop over
\* watcher_uid_list, which is nil, then raises an error, and nothing follows it.
closeRoom_exit(p) ==
    /\ pc[p] = "close_exit" /\ Serving("hall", p)
    /\ players' = ExitRoomWithUid(loc[p].uid)
    /\ queue' = Leave(queue, "hall")
    /\ Finish(p)
    /\ UNCHANGED <<hallVars, gameVars, answer>>

-----------------------------------------------------------------------------
(* broadcastRoom, broadcastByUid, broadcastByUids and getRoomByRoomId *)

\* Where the caller of broadcastRoom resumes.
AfterBroadcast ==
    [ready_bcast |-> "ready_mark", betmsg_bcast |-> "act_end", bet_bcast |-> "bet_arm",
     deal_bcast |-> "deal_cards", deal_bcast2 |-> "deal_arm",
     ended_bcast |-> "ended_next", closed_bcast |-> "closed_close"]

\* filterUid: the player whose message is relayed is left out.
FilterUid(p) ==
    IF pc[p] \in {"ready_bcast", "betmsg_bcast"} THEN loc[p].uid ELSE NoUid

\* No room: nobody is told.  Otherwise the seat is sent the message.
BroadcastFails(r, filter) ==
    /\ r # NoRid
    /\ rooms[r] # NoRoom
    /\ rooms[r].seat # filter
    /\ sendMsgFails(rooms[r].seat)

broadcastRoom(p) ==
    /\ pc[p] \in DOMAIN AfterBroadcast /\ Serving("hall", p)
    /\ queue' = Leave(queue, "hall")
    /\ IF BroadcastFails(loc[p].rid, FilterUid(p))
         THEN Abort(p)
         ELSE Goto(p, AfterBroadcast[pc[p]])
    /\ UNCHANGED <<players, hallVars, gameVars, answer>>

\* The init message of a round, to a seat (push_all) or to one player (push_one).
broadcastByUid(p) ==
    /\ pc[p] \in {"push_seat", "push_one"} /\ Serving("hall", p)
    /\ LET left == Leave(queue, "hall") IN
       IF sendMsgFails(loc[p].uid)
         THEN queue' = left /\ Abort(p)
         ELSE IF pc[p] = "push_seat"
                THEN queue' = Enter(left, "hall", p) /\ Goto(p, "push_watch")
                ELSE queue' = left /\ Goto(p, "act_end")
    /\ UNCHANGED <<players, hallVars, gameVars, answer>>

\* The watchers' list of a round is empty.
broadcastByUids(p) ==
    /\ pc[p] = "push_watch" /\ Serving("hall", p)
    /\ queue' = Leave(queue, "hall")
    /\ Goto(p, "bet_init")
    /\ UNCHANGED <<players, hallVars, gameVars, answer>>

\* getRoomByRoomId, asked by Action_READY.handle (which ignores the result) and
\* by the timer that opens the next round (which stops when the room is gone and
\* otherwise calls closeRound next, keeping the room it read).
getRoomByRoomId(p) ==
    /\ pc[p] \in {"ready_room", "next_room"} /\ Serving("hall", p)
    /\ LET left == Leave(queue, "hall") IN
       IF pc[p] = "ready_room"
         THEN queue' = left /\ Goto(p, "ready_full")
         ELSE IF rooms[loc[p].rid] = NoRoom
                THEN queue' = left /\ Finish(p)
                ELSE /\ queue' = Enter(left, "game", p)
                     /\ loc' = [loc EXCEPT ![p].uid = rooms[loc[p].rid].seat]
                     /\ pc' = [pc EXCEPT ![p] = "next_close"]
    /\ UNCHANGED <<players, hallVars, gameVars, answer>>

=============================================================================
