----------------------------- MODULE CardTable ------------------------------
(***************************************************************************)
(* The card table as a whole: clients that log in, enter the hall or the   *)
(* game, create rooms and send READY and BET, against srv_token_login,     *)
(* srv_hall_room and srv_game_action with their queues and timers.         *)
(***************************************************************************)
EXTENDS GameAction

(* Clients (network.lua hands their messages to the services). *)

\* HTTP login; logging in again while online is what Relogin allows.
Login(u) ==
    /\ Relogin \/ ~players[u].on
    /\ login_by_token(u)

\* Websocket login on the hall or on the game server.
EnterScene(u) == \E s \in {"hall", "fight"} : chanage_serverScene(u, s)

\* The requests that may still take a room id.
Creating == {p \in Https : pc[p] = "create"}

\* HTTP request createRoom (as long as the bound on rooms has room for it).
RequestRoom(p, u) ==
    /\ pc[p] = "idle"
    /\ ridIndex + Cardinality(Creating) < MaxRooms
    /\ queue' = Enter(queue, "hall", p)
    /\ pc' = [pc EXCEPT ![p] = "create"]
    /\ loc' = [loc EXCEPT ![p].uid = u]
    /\ answer' = [answer EXCEPT ![p] = NoAnswer]
    /\ UNCHANGED <<players, hallVars, gameVars>>

\* The status of the latest round of the room that u is in.
TableStatus(u) ==
    IF players[u].rid = NoRid \/ Latest(players[u].rid) = 0 THEN "none"
    ELSE rounds[players[u].rid][Latest(players[u].rid)].status

\* Nothing tells a client the status of its round, so it may send READY and BET at any
\* time; EagerReady = FALSE bounds that to the statuses that await them.
MaySend(u, msg) ==
    \/ EagerReady
    \/ msg = "action_ready" /\ TableStatus(u) = "WAIT"
    \/ msg = "action_bet" /\ TableStatus(u) = "BET"

\* Websocket message game_action with action READY or BET, on a connection that
\* logged in as u, or on one that never logged in (NoUid).
RequestAction(p, u, msg) ==
    /\ pc[p] = "idle"
    /\ u # NoUid => players[u].on /\ MaySend(u, msg)
    /\ queue' = Enter(queue, "game", p)
    /\ pc' = [pc EXCEPT ![p] = msg]
    /\ loc' = [loc EXCEPT ![p].uid = u]
    /\ UNCHANGED <<players, hallVars, gameVars, answer>>

Clients ==
    \/ \E u \in Uids : Login(u) \/ EnterScene(u)
    \/ \E p \in Https, u \in Uids : RequestRoom(p, u)
    \/ \E p \in Wss, u \in Uids \cup {NoUid}, msg \in {"action_ready", "action_bet"} :
          RequestAction(p, u, msg)

(* The services. *)

HallStep(p) ==
    \/ createRoom_refuse(p) \/ createRoom_allocate(p) \/ createRoom_setRid(p)
    \/ createRoom_store(p) \/ createRoom_return(p)
    \/ closeRoom_delete(p) \/ closeRoom_exit(p)
    \/ broadcastRoom(p) \/ broadcastByUid(p) \/ broadcastByUids(p) \/ getRoomByRoomId(p)

GameStep(p) ==
    \/ initByRoom(p) \/ closeRound(p) \/ initByRound(p)
    \/ gameAction_refuse(p) \/ gameAction_ready(p) \/ gameAction_bet(p)
    \/ READY_mark(p) \/ READY_full(p) \/ BET_init(p) \/ BET_arm(p) \/ gameAction_end(p)
    \/ DEAL_cards(p) \/ DEAL_arm(p) \/ ENDED_next(p) \/ CLOSED_close(p)

Fire == \E p \in Timers, t \in armed : fire(p, t)

Next ==
    \/ Clients
    \/ \E p \in Procs : HallStep(p) \/ GameStep(p)
    \/ Fire

Spec == Init /\ [][Next]_vars

\* skynet resumes every coroutine whose reply has arrived, admits queued handlers
\* in order and fires every timer; nothing obliges a client to act.
FairSpec ==
    /\ Spec
    /\ \A p \in Procs : WF_vars(HallStep(p) \/ GameStep(p))
    /\ WF_vars(Fire)

-----------------------------------------------------------------------------
TypeOK ==
    /\ players \in [Uids -> Player]
    /\ rooms \in [Rids -> Room]
    /\ ridIndex \in 0 .. MaxRooms
    /\ rounds \in [Rids -> Seq(Round)]
    /\ ready \in [Rids -> Nat]
    /\ armed \subseteq Timer
    /\ queue \in [Services -> Seq(Procs)]
    /\ pc \in [Procs -> PCs]
    /\ loc \in [Procs -> Locals]
    /\ answer \in [Https -> Answer]

\* The rid in a player's record is the id of a live room in which the player sits,
\* except while createRoom is between setRidWithUid and setRoom, or closeRoom is
\* between deleteRoom and ExitRoomWithUid.
RidPointsToRoom ==
    \A u \in Uids : players[u].rid # NoRid =>
        \/ rooms[players[u].rid].seat = u
        \/ \E p \in Procs : /\ pc[p] \in {"create_store", "close_exit"}
                            /\ loc[p].rid = players[u].rid
                            /\ loc[p].uid = u

\* Two live rooms never share an invitation code (getCurrentRoomCode).
RoomCodesUnique ==
    \A r, s \in Rids : rooms[r] # NoRoom /\ rooms[s] # NoRoom /\ r # s
                          => rooms[r].code # rooms[s].code

\* A player is never moved from one room to another: createRoom looks at the rid two calls
\* before it sets it, and another request of the same user may be in flight.
RoomNotTraded ==
    [][\A u \in Uids : players[u].rid # NoRid =>
          players'[u].rid \in {players[u].rid, NoRid}]_vars

\* The room that createRoom is about to hand to the client has its first round, and
\* that round still waits for READY, though READY may already have been sent.
HandedRoomIsFresh ==
    \A p \in Procs : pc[p] = "create_done" =>
        /\ rooms[loc[p].rid].seat = loc[p].uid
        /\ rounds[loc[p].rid] = <<NewRound(loc[p].uid)>>

\* The number of players that Action_READY.handle counted before it asked the hall
\* for the room is still the room's count when it decides whether the desk is full.
ReadyCountStable ==
    \A p \in Procs : pc[p] \in {"ready_room", "ready_full"} =>
        ready[loc[p].rid] = loc[p].n

\* The round that gameAction looked up when the desk filled up is still the room's latest
\* when its status becomes BET and its countdown starts, three calls of the hall later.
StartedRoundIsLatest ==
    \A p \in Procs :
        pc[p] \in {"push_seat", "push_watch", "bet_init", "bet_bcast", "bet_arm"} =>
            loc[p].idx = Latest(loc[p].rid)

-----------------------------------------------------------------------------
(* The life of a room. *)

\* A READY was served between closeRound, which empties the desk, and initByRound, and
\* started again the round that had just ended.
Replayed(r) == \E i \in 1 .. Latest(r) : rounds[r][i].replayed

\* The status of the latest round of room r.
StatusOf(r) == IF Latest(r) = 0 THEN "none" ELSE rounds[r][Latest(r)].status

\* The countdown that runs is the one of the status the latest round is in: no callback
\* acts on a round that has moved on.  The one exception are the rooms in which a READY
\* started a round again, whatever else the clients do and however often they log in.
TimerMatchesStatus ==
    \A t \in armed :
        Replayed(t.rid) \/ (t.idx = Latest(t.rid) /\ StatusOf(t.rid) = t.kind)

\* Every room lives as module RoundLifecycle promises: at most max_round rounds, one
\* after the other, each through WAIT, BET, DEAL and ENDED in order, unless one of them
\* is started again.
Lifecycle == INSTANCE RoundLifecycle
    WITH Rooms <- Rids,
         idx <- [r \in Rids |-> Latest(r)],
         status <- [r \in Rids |-> IF Replayed(r) THEN "replayed" ELSE StatusOf(r)]
ImplementsLifecycle == Lifecycle!Spec

\* Labels at which a coroutine drives the room from one status to the next, and the
\* status the latest round is in meanwhile.
BetPcs == {"bet_bcast", "bet_arm"}
DealPcs == {"deal_bcast", "deal_cards", "deal_bcast2", "deal_arm"}
EndedPcs == {"ended_bcast", "ended_next", "next_room", "next_close", "next_init"}
ClosedPcs == {"closed_bcast", "closed_close", "close_room"}
Drives == BetPcs \cup DealPcs \cup EndedPcs \cup ClosedPcs

Driver(p, r) == pc[p] \in Drives /\ loc[p].rid = r
Driven(r) == (\E p \in Procs : Driver(p, r)) \/ (\E t \in armed : t.rid = r)

\* A message of p to the seats of room r fails: their player logged in again and has no
\* connection yet.
DriverFails(p, r) ==
    /\ Driver(p, r) /\ pc[p] \in DOMAIN AfterBroadcast /\ Serving("hall", p)
    /\ BroadcastFails(r, NoUid)

\* A room whose game is under way is never left without the countdown or the coroutine
\* that carries it on: that stops only when the next round opens, when the room is gone,
\* or when an error of sendMsg unwinds it.
DriverKept ==
    [][\A r \in Rids : Driven(r) =>
          \/ Driven(r)'
          \/ Latest(r)' > Latest(r)
          \/ rooms'[r] = NoRoom
          \/ \E p \in Procs : DriverFails(p, r)]_vars

-----------------------------------------------------------------------------
(* Promises of the repository's comments that the code does not keep. *)

\* "exports.max_round = 8; -- (the largest number of rounds)" (config_100.lua): no room
\* plays more rounds than that.
RoundsWithinMax == \A r \in Rids : Latest(r) <= MaxRound

\* "Response data of createRoom" (game_command.lua): every request is answered.
CreateAnswered == \A p \in Https : (pc[p] = "create") ~> (pc[p] = "idle")

=============================================================================
