----------------------------- MODULE TableState -----------------------------
(***************************************************************************)
(* The state shared by the services behind one card table:                 *)
(*                                                                         *)
(*   srv_token_login  (Player_list)   `players'                            *)
(*   srv_hall_room    (Room_list)     `rooms', `ridIndex'                  *)
(*   srv_game_action  (Round_list)    `rounds', `ready', `armed'           *)
(*   skynet.queue     (the CS of the hall and game services) `queue'       *)
(*                                                                         *)
(* and the coroutines that run their handlers: `pc' is the point at which  *)
(* a coroutine is suspended and `loc' holds its local variables.  Code     *)
(* between two suspensions is one step.                                    *)
(*                                                                         *)
(* A skynet service runs one coroutine at a time, and CS(f, ...) admits    *)
(* one handler at a time in arrival order, holding back the others while   *)
(* the admitted one is suspended in a skynet.call.  The head of            *)
(* queue[s] is the handler admitted by service s.  Handlers of             *)
(* srv_token_login call nobody but a gateway, which calls nobody back, so  *)
(* each of them is one step here (module Session opens them up).           *)
(***************************************************************************)
EXTENDS Naturals, Sequences, FiniteSets

CONSTANTS
    Uids,          \* users known to getPlayerByToken
    NoUid,         \* nil where a uid is expected
    Https,         \* coroutines serving HTTP requests (createRoom)
    Wss,           \* coroutines serving websocket messages (gameAction)
    Timers,        \* coroutines running timer callbacks
    Codes,         \* room invitation codes (100000..999999 in the code)
    NoCode,        \* nil where a code is expected
    DeskPlayers,   \* config.desk_player_num
    NeedCard,      \* config.need_room_card * game_config.exports
    RoomCard,      \* RoomCard[u]: Player.roomCard of u
    MaxRound,      \* config.max_round
    MaxRooms,      \* bound: rooms created in one behaviour
    RoundCap,      \* bound: rounds created in one room
    Relogin,       \* may a user log in again while online?
    EagerReady     \* bound: do clients send READY and BET whatever the status?

Rids == 1 .. MaxRooms
NoRid == 0
Procs == Https \cup Wss \cup Timers

ASSUME TableAssumption ==
    /\ NoUid \notin Uids
    /\ NoCode \notin Codes
    /\ Https \cap Wss = {} /\ Https \cap Timers = {} /\ Wss \cap Timers = {}
    /\ IsFiniteSet(Https)
    /\ MaxRooms \in Nat
    /\ MaxRound \in Nat \ {0}
    /\ RoundCap \in Nat
    /\ DeskPlayers \in Nat \ {0}
    /\ NeedCard \in Nat
    /\ RoomCard \in [Uids -> Nat]
    /\ Relogin \in BOOLEAN
    /\ EagerReady \in BOOLEAN

VARIABLES
    players,    \* Player_list of srv_token_login
    rooms,      \* Room_list of srv_hall_room
    ridIndex,   \* ROOM_ID_INDEX
    rounds,     \* Round_list of srv_game_action: the rounds of each room
    ready,      \* #ROOM_HANDLE_PEOPLE[rid], saturated at DeskPlayers + 1
    armed,      \* timers that were created and neither fired nor deleted
    queue,      \* the CS queues of the hall and of the game service
    pc, loc,    \* suspended coroutines and their locals
    answer      \* the last response to each HTTP coroutine's request

vars == <<players, rooms, ridIndex, rounds, ready, armed, queue, pc, loc, answer>>
hallVars == <<rooms, ridIndex>>
gameVars == <<rounds, ready, armed>>

-----------------------------------------------------------------------------
(* Records and their nil values. *)

Scenes == {"none", "hall", "fight"}
Player == [on: BOOLEAN, scene: Scenes, bound: BOOLEAN, rid: Rids \cup {NoRid}]
FreshPlayer == [on |-> TRUE, scene |-> "none", bound |-> FALSE, rid |-> NoRid]
OfflinePlayer == [FreshPlayer EXCEPT !.on = FALSE]

Room == [code: Codes \cup {NoCode}, seat: Uids \cup {NoUid}]
NoRoom == [code |-> NoCode, seat |-> NoUid]

Statuses == {"WAIT", "BET", "DEAL", "ENDED", "CLOSED"}
\* replayed is no field of the code's Round: it remembers that the round was started again
\* by a READY when it had already left WAIT.
Round == [status: Statuses, seat: Uids \cup {NoUid}, replayed: BOOLEAN]
Timer == [rid: Rids, idx: Nat, kind: {"BET", "DEAL", "ENDED"}]

Locals == [uid: Uids \cup {NoUid}, rid: Rids \cup {NoRid}, idx: Nat,
           n: Nat, code: Codes \cup {NoCode}]
NoLocals == [uid |-> NoUid, rid |-> NoRid, idx |-> 0, n |-> 0, code |-> NoCode]

AnswerCodes == {"none", "OK", "LOGIN_IS_OFFLINE", "HALL_OFFLINE",
                "HALL_CREATE_ROOM_NO_CARD"}
Answer == [code: AnswerCodes, rid: Rids \cup {NoRid}]
NoAnswer == [code |-> "none", rid |-> NoRid]

CreatePcs == {"create", "create_setrid", "create_store", "create_init", "create_done"}
ActionPcs == {"action_ready", "action_bet", "ready_bcast", "ready_mark", "ready_room",
              "ready_full", "push_seat", "push_watch", "push_one", "bet_init",
              "bet_bcast", "bet_arm", "betmsg_bcast", "act_end"}
TimerPcs == {"deal_bcast", "deal_cards", "deal_bcast2", "deal_arm", "ended_bcast",
             "ended_next", "closed_bcast", "closed_close", "close_room",
             "close_exit", "next_room", "next_close", "next_init"}
PCs == {"idle"} \cup CreatePcs \cup ActionPcs \cup TimerPcs

-----------------------------------------------------------------------------
(* skynet.queue, and moving a coroutine. *)

Services == {"hall", "game"}

\* A request of coroutine p joins the queue of service s.
Enter(q, s, p) == [q EXCEPT ![s] = Append(@, p)]

\* The admitted handler of service s returns or fails: the next one is admitted.
Leave(q, s) == [q EXCEPT ![s] = Tail(@)]

\* The handler run for p is the one service s has admitted.
Serving(s, p) == queue[s] # <<>> /\ Head(queue[s]) = p

\* p moves to label l and keeps its locals.
Goto(p, l) == pc' = [pc EXCEPT ![p] = l] /\ UNCHANGED loc

\* p has finished.
Finish(p) == /\ pc' = [pc EXCEPT ![p] = "idle"]
             /\ loc' = [loc EXCEPT ![p] = NoLocals]

\* An error raised in a service called by p.  It unwinds p: a timer callback
\* dies, and a websocket handler leaves the game service's queue.
Abort(p) == IF p \in Wss THEN Goto(p, "act_end") ELSE Finish(p)

Init ==
    /\ players = [u \in Uids |-> OfflinePlayer]
    /\ rooms = [r \in Rids |-> NoRoom]
    /\ ridIndex = 0
    /\ rounds = [r \in Rids |-> <<>>]
    /\ ready = [r \in Rids |-> 0]
    /\ armed = {}
    /\ queue = [s \in Services |-> <<>>]
    /\ pc = [p \in Procs |-> "idle"]
    /\ loc = [p \in Procs |-> NoLocals]
    /\ answer = [h \in Https |-> NoAnswer]

=============================================================================
