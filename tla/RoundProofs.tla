---------------------------- MODULE RoundProofs -----------------------------
(***************************************************************************)
(* The life of a room's rounds, for any numbers of users, coroutines,      *)
(* rooms and rounds, and for any clients: a room is driven by one timer or *)
(* one coroutine at a time, no countdown outlives the status it was        *)
(* started for, and the rounds go the way of RoundLifecycle, until a READY *)
(* is served between the end of a round and the start of the next and      *)
(* starts the round that has ended once more.  In every room, the next     *)
(* countdown follows the last one unless an error comes between.           *)
(***************************************************************************)
EXTENDS CardTableProofs

(* The life of one room. *)

\* The status of the latest round while a coroutine is at a label of Drives.
Stage == [l \in Drives |-> IF l \in BetPcs THEN "BET" ELSE IF l \in DealPcs THEN "DEAL"
                           ELSE IF l \in EndedPcs THEN "ENDED" ELSE "CLOSED"]

\* Labels at which gameAction serves READY.
ReadyPcs == {"ready_bcast", "ready_mark", "ready_room", "ready_full"}

\* p has counted the player that fills the desk.
Filled(p, r) ==
    /\ loc[p].rid = r
    /\ \/ pc[p] \in {"push_seat", "push_watch", "bet_init"}
       \/ pc[p] \in {"ready_room", "ready_full"} /\ loc[p].n = DeskPlayers /\ Latest(r) # 0

\* A driver and a countdown are about the latest round and its status.
DriverMatches(r) ==
    \A p \in Procs : Driver(p, r) => loc[p].idx = Latest(r) /\ StatusOf(r) = Stage[pc[p]]
TimerMatches(r) ==
    \A t \in armed : t.rid = r => t.idx = Latest(r) /\ StatusOf(r) = t.kind

\* There is one of them.
OneDriver(r) ==
    /\ \A p, q \in Procs : Driver(p, r) /\ Driver(q, r) => p = q
    /\ \A p \in Procs, t \in armed : Driver(p, r) => t.rid # r

\* Once a round has left WAIT the desk stays full until closeRound empties it ...
Restarting(r) == \E p \in Procs : pc[p] = "next_init" /\ loc[p].rid = r
StartedIsFull(r) ==
    StatusOf(r) \notin {"none", "WAIT"} => ready[r] >= DeskPlayers \/ Restarting(r)

\* ... so that it fills up in status WAIT, or between closeRound and initByRound.
FilledWaits(r) ==
    \A p \in Procs : Filled(p, r) =>
        ready[r] >= DeskPlayers /\ (StatusOf(r) = "WAIT" \/ Restarting(r))

\* A further round is opened only while there is one left.
NextPcs == {"next_room", "next_close", "next_init"}
RoundsLeft(r) ==
    /\ Latest(r) <= MaxRound
    /\ \A t \in armed : t.rid = r /\ t.kind = "ENDED" => t.idx < MaxRound
    /\ \A p \in Procs : pc[p] \in NextPcs /\ loc[p].rid = r => loc[p].idx < MaxRound

RoomLife(r) ==
    /\ DriverMatches(r) /\ TimerMatches(r) /\ OneDriver(r)
    /\ FilledWaits(r) /\ StartedIsFull(r) /\ RoundsLeft(r)

LifeInv == \A r \in Rids : Replayed(r) \/ RoomLife(r)

-----------------------------------------------------------------------------
\* Nothing about room r changes in a step of p, but that p may go on.
LifeQuiet(p, r) ==
    /\ rounds'[r] = rounds[r] /\ ready'[r] = ready[r]
    /\ \A t \in armed' : t.rid = r => t \in armed
    /\ Driver(p, r)' => /\ Driver(p, r) /\ Stage[pc'[p]] = Stage[pc[p]]
                        /\ loc'[p].idx = loc[p].idx
                        /\ pc'[p] \in NextPcs => pc[p] \in NextPcs
    /\ Filled(p, r)' => Filled(p, r)
    /\ pc[p] = "next_init" => loc[p].rid # r

LEMMA QuietLife ==
    ASSUME NEW p \in Procs, NEW r \in Rids, RoomLife(r), LifeQuiet(p, r),
           \A q \in Procs \ {p} : pc'[q] = pc[q] /\ loc'[q] = loc[q]
    PROVE  RoomLife(r)'
<1>1. Latest(r)' = Latest(r) /\ StatusOf(r)' = StatusOf(r) /\ ready'[r] = ready[r]
  BY DEF LifeQuiet, StatusOf, Latest
<1>2. \A q \in Procs : Driver(q, r)' =>
         /\ Driver(q, r) /\ Stage[pc'[q]] = Stage[pc[q]] /\ loc'[q].idx = loc[q].idx
         /\ pc'[q] \in NextPcs => pc[q] \in NextPcs
  BY DEF LifeQuiet, Driver
<1>3. \A t \in armed' : t.rid = r => t \in armed
  BY DEF LifeQuiet
<1>4. DriverMatches(r)' /\ TimerMatches(r)' /\ OneDriver(r)'
  BY <1>1, <1>2, <1>3 DEF RoomLife, DriverMatches, TimerMatches, OneDriver
<1>5. Restarting(r) => Restarting(r)'
  BY DEF Restarting, LifeQuiet
<1>6. FilledWaits(r)' /\ StartedIsFull(r)'
  <2>1. \A q \in Procs : Filled(q, r)' => Filled(q, r)
    BY <1>1 DEF LifeQuiet, Filled
  <2> QED
    BY <1>1, <1>5, <2>1 DEF RoomLife, FilledWaits, StartedIsFull
<1>7. RoundsLeft(r)'
  <2>1. \A q \in Procs : pc'[q] \in NextPcs /\ loc'[q].rid = r =>
           pc[q] \in NextPcs /\ loc[q].rid = r /\ loc'[q].idx = loc[q].idx
    BY <1>2 DEF Driver, NextPcs, Drives, EndedPcs
  <2> QED
    BY <1>1, <1>3, <2>1 DEF RoomLife, RoundsLeft
<1> QED
  BY <1>4, <1>6, <1>7 DEF RoomLife

-----------------------------------------------------------------------------
(* Quiet steps. *)

\* Labels that say nothing of a room.
Watched == Drives \cup ReadyPcs \cup {"push_seat", "push_watch", "bet_init"}

\* p leaves the labels that are watched, or is not about r.
LEMMA RetireQuiet ==
    ASSUME TypeInv, NEW p \in Procs, NEW r \in Rids,
           rounds'[r] = rounds[r], ready'[r] = ready[r],
           \A t \in armed' : t.rid = r => t \in armed,
           pc'[p] \notin Watched \/ loc'[p].rid # r,
           pc[p] = "next_init" => loc[p].rid # r
    PROVE  LifeQuiet(p, r)
<1>1. ~Driver(p, r)' /\ ~Filled(p, r)'
  BY DEF Driver, Filled, Watched, ReadyPcs
<1> QED
  BY <1>1 DEF LifeQuiet

\* p goes on and keeps the room it works on.
LEMMA ProceedQuiet ==
    ASSUME TypeInv, NEW p \in Procs, NEW r \in Rids,
           rounds'[r] = rounds[r], ready'[r] = ready[r],
           \A t \in armed' : t.rid = r => t \in armed,
           loc'[p].rid = loc[p].rid,
           pc'[p] \in Drives => /\ pc[p] \in Drives /\ Stage[pc'[p]] = Stage[pc[p]]
                                /\ loc'[p].idx = loc[p].idx
                                /\ pc'[p] \in NextPcs => pc[p] \in NextPcs,
           Filled(p, r)' => Filled(p, r),
           pc[p] # "next_init"
    PROVE  LifeQuiet(p, r)
BY DEF LifeQuiet, Driver

\* Where an error or the end of a handler leaves p.
LEMMA EndsUnwatched ==
    ASSUME TypeInv, NEW p \in Procs, Abort(p) \/ Finish(p) \/ Goto(p, "act_end")
    PROVE  pc'[p] \notin Watched
<1>1. pc'[p] \in {"idle", "act_end"}
  BY DEF TypeInv, TypeOK, Abort, Finish, Goto
<1> QED
  BY <1>1 DEF Watched, Drives, BetPcs, DealPcs, EndedPcs, ClosedPcs, ReadyPcs

LEMMA HallQuiet ==
    ASSUME TypeInv, NEW p \in Procs, NEW r \in Rids, HallStep(p)
    PROVE  LifeQuiet(p, r)
<1> USE DEF gameVars
<1>t. pc \in [Procs -> PCs] /\ loc \in [Procs -> Locals]
  BY DEF TypeInv, TypeOK
<1>2. /\ rounds'[r] = rounds[r] /\ ready'[r] = ready[r]
      /\ \A t \in armed' : t.rid = r => t \in armed
  BY DEF HallStep, createRoom_refuse, createRoom_allocate, createRoom_setRid, createRoom_store,
         createRoom_return, closeRoom_delete, closeRoom_exit, broadcastRoom, broadcastByUid,
         broadcastByUids, getRoomByRoomId
<1>3. pc[p] # "next_init"
  BY DEF HallStep, createRoom_refuse, createRoom_allocate, createRoom_setRid, createRoom_store,
         createRoom_return, closeRoom_delete, closeRoom_exit, broadcastRoom, AfterBroadcast,
         broadcastByUid, broadcastByUids, getRoomByRoomId
<1>5. ASSUME pc'[p] \notin Watched PROVE LifeQuiet(p, r)
  BY <1>2, <1>3, <1>5, RetireQuiet
<1>w. \A l \in {"create_setrid", "create_store", "create_init", "close_exit"} : l \notin Watched
  BY DEF Watched, Drives, BetPcs, DealPcs, EndedPcs, ClosedPcs, ReadyPcs
<1>6. CASE createRoom_refuse(p) \/ createRoom_return(p) \/ closeRoom_exit(p)
  <2>1. Finish(p)
    BY <1>6 DEF createRoom_refuse, createRoom_return, closeRoom_exit
  <2> QED
    BY <1>5, <2>1, EndsUnwatched
<1>7. CASE createRoom_allocate(p) \/ createRoom_setRid(p) \/ createRoom_store(p)
  <2>1. pc'[p] \in {"create_setrid", "create_store", "create_init"}
    BY <1>t, <1>7 DEF createRoom_allocate, createRoom_setRid, createRoom_store, Goto
  <2> QED
    BY <1>5, <1>w, <2>1
\* The steps that go on.
<1>9. ASSUME loc'[p].rid = loc[p].rid, loc'[p].idx = loc[p].idx, loc'[p].n = loc[p].n,
             pc[p] \in {"ready_bcast", "bet_bcast", "deal_bcast", "deal_bcast2", "ended_bcast",
                        "closed_bcast", "push_seat", "push_watch", "ready_room"},
             pc'[p] = [ready_bcast |-> "ready_mark", bet_bcast |-> "bet_arm",
                       deal_bcast |-> "deal_cards", deal_bcast2 |-> "deal_arm",
                       ended_bcast |-> "ended_next", closed_bcast |-> "closed_close",
                       push_seat |-> "push_watch", push_watch |-> "bet_init",
                       ready_room |-> "ready_full"][pc[p]]
      PROVE  LifeQuiet(p, r)
  <2>1. pc'[p] \in Drives => /\ pc[p] \in Drives /\ Stage[pc'[p]] = Stage[pc[p]]
                             /\ pc'[p] \in NextPcs => pc[p] \in NextPcs
    BY <1>9 DEF Drives, BetPcs, DealPcs, EndedPcs, ClosedPcs, Stage, NextPcs
  <2>2. Filled(p, r)' => Filled(p, r)
    BY <1>2, <1>9 DEF Filled, Latest
  <2> QED
    BY <1>2, <1>3, <1>9, <2>1, <2>2, ProceedQuiet
<1>10. CASE closeRoom_delete(p)
  <2>1. Abort(p) \/ pc'[p] = "close_exit"
    BY <1>t, <1>10 DEF closeRoom_delete
  <2> QED
    BY <1>5, <1>w, <2>1, EndsUnwatched
<1>11. CASE broadcastRoom(p)
  <2>1. pc[p] \in DOMAIN AfterBroadcast
    BY <1>11 DEF broadcastRoom
  <2>2. CASE Abort(p) \/ pc[p] = "betmsg_bcast"
    <3>1. pc[p] = "betmsg_bcast" => Abort(p) \/ Goto(p, "act_end")
      BY <1>11 DEF broadcastRoom, AfterBroadcast
    <3> QED
      BY <1>5, <2>2, <3>1, EndsUnwatched
  <2>3. CASE ~Abort(p) /\ pc[p] # "betmsg_bcast"
    <3>1. loc' = loc /\ pc'[p] = AfterBroadcast[pc[p]]
      BY <1>t, <1>11, <2>3 DEF broadcastRoom, Goto
    <3> QED
      BY <1>9, <2>1, <2>3, <3>1 DEF AfterBroadcast
  <2> QED
    BY <2>2, <2>3
<1>12. CASE broadcastByUid(p) \/ broadcastByUids(p)
  <2>1. pc[p] \in {"push_seat", "push_one", "push_watch"}
    BY <1>12 DEF broadcastByUid, broadcastByUids
  <2>2. \/ Abort(p) \/ Goto(p, "act_end")
        \/ pc[p] = "push_seat" /\ Goto(p, "push_watch")
        \/ pc[p] = "push_watch" /\ Goto(p, "bet_init")
    BY <1>12 DEF broadcastByUid, broadcastByUids
  <2>3. CASE Abort(p) \/ Goto(p, "act_end")
    BY <1>5, <2>3, EndsUnwatched
  <2>4. CASE pc[p] = "push_seat" /\ Goto(p, "push_watch")
    BY <1>t, <1>9, <2>1, <2>4 DEF Goto
  <2>5. CASE pc[p] = "push_watch" /\ Goto(p, "bet_init")
    BY <1>t, <1>9, <2>1, <2>5 DEF Goto
  <2> QED
    BY <2>2, <2>3, <2>4, <2>5
<1>13. CASE getRoomByRoomId(p)
  <2>1. CASE pc[p] = "ready_room"
    <3>1. loc' = loc /\ pc'[p] = "ready_full"
      BY <1>t, <1>13, <2>1 DEF getRoomByRoomId, Goto
    <3> QED
      BY <1>9, <2>1, <3>1
  <2>2. CASE pc[p] = "next_room" /\ rooms[loc[p].rid] = NoRoom
    <3>1. Finish(p)
      BY <1>13, <2>2 DEF getRoomByRoomId
    <3> QED
      BY <1>5, <3>1, EndsUnwatched
  <2>3. CASE pc[p] = "next_room" /\ rooms[loc[p].rid] # NoRoom
    <3>1. /\ pc'[p] = "next_close"
          /\ loc'[p] = [loc[p] EXCEPT !.uid = rooms[loc[p].rid].seat]
      BY <1>t, <1>13, <2>3 DEF getRoomByRoomId
    <3>2. loc'[p].rid = loc[p].rid /\ loc'[p].idx = loc[p].idx /\ loc'[p].n = loc[p].n
      BY <1>t, <3>1 DEF Locals
    <3>3. Stage[pc'[p]] = Stage[pc[p]] /\ pc[p] \in Drives /\ pc[p] \in NextPcs
      BY <2>3, <3>1 DEF Stage, Drives, EndedPcs, BetPcs, DealPcs, NextPcs
    <3>4. ~Filled(p, r)'
      BY <3>1 DEF Filled
    <3> QED
      BY <1>2, <1>3, <3>2, <3>3, <3>4, ProceedQuiet
  <2> QED
    BY <1>13, <2>1, <2>2, <2>3 DEF getRoomByRoomId
<1> QED
  BY <1>6, <1>7, <1>10, <1>11, <1>12, <1>13 DEF HallStep

LEMMA GameQuiet ==
    ASSUME TypeInv, NEW p \in Procs, NEW r \in Rids, GameStep(p),
           \/ loc[p].rid # r
           \/ gameAction_refuse(p) \/ gameAction_ready(p) \/ gameAction_bet(p)
           \/ READY_full(p) \/ gameAction_end(p) \/ DEAL_cards(p) \/ CLOSED_close(p)
    PROVE  LifeQuiet(p, r)
<1> USE DEF gameVars
<1>t. /\ pc \in [Procs -> PCs] /\ loc \in [Procs -> Locals] /\ rounds \in [Rids -> Seq(Round)]
      /\ ready \in [Rids -> Nat] /\ r # NoRid
  BY DEF TypeInv, TypeOK, Rids, NoRid
<1>3. CASE gameAction_refuse(p) \/ gameAction_end(p) \/ gameAction_bet(p)
  <2>1. \/ Goto(p, "act_end") \/ Finish(p) \/ pc' = [pc EXCEPT ![p] = "betmsg_bcast"]
    BY <1>3 DEF gameAction_refuse, gameAction_end, gameAction_bet
  <2>2. pc'[p] \notin Watched
    <3>1. CASE pc' = [pc EXCEPT ![p] = "betmsg_bcast"]
      BY <1>t, <3>1
         DEF Watched, Drives, BetPcs, DealPcs, EndedPcs, ClosedPcs, ReadyPcs
    <3> QED
      BY <2>1, <3>1, EndsUnwatched
  <2>3. UNCHANGED <<rounds, ready, armed>> /\ pc[p] # "next_init"
    BY <1>3 DEF gameAction_refuse, gameAction_end, gameAction_bet
  <2> QED
    BY <2>2, <2>3, RetireQuiet
<1>4. CASE gameAction_ready(p)
  <2>1. pc[p] = "action_ready" /\ pc'[p] = "ready_bcast" /\ UNCHANGED <<rounds, ready, armed>>
    BY <1>t, <1>4 DEF gameAction_ready
  <2>2. ~Driver(p, r)' /\ ~Filled(p, r)'
    BY <2>1 DEF Driver, Filled, Drives, BetPcs, DealPcs, EndedPcs, ClosedPcs
  <2> QED
    BY <2>1, <2>2 DEF LifeQuiet
<1>5. CASE READY_full(p)
  <2> DEFINE r0 == loc[p].rid
             v == [loc[p] EXCEPT !.idx = Latest(r0), !.uid = rounds[r0][Latest(r0)].seat]
  <2>1. pc[p] = "ready_full" /\ UNCHANGED <<rounds, ready, armed>>
    BY <1>5 DEF READY_full
  <2>2. \/ Goto(p, "act_end") \/ Goto(p, "push_one")
        \/ Moves(p, "push_seat", v) /\ loc[p].n = DeskPlayers /\ Latest(r0) # 0
    BY <1>t, <1>5 DEF READY_full, Moves
  <2>3. CASE Goto(p, "act_end") \/ Goto(p, "push_one")
    <3>1. pc'[p] \notin Watched
      BY <1>t, <2>3
         DEF Goto, Watched, Drives, BetPcs, DealPcs, EndedPcs, ClosedPcs, ReadyPcs
    <3> QED
      BY <2>1, <3>1, RetireQuiet
  <2>4. CASE Moves(p, "push_seat", v) /\ loc[p].n = DeskPlayers /\ Latest(r0) # 0
    <3>1. pc'[p] = "push_seat" /\ loc'[p] = v
      BY <1>t, <2>4 DEF Moves
    <3>2. loc'[p].rid = r0
      BY <1>t, <3>1 DEF Locals
    <3>3. Filled(p, r)' => Filled(p, r)
      BY <2>1, <2>4, <3>2 DEF Filled
    <3>4. pc'[p] \notin Drives
      BY <3>1 DEF Drives, BetPcs, DealPcs, EndedPcs, ClosedPcs
    <3> QED
      BY <2>1, <3>2, <3>3, <3>4, ProceedQuiet
  <2> QED
    BY <2>2, <2>3, <2>4
<1>6. CASE DEAL_cards(p) \/ CLOSED_close(p)
  <2>1. /\ loc' = loc /\ UNCHANGED <<rounds, ready>>
        /\ \/ pc[p] = "deal_cards" /\ pc'[p] = "deal_bcast2"
           \/ pc[p] = "closed_close" /\ pc'[p] = "close_room"
        /\ \A t \in armed' : t \in armed
    BY <1>t, <1>6 DEF DEAL_cards, CLOSED_close, Goto, close_timeout
  <2>2. /\ pc[p] \in Drives /\ Stage[pc'[p]] = Stage[pc[p]]
        /\ pc'[p] \notin NextPcs
    BY <2>1 DEF Drives, BetPcs, DealPcs, EndedPcs, ClosedPcs, Stage, NextPcs
  <2>3. ~Filled(p, r)'
    BY <2>1 DEF Filled
  <2> QED
    BY <2>1, <2>2, <2>3, ProceedQuiet
\* The steps that work on another room than r.
<1>7. CASE /\ loc[p].rid # r
           /\ \/ initByRoom(p) \/ closeRound(p) \/ initByRound(p) \/ READY_mark(p)
              \/ BET_init(p) \/ BET_arm(p) \/ DEAL_arm(p) \/ ENDED_next(p)
  <2>1. rounds'[r] = rounds[r] /\ ready'[r] = ready[r]
    BY <1>t, <1>7
       DEF initByRoom, closeRound, initByRound, READY_mark, BET_init, BET_arm, DEAL_arm,
           ENDED_next, change_status
  <2>2. \A t \in armed' : t.rid = r => t \in armed
    BY <1>7
       DEF initByRoom, closeRound, initByRound, READY_mark, BET_init, BET_arm, DEAL_arm,
           ENDED_next, close_timeout, create_timeout
  <2>3. ASSUME Finish(p) \/ Abort(p) \/ \E l : Goto(p, l)
        PROVE  loc'[p].rid \in {loc[p].rid, NoRid}
    BY <1>t, <2>3 DEF Finish, Abort, Goto, NoLocals
  <2>4. loc'[p].rid \in {loc[p].rid, NoRid}
    <3>1. CASE READY_mark(p)
      BY <1>t, <2>3, <3>1 DEF READY_mark, Locals
    <3>2. CASE ~READY_mark(p)
      <4>1. Finish(p) \/ \E l : Goto(p, l)
        BY <1>7, <3>2
           DEF initByRoom, closeRound, initByRound, BET_init, BET_arm, DEAL_arm, ENDED_next
      <4> QED
        BY <2>3, <4>1
    <3> QED
      BY <3>1, <3>2
  <2> QED
    BY <1>t, <1>7, <2>1, <2>2, <2>4, RetireQuiet
<1> QED
  BY <1>3, <1>4, <1>5, <1>6, <1>7 DEF GameStep

-----------------------------------------------------------------------------
(* The steps that change the state of the room. *)

LEMMA StatusType ==
    ASSUME TypeInv, NEW r \in Rids
    PROVE  /\ Latest(r) \in Nat /\ StatusOf(r) \in Statuses \cup {"none"}
           /\ StatusOf(r) = "none" <=> Latest(r) = 0
<1>1. rounds[r] \in Seq(Round)
  BY DEF TypeInv, TypeOK
<1>2. PICK n \in Nat : n = Len(rounds[r]) /\ rounds[r] \in [1 .. n -> Round]
  BY <1>1, LenProperties
<1>3. n # 0 => rounds[r][n].status \in Statuses
  BY <1>2 DEF Round
<1> QED
  BY <1>2, <1>3 DEF StatusOf, Latest, Statuses

LEMMA StatusChanged ==
    ASSUME TypeInv, NEW r \in Rids, Latest(r) # 0, NEW st,
           rounds' = change_status(r, Latest(r), st)
    PROVE  Latest(r)' = Latest(r) /\ StatusOf(r)' = st
<1>1. rounds \in [Rids -> Seq(Round)]
  BY DEF TypeInv, TypeOK
<1>2. PICK n \in Nat : n = Len(rounds[r]) /\ rounds[r] \in [1 .. n -> Round]
  BY <1>1, LenProperties
<1>3. Latest(r)' = Latest(r)
  BY <1>1, ChangeStatusKeeps
<1>4. rounds'[r] = [rounds[r] EXCEPT ![n] = InStatus(@, st)]
  BY <1>1, <1>2 DEF change_status, Latest
<1>5. rounds'[r][n].status = st
  BY <1>2, <1>4 DEF Round, Latest, InStatus
<1> QED
  BY <1>2, <1>3, <1>5 DEF StatusOf, Latest

Undriven(r) == \A p \in Procs : ~Driver(p, r)

\* What is left to show of a room that nobody drives.
LEMMA UndrivenLife ==
    ASSUME NEW r \in Rids, Undriven(r)',
           TimerMatches(r)', FilledWaits(r)', StartedIsFull(r)', Latest(r)' <= MaxRound,
           \A t \in armed' : t.rid = r /\ t.kind = "ENDED" => t.idx < MaxRound
    PROVE  RoomLife(r)'
<1>1. \A p \in Procs : loc'[p].rid = r => pc'[p] \notin Drives
  BY DEF Undriven, Driver
<1>2. DriverMatches(r)' /\ OneDriver(r)'
  BY <1>1 DEF DriverMatches, OneDriver, Driver
<1>3. RoundsLeft(r)'
  BY <1>1 DEF RoundsLeft, Drives, EndedPcs, NextPcs
<1> QED
  BY <1>2, <1>3 DEF RoomLife

\* A room that something drives, but not from closeRound to initByRound: nobody has
\* filled the desk.
LEMMA NobodyFilled ==
    ASSUME TypeInv, NEW r \in Rids, RoomLife(r),
           \/ \E p \in Procs : Driver(p, r) /\ pc[p] # "next_init"
           \/ \E t \in armed : t.rid = r
    PROVE  ~Restarting(r) /\ \A p \in Procs : ~Filled(p, r)
<1>1. \A p \in Procs : pc[p] = "next_init" /\ loc[p].rid = r => Driver(p, r)
  BY DEF Driver, Drives, EndedPcs
<1>2. ~Restarting(r)
  BY <1>1 DEF RoomLife, OneDriver, Restarting
<1>3. StatusOf(r) # "WAIT"
  <2>1. \A p \in Procs : Driver(p, r) => Stage[pc[p]] # "WAIT"
    BY DEF Driver, Stage
  <2>2. \A t \in armed : t.kind # "WAIT"
    BY DEF TypeInv, TypeOK, Timer
  <2> QED
    BY <2>1, <2>2 DEF RoomLife, DriverMatches, TimerMatches
<1> QED
  BY <1>2, <1>3 DEF RoomLife, FilledWaits

\* A driver starts a countdown and is done.
LEMMA ArmLife ==
    ASSUME TypeInv, NEW p \in Procs, NEW r \in Rids, RoomLife(r), Driver(p, r),
           NEW kind, Stage[pc[p]] = kind, kind \in {"BET", "DEAL", "ENDED"},
           kind = "ENDED" => loc[p].idx < MaxRound,
           \A q \in Procs \ {p} : pc'[q] = pc[q] /\ loc'[q] = loc[q],
           pc'[p] \notin Watched, pc[p] # "next_init",
           armed' = create_timeout(r, loc[p].idx, kind),
           UNCHANGED <<rounds, ready>>
    PROVE  RoomLife(r)'
<1>1. Latest(r)' = Latest(r) /\ StatusOf(r)' = StatusOf(r)
  BY DEF StatusOf, Latest
<1>2. loc[p].idx = Latest(r) /\ StatusOf(r) = kind
  BY DEF RoomLife, DriverMatches
<1>3. \A t \in armed' : t.rid = r => t.idx = Latest(r) /\ t.kind = kind
  BY <1>2 DEF RoomLife, OneDriver, create_timeout
<1>4. Undriven(r)'
  BY DEF Undriven, RoomLife, OneDriver, Driver, Watched
<1>5. FilledWaits(r)'
  <2>1. \A q \in Procs : Filled(q, r)' => Filled(q, r)
    BY <1>1 DEF Filled, Watched, ReadyPcs
  <2> QED
    BY <2>1, NobodyFilled DEF FilledWaits
<1>6. StartedIsFull(r)'
  BY <1>1 DEF RoomLife, StartedIsFull, Restarting
<1>7. Latest(r) <= MaxRound
  BY DEF RoomLife, RoundsLeft
<1>8. TimerMatches(r)'
  BY <1>1, <1>2, <1>3 DEF TimerMatches
<1> QED
  BY <1>1, <1>2, <1>3, <1>4, <1>5, <1>6, <1>7, <1>8, UndrivenLife

\* What becomes of a room, as RoundLifecycle says.
OpensRound(r) ==
    /\ Latest(r) < MaxRound
    /\ Latest(r) = 0 \/ StatusOf(r) = "ENDED"
    /\ Latest(r)' = Latest(r) + 1 /\ StatusOf(r)' = "WAIT"

Advances(r, from, to) ==
    StatusOf(r) = from /\ StatusOf(r)' = to /\ Latest(r)' = Latest(r)

\* The first round of the room: nobody works on it yet.
LEMMA FirstRoundLife ==
    ASSUME TypeInv, TurnInv, FreshInv, NEW p \in Procs, initByRoom(p),
           NEW r \in Rids, loc[p].rid = r, RoomLife(r)
    PROVE  RoomLife(r)' /\ OpensRound(r)
<1> USE DEF gameVars
<1>t. pc \in [Procs -> PCs] /\ rounds \in [Rids -> Seq(Round)] /\ MaxRound \in Nat \ {0}
  BY TableAssumption DEF TypeInv, TypeOK
<1>1. \A q \in Procs \ {p} : pc'[q] = pc[q] /\ loc'[q] = loc[q]
  BY GameTurn DEF TurnKept, GameStep
<1>2. pc[p] = "create_init" /\ pc'[p] = "create_done" /\ armed' = armed
  BY <1>t DEF initByRoom, Goto
<1>3. /\ rounds[r] = <<>>
      /\ \A q \in Procs \ {p} : loc[q].rid = r => pc[q] \in Waiting
      /\ \A t \in armed : t.rid # r
  BY <1>2 DEF FreshInv, NewRoomQuiet, NewRoomMade, InCreate
<1>4. rounds'[r] = <<NewRound(loc[p].uid)>>
  BY <1>t, <1>3 DEF initByRoom
<1>5. Latest(r)' = 1 /\ StatusOf(r)' = "WAIT"
  BY <1>4 DEF StatusOf, Latest, NewRound
<1>6. \A q \in Procs : loc'[q].rid = r => pc'[q] \in Waiting \cup {"create_done"}
  BY <1>1, <1>2, <1>3
<1>7. Undriven(r)' /\ FilledWaits(r)'
  BY <1>6 DEF Undriven, Driver, FilledWaits, Filled, Waiting, Drives, BetPcs, DealPcs,
              EndedPcs, ClosedPcs
<1>8. StartedIsFull(r)' /\ TimerMatches(r)'
  BY <1>2, <1>3, <1>5 DEF StartedIsFull, TimerMatches
<1>9. OpensRound(r)
  BY <1>t, <1>3, <1>5 DEF OpensRound, Latest
<1>10. RoomLife(r)'
  BY <1>t, <1>2, <1>3, <1>5, <1>7, <1>8, UndrivenLife
<1> QED
  BY <1>9, <1>10

\* The players are no longer counted.
LEMMA CloseRoundLife ==
    ASSUME TypeInv, TurnInv, NEW p \in Procs, closeRound(p),
           NEW r \in Rids, loc[p].rid = r, RoomLife(r)
    PROVE  RoomLife(r)'
<1>t. pc \in [Procs -> PCs] /\ loc \in [Procs -> Locals] /\ ready \in [Rids -> Nat]
  BY DEF TypeInv, TypeOK
<1>1. \A q \in Procs \ {p} : pc'[q] = pc[q] /\ loc'[q] = loc[q]
  BY GameTurn DEF TurnKept, GameStep
<1>2. /\ pc[p] = "next_close" /\ pc'[p] = "next_init" /\ loc' = loc /\ Serving("game", p)
      /\ \A t \in armed' : t \in armed
      /\ UNCHANGED <<players, rounds>>
  BY <1>t DEF closeRound, Goto, close_timeout
<1>3. Latest(r)' = Latest(r) /\ StatusOf(r)' = StatusOf(r)
  BY <1>2 DEF StatusOf, Latest
<1>4. Driver(p, r) /\ StatusOf(r) = "ENDED" /\ loc[p].idx = Latest(r)
  BY <1>2 DEF RoomLife, DriverMatches, Driver, Drives, BetPcs, DealPcs, EndedPcs, Stage
<1>5. \A q \in Procs : Driver(q, r)' => q = p
  BY <1>1, <1>4 DEF RoomLife, OneDriver, Driver
<1>6. \A q \in Procs : ~Filled(q, r)'
  <2>1. \A q \in Procs : ~Filled(q, r)
    BY <1>2, <1>4, NobodyFilled
  <2> QED
    BY <1>1, <1>2, <1>3, <2>1 DEF Filled
<1>8. DriverMatches(r)'
  <2>1. Stage[pc'[p]] = "ENDED"
    BY <1>2 DEF Drives, BetPcs, DealPcs, EndedPcs, Stage
  <2> QED
    BY <1>2, <1>3, <1>4, <1>5, <2>1 DEF DriverMatches
<1>9. TimerMatches(r)' /\ OneDriver(r)' /\ FilledWaits(r)'
  BY <1>2, <1>3, <1>4, <1>5, <1>6 DEF RoomLife, TimerMatches, OneDriver, FilledWaits
<1>10. StartedIsFull(r)'
  BY <1>2 DEF StartedIsFull, Restarting
<1>11. RoundsLeft(r)'
  <2>1. \A q \in Procs : pc'[q] \in NextPcs /\ loc'[q].rid = r => q = p
    BY <1>5 DEF Driver, NextPcs, Drives, EndedPcs
  <2>2. loc[p].idx < MaxRound
    BY <1>2 DEF RoomLife, RoundsLeft, NextPcs
  <2> QED
    BY <1>2, <1>3, <2>1, <2>2 DEF RoomLife, RoundsLeft
<1> QED
  BY <1>8, <1>9, <1>10, <1>11 DEF RoomLife

\* While the game service serves p, no other coroutine is past the start of gameAction.
LEMMA AloneInGame ==
    ASSUME TurnInv, NEW p \in Procs, Serving("game", p), NEW q \in Procs \ {p}
    PROVE  pc[q] \notin ReadyPcs \cup {"push_seat", "push_watch", "bet_init"}
BY DEF TurnInv, GameExclusive, InGame, ActionPcs, Serving, ReadyPcs

\* One more round.
LEMMA NextRoundLife ==
    ASSUME TypeInv, TurnInv, NEW p \in Procs, initByRound(p),
           NEW r \in Rids, loc[p].rid = r, RoomLife(r)
    PROVE  RoomLife(r)' /\ OpensRound(r)
<1>t. /\ pc \in [Procs -> PCs] /\ loc \in [Procs -> Locals] /\ rounds \in [Rids -> Seq(Round)]
      /\ MaxRound \in Nat
  BY TableAssumption DEF TypeInv, TypeOK
<1>1. \A q \in Procs \ {p} : pc'[q] = pc[q] /\ loc'[q] = loc[q]
  BY GameTurn DEF TurnKept, GameStep
<1>2. /\ pc[p] = "next_init" /\ pc'[p] = "idle" /\ armed' = armed /\ Serving("game", p)
      /\ rounds'[r] = Append(rounds[r], NewRound(loc[p].uid))
  BY <1>t DEF initByRound, Finish
<1>3. PICK n \in Nat : n = Len(rounds[r])
  BY <1>t
<1>4. Len(rounds'[r]) = n + 1 /\ rounds'[r][n + 1] = NewRound(loc[p].uid)
  <2>1. Append(rounds[r], NewRound(loc[p].uid))[n + 1] = NewRound(loc[p].uid)
    BY <1>t, <1>3
  <2>2. Len(Append(rounds[r], NewRound(loc[p].uid))) = n + 1
    BY <1>t, <1>3
  <2> QED
    BY <1>2, <2>1, <2>2
<1>5. Latest(r)' = n + 1 /\ StatusOf(r)' = "WAIT" /\ Latest(r) = n
  BY <1>3, <1>4 DEF StatusOf, Latest, NewRound
<1>6. Driver(p, r) /\ StatusOf(r) = "ENDED" /\ loc[p].idx = n
  BY <1>2, <1>5 DEF RoomLife, DriverMatches, Driver, Drives, BetPcs, DealPcs, EndedPcs, Stage
<1>7. n + 1 <= MaxRound
  <2>1. loc[p].idx < MaxRound
    BY <1>2 DEF RoomLife, RoundsLeft, NextPcs
  <2> QED
    BY <1>t, <1>6, <2>1
<1>8. Undriven(r)'
  BY <1>1, <1>2, <1>6
     DEF RoomLife, OneDriver, Undriven, Driver, Drives, BetPcs, DealPcs, EndedPcs, ClosedPcs
<1>9. \A t \in armed' : t.rid # r
  BY <1>2, <1>6 DEF RoomLife, OneDriver
\* Nobody else is in gameAction.
<1>10. FilledWaits(r)'
  <2>1. \A q \in Procs : ~Filled(q, r)'
    BY <1>1, <1>2, AloneInGame DEF Filled, ReadyPcs
  <2> QED
    BY <2>1 DEF FilledWaits
<1>11. TimerMatches(r)' /\ StartedIsFull(r)'
  BY <1>5, <1>9 DEF TimerMatches, StartedIsFull
<1>12. OpensRound(r)
  BY <1>t, <1>5, <1>6, <1>7 DEF OpensRound
<1>13. RoomLife(r)'
  BY <1>5, <1>7, <1>8, <1>9, <1>10, <1>11, UndrivenLife
<1> QED
  BY <1>12, <1>13

\* The desk fills up in status WAIT, or before initByRound.
LEMMA ReadyLife ==
    ASSUME TypeInv, TurnInv, NEW p \in Procs, READY_mark(p),
           NEW r \in Rids, loc[p].rid = r, RoomLife(r)
    PROVE  RoomLife(r)'
<1>t. /\ pc \in [Procs -> PCs] /\ loc \in [Procs -> Locals] /\ ready \in [Rids -> Nat]
      /\ DeskPlayers \in Nat \ {0} /\ r # NoRid
  BY TableAssumption DEF TypeInv, TypeOK, Rids, NoRid
<1>1. \A q \in Procs \ {p} : pc'[q] = pc[q] /\ loc'[q] = loc[q]
  BY GameTurn DEF TurnKept, GameStep
<1>2. /\ pc[p] = "ready_mark" /\ pc'[p] = "ready_room"
      /\ loc'[p] = [loc[p] EXCEPT !.n = CountReady(r)]
      /\ ready'[r] = CountReady(r)
      /\ UNCHANGED <<players, rounds, armed>>
  BY <1>t DEF READY_mark
<1>3. loc'[p].n = CountReady(r) /\ loc'[p].rid = r
  BY <1>t, <1>2 DEF Locals
<1>4. Latest(r)' = Latest(r) /\ StatusOf(r)' = StatusOf(r)
  BY <1>2 DEF StatusOf, Latest
<1>5. ready'[r] >= ready[r] /\ (ready'[r] = DeskPlayers => ready[r] < DeskPlayers)
  BY <1>t, <1>2 DEF CountReady
<1>6. \A q \in Procs : Driver(q, r)' => q # p /\ Driver(q, r)
  BY <1>1, <1>2 DEF Driver, Drives, BetPcs, DealPcs, EndedPcs, ClosedPcs
<1>7. DriverMatches(r)' /\ TimerMatches(r)' /\ OneDriver(r)' /\ RoundsLeft(r)'
  <2>1. DriverMatches(r)' /\ TimerMatches(r)' /\ OneDriver(r)'
    BY <1>1, <1>2, <1>4, <1>6 DEF RoomLife, DriverMatches, TimerMatches, OneDriver
  <2>2. \A q \in Procs : pc'[q] \in NextPcs => q # p
    BY <1>2 DEF NextPcs
  <2> QED
    BY <1>1, <1>2, <1>4, <2>1, <2>2 DEF RoomLife, RoundsLeft
<1>8. Restarting(r) => Restarting(r)'
  BY <1>1, <1>2 DEF Restarting
<1>9. ready[r] \in Nat /\ ready'[r] \in Nat
  BY <1>t, <1>2 DEF CountReady
<1>10. StartedIsFull(r)'
  BY <1>t, <1>4, <1>5, <1>8, <1>9 DEF RoomLife, StartedIsFull
<1>11. FilledWaits(r)'
  <2> SUFFICES ASSUME NEW q \in Procs, Filled(q, r)'
               PROVE  ready'[r] >= DeskPlayers /\ (StatusOf(r) = "WAIT" \/ Restarting(r))
    BY <1>4, <1>8 DEF FilledWaits
  <2>1. CASE q = p
    <3>1. ready'[r] = DeskPlayers /\ Latest(r) # 0
      BY <1>2, <1>3, <1>4, <2>1 DEF Filled
    <3>2. ready[r] < DeskPlayers
      BY <1>5, <3>1
    <3>3. StatusOf(r) \in {"none", "WAIT"} \/ Restarting(r)
      BY <1>t, <1>9, <3>2 DEF RoomLife, StartedIsFull
    <3> QED
      BY <1>t, <3>1, <3>3, StatusType
  <2>2. CASE q # p
    <3>1. Filled(q, r)
      BY <1>1, <1>4, <2>2 DEF Filled
    <3> QED
      BY <1>t, <1>5, <1>9, <3>1 DEF RoomLife, FilledWaits
  <2> QED
    BY <2>1, <2>2
<1> QED
  BY <1>7, <1>10, <1>11 DEF RoomLife

\* The bets start: the coroutine that filled the desk drives the room from here.
LEMMA BetLife ==
    ASSUME TypeInv, TurnInv, RoundInv, NEW p \in Procs, BET_init(p),
           NEW r \in Rids, loc[p].rid = r, RoomLife(r), StatusOf(r) = "WAIT"
    PROVE  RoomLife(r)' /\ Advances(r, "WAIT", "BET")
<1>t. pc \in [Procs -> PCs]
  BY DEF TypeInv, TypeOK
<1>1. \A q \in Procs \ {p} : pc'[q] = pc[q] /\ loc'[q] = loc[q]
  BY GameTurn DEF TurnKept, GameStep
<1>2. /\ pc[p] = "bet_init" /\ pc'[p] = "bet_bcast" /\ loc' = loc
      /\ rounds' = change_status(r, loc[p].idx, "BET")
      /\ UNCHANGED <<ready, armed>>
  BY <1>t DEF BET_init, Goto
<1>3. StatusOf(r) = "WAIT" /\ ready[r] >= DeskPlayers
  BY <1>2 DEF RoomLife, FilledWaits, Filled
<1>4. loc[p].idx = Latest(r)
  BY <1>2 DEF RoundInv, StartedRoundIsLatest
<1>5. Latest(r)' = Latest(r) /\ StatusOf(r)' = "BET"
  <2>1. Latest(r) # 0
    BY <1>3, StatusType
  <2> QED
    BY <1>2, <1>4, <2>1, StatusChanged
<1>6. \A q \in Procs : ~Driver(q, r)
  BY <1>3 DEF RoomLife, DriverMatches, Driver, Stage
<1>7. \A t \in armed : t.rid # r
  BY <1>3 DEF RoomLife, TimerMatches, TypeInv, TypeOK, Timer
<1>8. \A q \in Procs : Driver(q, r)' => q = p
  BY <1>1, <1>6 DEF Driver
<1>9. DriverMatches(r)' /\ TimerMatches(r)' /\ OneDriver(r)'
  <2>1. Stage[pc'[p]] = "BET"
    BY <1>2 DEF Drives, BetPcs, Stage
  <2> QED
    BY <1>2, <1>4, <1>5, <1>7, <1>8, <2>1 DEF DriverMatches, TimerMatches, OneDriver
\* Nobody else is in gameAction.
<1>10. FilledWaits(r)'
  <2>1. Serving("game", p)
    BY <1>2 DEF TurnInv, GameExclusive, InGame, ActionPcs
  <2>2. \A q \in Procs : ~Filled(q, r)'
    BY <1>1, <1>2, <2>1, AloneInGame DEF Filled, ReadyPcs
  <2> QED
    BY <2>2 DEF FilledWaits
<1>11. StartedIsFull(r)'
  BY <1>2, <1>3 DEF StartedIsFull
<1>12. RoundsLeft(r)'
  <2>1. \A q \in Procs : loc'[q].rid = r => pc'[q] \notin NextPcs
    BY <1>2, <1>8 DEF Driver, NextPcs, Drives, EndedPcs
  <2>2. Latest(r) <= MaxRound
    BY DEF RoomLife, RoundsLeft
  <2> QED
    BY <1>2, <1>5, <1>7, <2>1, <2>2 DEF RoundsLeft, NextPcs
<1> QED
  BY <1>3, <1>5, <1>9, <1>10, <1>11, <1>12 DEF RoomLife, Advances

\* The last round is closed.
LEMMA CloseLife ==
    ASSUME TypeInv, TurnInv, NEW p \in Procs, ENDED_next(p), IsLastRound(loc[p].idx),
           NEW r \in Rids, loc[p].rid = r, RoomLife(r)
    PROVE  RoomLife(r)' /\ Advances(r, "ENDED", "CLOSED") /\ Latest(r) = MaxRound
<1>t. pc \in [Procs -> PCs] /\ MaxRound \in Nat
  BY TableAssumption DEF TypeInv, TypeOK
<1>1. \A q \in Procs \ {p} : pc'[q] = pc[q] /\ loc'[q] = loc[q]
  BY GameTurn DEF TurnKept, GameStep
<1>2. /\ pc[p] = "ended_next" /\ pc'[p] = "closed_bcast" /\ loc' = loc
      /\ rounds' = change_status(r, loc[p].idx, "CLOSED")
      /\ UNCHANGED <<ready, armed>>
  BY <1>t DEF ENDED_next, Goto
<1>3. Driver(p, r) /\ StatusOf(r) = "ENDED" /\ loc[p].idx = Latest(r)
  BY <1>2 DEF RoomLife, DriverMatches, Driver, Drives, BetPcs, DealPcs, EndedPcs, Stage
<1>4. Latest(r)' = Latest(r) /\ StatusOf(r)' = "CLOSED"
  <2>1. Latest(r) # 0
    BY <1>3, StatusType
  <2> QED
    BY <1>2, <1>3, <2>1, StatusChanged
<1>5. Latest(r) = MaxRound
  <2>1. Latest(r) \in Nat /\ Latest(r) >= MaxRound /\ Latest(r) <= MaxRound
    BY <1>3, StatusType DEF IsLastRound, RoomLife, RoundsLeft
  <2> QED
    BY <1>t, <2>1
<1>6. \A q \in Procs : Driver(q, r)' => q = p
  BY <1>1, <1>3 DEF RoomLife, OneDriver, Driver
<1>7. \A t \in armed' : t.rid # r
  BY <1>2, <1>3 DEF RoomLife, OneDriver
<1>8. DriverMatches(r)' /\ TimerMatches(r)' /\ OneDriver(r)'
  <2>1. Stage[pc'[p]] = "CLOSED"
    BY <1>2 DEF Drives, BetPcs, DealPcs, EndedPcs, ClosedPcs, Stage
  <2> QED
    BY <1>2, <1>3, <1>4, <1>6, <1>7, <2>1 DEF DriverMatches, TimerMatches, OneDriver
<1>9. FilledWaits(r)'
  <2>1. \A q \in Procs : Filled(q, r)' => Filled(q, r)
    BY <1>1, <1>2, <1>4 DEF Filled
  <2> QED
    BY <1>2, <1>3, <2>1, NobodyFilled DEF FilledWaits
<1>10. StartedIsFull(r)'
  <2>1. ready[r] >= DeskPlayers
    <3>1. ~Restarting(r)
      BY <1>2, <1>3
         DEF Restarting, RoomLife, OneDriver, Driver, Drives, BetPcs, DealPcs, EndedPcs
    <3> QED
      BY <1>3, <3>1 DEF RoomLife, StartedIsFull
  <2> QED
    BY <1>2, <2>1 DEF StartedIsFull
<1>11. RoundsLeft(r)'
  <2>1. \A q \in Procs : loc'[q].rid = r => pc'[q] \notin NextPcs
    BY <1>2, <1>6 DEF Driver, NextPcs, Drives, EndedPcs
  <2>2. Latest(r) <= MaxRound
    BY DEF RoomLife, RoundsLeft
  <2> QED
    BY <1>4, <1>7, <2>1, <2>2 DEF RoundsLeft, NextPcs
<1> QED
  BY <1>3, <1>4, <1>5, <1>8, <1>9, <1>10, <1>11 DEF RoomLife, Advances

\* A countdown expires: its callback drives the room from here.
LEMMA FireLife ==
    ASSUME TypeInv, TurnInv, NEW p \in Timers, NEW t \in armed, fire(p, t),
           NEW r \in Rids, t.rid = r, RoomLife(r)
    PROVE  /\ RoomLife(r)'
           /\ \/ Advances(r, "BET", "DEAL") \/ Advances(r, "DEAL", "ENDED")
              \/ Advances(r, StatusOf(r), StatusOf(r))
<1>t. /\ pc \in [Procs -> PCs] /\ loc \in [Procs -> Locals] /\ p \in Procs
      /\ t.kind \in {"BET", "DEAL", "ENDED"} /\ t \in Timer /\ armed \subseteq Timer
  BY DEF TypeInv, TypeOK, Procs, Timer
<1>1. \A q \in Procs \ {p} : pc'[q] = pc[q] /\ loc'[q] = loc[q]
  BY FireTurn DEF TurnKept
<1>2. /\ pc[p] = "idle" /\ pc'[p] = LabelAfter[t.kind]
      /\ armed' = armed \ {t} /\ ready' = ready
  BY <1>t DEF fire
<1>3. loc'[p].rid = r /\ loc'[p].idx = t.idx
  <2>1. loc'[p] = [loc[p] EXCEPT !.rid = t.rid, !.idx = t.idx]
    BY <1>t DEF fire
  <2> QED
    BY <1>t, <2>1 DEF Locals
<1>4. t.idx = Latest(r) /\ StatusOf(r) = t.kind
  BY DEF RoomLife, TimerMatches
<1>5. /\ Latest(r)' = Latest(r)
      /\ StatusOf(r)' = [BET |-> "DEAL", DEAL |-> "ENDED", ENDED |-> "ENDED"][t.kind]
  <2>1. CASE t.kind = "ENDED"
    <3>1. rounds' = rounds
      BY <2>1 DEF fire
    <3> QED
      BY <1>4, <2>1, <3>1 DEF StatusOf, Latest
  <2>2. CASE t.kind # "ENDED"
    <3>1. rounds' = change_status(r, Latest(r), StatusAfter[t.kind])
      BY <1>4, <2>2 DEF fire
    <3>2. Latest(r) # 0
      BY <1>t, <1>4, StatusType
    <3>3. Latest(r)' = Latest(r) /\ StatusOf(r)' = StatusAfter[t.kind]
      BY <3>1, <3>2, StatusChanged
    <3> QED
      BY <1>t, <2>2, <3>3 DEF StatusAfter
  <2> QED
    BY <2>1, <2>2
<1>6. \A q \in Procs : ~Driver(q, r)
  BY DEF RoomLife, OneDriver
<1>7. \A q \in Procs : Driver(q, r)' => q = p
  BY <1>1, <1>6 DEF Driver
<1>8. \A s \in armed' : s.rid # r
  <2> SUFFICES ASSUME NEW s \in armed, s # t, s.rid = r PROVE FALSE
    BY <1>2
  <2>1. s.idx = t.idx /\ s.kind = t.kind
    BY <1>4 DEF RoomLife, TimerMatches
  <2>2. s \in Timer
    BY <1>t
  <2> QED
    BY <1>t, <2>1, <2>2 DEF Timer
<1>9. DriverMatches(r)' /\ TimerMatches(r)' /\ OneDriver(r)'
  <2>1. Stage[pc'[p]] = StatusOf(r)'
    BY <1>t, <1>2, <1>5 DEF LabelAfter, Drives, BetPcs, DealPcs, EndedPcs, ClosedPcs, Stage
  <2> QED
    BY <1>3, <1>4, <1>5, <1>7, <1>8, <2>1 DEF DriverMatches, TimerMatches, OneDriver
<1>10. FilledWaits(r)'
  <2>1. pc'[p] \notin {"push_seat", "push_watch", "bet_init", "ready_room", "ready_full"}
    BY <1>t, <1>2 DEF LabelAfter
  <2>2. \A q \in Procs : Filled(q, r)' => Filled(q, r)
    BY <1>1, <1>5, <2>1 DEF Filled
  <2> QED
    BY <2>2, NobodyFilled DEF FilledWaits
<1>11. StartedIsFull(r)'
  <2>1. ready[r] >= DeskPlayers
    <3>1. ~Restarting(r)
      BY <1>6 DEF Restarting, Driver, Drives, EndedPcs
    <3> QED
      BY <1>t, <1>4, <3>1 DEF RoomLife, StartedIsFull
  <2> QED
    BY <1>2, <2>1 DEF StartedIsFull
<1>12. RoundsLeft(r)'
  <2>1. \A q \in Procs : loc'[q].rid = r /\ pc'[q] \in NextPcs => q = p /\ t.kind = "ENDED"
    BY <1>t, <1>2, <1>7 DEF Driver, NextPcs, Drives, EndedPcs, LabelAfter
  <2>2. pc'[p] \notin {"next_close", "next_init"}
    BY <1>t, <1>2 DEF LabelAfter
  <2>3. Latest(r) <= MaxRound /\ (t.kind = "ENDED" => t.idx < MaxRound)
    BY DEF RoomLife, RoundsLeft
  <2> QED
    BY <1>3, <1>5, <1>8, <2>1, <2>2, <2>3 DEF RoundsLeft, NextPcs
<1>13. \/ Advances(r, "BET", "DEAL") \/ Advances(r, "DEAL", "ENDED")
       \/ Advances(r, StatusOf(r), StatusOf(r))
  BY <1>t, <1>4, <1>5 DEF Advances
<1> QED
  BY <1>9, <1>10, <1>11, <1>12, <1>13 DEF RoomLife

-----------------------------------------------------------------------------
(* Rounds that are replayed. *)

\* A new status keeps the marks, and sets one when betting starts after anything but WAIT.
LEMMA ChangeMarks ==
    ASSUME TypeInv, NEW r0, NEW i, NEW st, rounds' = change_status(r0, i, st), NEW r \in Rids
    PROVE  /\ Latest(r)' = Latest(r)
           /\ Replayed(r) => Replayed(r)'
           /\ Replayed(r)' =>
                 Replayed(r) \/ (r = r0 /\ st = "BET" /\ rounds[r][i].status # "WAIT")
           /\ r = r0 /\ st = "BET" /\ i \in 1 .. Latest(r) /\ rounds[r][i].status # "WAIT"
                 => Replayed(r)'
<1>1. rounds \in [Rids -> Seq(Round)]
  BY DEF TypeInv, TypeOK
<1>2. Latest(r)' = Latest(r) /\ (r # r0 => rounds'[r] = rounds[r])
  BY <1>1, ChangeStatusKeeps
<1>3. CASE r # r0
  BY <1>2, <1>3 DEF Replayed
<1>4. CASE r = r0
  <2>1. PICK n \in Nat : n = Len(rounds[r]) /\ rounds[r] \in [1 .. n -> Round]
    BY <1>1, LenProperties
  <2>2. rounds'[r] = [rounds[r] EXCEPT ![i] = InStatus(rounds[r][i], st)]
    BY <1>1, <1>4 DEF change_status
  <2>3. \A j \in 1 .. n :
           rounds'[r][j] = IF j = i THEN InStatus(rounds[r][i], st) ELSE rounds[r][j]
    BY <2>1, <2>2
  <2>4. \A x \in Round : InStatus(x, st).replayed =
                             (x.replayed \/ (st = "BET" /\ x.status # "WAIT"))
    BY DEF InStatus, Round
  <2>5. \A j \in 1 .. n : rounds[r][j] \in Round
    BY <2>1
  <2>6. \A j \in 1 .. n :
           rounds'[r][j].replayed <=>
             rounds[r][j].replayed \/ (j = i /\ st = "BET" /\ rounds[r][i].status # "WAIT")
    <3> SUFFICES ASSUME NEW j \in 1 .. n
                 PROVE  rounds'[r][j].replayed <=>
                           \/ rounds[r][j].replayed
                           \/ j = i /\ st = "BET" /\ rounds[r][i].status # "WAIT"
      OBVIOUS
    <3>1. CASE j # i
      <4>1. rounds'[r][j] = rounds[r][j]
        BY <2>3, <3>1
      <4> QED
        BY <3>1, <4>1, Zenon
    <3>2. CASE j = i
      <4>1. rounds'[r][j] = InStatus(rounds[r][j], st) /\ rounds[r][j] \in Round
        BY <2>3, <2>5, <3>2
      <4>2. rounds'[r][j].replayed =
               (rounds[r][j].replayed \/ (st = "BET" /\ rounds[r][j].status # "WAIT"))
        BY <2>4, <4>1, Zenon
      <4> QED
        BY <3>2, <4>2, Zenon
    <3> QED
      BY <3>1, <3>2
  <2>7. Latest(r) = n
    BY <2>1 DEF Latest
  <2> QED
    BY <1>2, <1>4, <2>6, <2>7 DEF Replayed
<1> QED
  BY <1>3, <1>4

\* A round that is opened has not been replayed.
LEMMA OpenMarks ==
    ASSUME TypeInv, NEW r \in Rids, NEW seat, rounds'[r] = Append(rounds[r], NewRound(seat))
    PROVE  Latest(r)' = Latest(r) + 1 /\ Latest(r) \in Nat /\ (Replayed(r)' <=> Replayed(r))
<1>1. PICK n \in Nat : n = Len(rounds[r]) /\ rounds[r] \in [1 .. n -> Round]
  BY LenProperties DEF TypeInv, TypeOK
<1>2. PICK S : rounds[r] \in Seq(S) /\ NewRound(seat) \in S
  <2>1. rounds[r] \in Seq(Round \cup {NewRound(seat)})
    BY <1>1
  <2> QED
    BY <2>1
<1>3. /\ Len(rounds'[r]) = n + 1
      /\ \A j \in 1 .. n : rounds'[r][j] = rounds[r][j]
      /\ rounds'[r][n + 1] = NewRound(seat)
  BY <1>1, <1>2, AppendProperties
<1>4. ~NewRound(seat).replayed
  BY DEF NewRound
<1>5. Latest(r) = n /\ Latest(r)' = n + 1
  BY <1>1, <1>3 DEF Latest
<1> QED
  BY <1>3, <1>4, <1>5 DEF Replayed

\* What a step of the game service does to the marks of a room.
LEMMA GameMarks ==
    ASSUME TypeInv, RoundInv, FreshInv, NEW p \in Procs, GameStep(p), NEW r \in Rids
    PROVE  /\ Replayed(r) => Replayed(r)'
           /\ Replayed(r)' /\ ~Replayed(r) =>
                 BET_init(p) /\ loc[p].rid = r /\ StatusOf(r) # "WAIT"
           /\ Latest(r)' = Latest(r) \/ (loc[p].rid = r /\ Latest(r)' = Latest(r) + 1)
<1>t. rounds \in [Rids -> Seq(Round)] /\ \A s \in Rids : Latest(s) \in Nat
  BY StatusType DEF TypeInv, TypeOK
<1>1. CASE rounds'[r] = rounds[r]
  BY <1>1 DEF Replayed, Latest
<1>2. CASE BET_init(p)
  <2>1. pc[p] = "bet_init" /\ rounds' = change_status(loc[p].rid, loc[p].idx, "BET")
    BY <1>2 DEF BET_init
  <2>2. loc[p].idx = Latest(loc[p].rid)
    BY <2>1 DEF RoundInv, StartedRoundIsLatest
  <2>3. loc[p].rid = r /\ rounds[r][loc[p].idx].status # "WAIT" => StatusOf(r) # "WAIT"
    BY <2>2 DEF StatusOf
  <2> QED
    BY <1>2, <2>1, <2>3, ChangeMarks
<1>3. CASE ENDED_next(p) /\ rounds' # rounds
  <2>1. rounds' = change_status(loc[p].rid, loc[p].idx, "CLOSED")
    BY <1>3 DEF ENDED_next
  <2> QED
    BY <2>1, ChangeMarks
<1>4. CASE (initByRoom(p) \/ initByRound(p)) /\ rounds'[r] # rounds[r]
  <2>1. loc[p].rid = r
    BY <1>t, <1>4 DEF initByRoom, initByRound, gameVars
  <2>2. rounds'[r] = Append(rounds[r], NewRound(loc[p].uid))
    <3>1. CASE initByRound(p)
      BY <1>t, <2>1, <3>1 DEF initByRound
    <3>2. CASE initByRoom(p)
      <4>1. rounds[r] = <<>> /\ rounds'[r] = <<NewRound(loc[p].uid)>>
        BY <1>t, <1>4, <2>1, <3>2 DEF initByRoom
      <4> QED
        BY <4>1
    <3> QED
      BY <1>4, <3>1, <3>2
  <2> QED
    BY <2>1, <2>2, OpenMarks
<1> QED
  BY <1>1, <1>2, <1>3, <1>4
     DEF GameStep, gameVars, closeRound, gameAction_refuse, gameAction_ready, gameAction_bet,
         READY_mark, READY_full, BET_arm, gameAction_end, DEAL_cards, DEAL_arm, ENDED_next,
         CLOSED_close

LEMMA FireMarks ==
    ASSUME TypeInv, NEW p \in Timers, NEW t \in armed, fire(p, t), NEW r \in Rids
    PROVE  Latest(r)' = Latest(r) /\ (Replayed(r)' <=> Replayed(r))
<1>1. rounds' = rounds \/ \E st : st # "BET" /\ rounds' = change_status(t.rid, t.idx, st)
  <2>1. t.kind \in {"BET", "DEAL", "ENDED"}
    BY DEF TypeInv, TypeOK, Timer
  <2> QED
    BY <2>1 DEF fire, StatusAfter
<1> QED
  BY <1>1, ChangeMarks DEF Latest, Replayed

-----------------------------------------------------------------------------
(* All rooms. *)

\* Nothing becomes of room r.
Same(r) == Latest(r)' = Latest(r) /\ StatusOf(r)' = StatusOf(r)

\* The ordinary steps of a room's life.
Lives(r) ==
    \/ OpensRound(r)
    \/ Advances(r, "WAIT", "BET") \/ Advances(r, "BET", "DEAL") \/ Advances(r, "DEAL", "ENDED")
    \/ Latest(r) = MaxRound /\ Advances(r, "ENDED", "CLOSED")

LEMMA QuietSame ==
    ASSUME NEW p, NEW r \in Rids, LifeQuiet(p, r) PROVE Same(r)
BY DEF LifeQuiet, Same, StatusOf, Latest

LEMMA LifeUnchanged ==
    ASSUME NEW r \in Rids, UNCHANGED <<rounds, ready, armed, pc, loc>>, RoomLife(r)
    PROVE  RoomLife(r)'
<1>1. Same(r)
  BY DEF Same, StatusOf, Latest
<1>2. DriverMatches(r)' /\ TimerMatches(r)' /\ OneDriver(r)'
  BY <1>1 DEF RoomLife, DriverMatches, TimerMatches, OneDriver, Driver, Same
<1>3. FilledWaits(r)' /\ StartedIsFull(r)' /\ RoundsLeft(r)'
  BY <1>1 DEF RoomLife, FilledWaits, Filled, StartedIsFull, Restarting, RoundsLeft, Same
<1> QED
  BY <1>2, <1>3 DEF RoomLife

LEMMA HallLife ==
    ASSUME TypeInv, TurnInv, NEW p \in Procs, HallStep(p),
           NEW r \in Rids, RoomLife(r)
    PROVE  RoomLife(r)' /\ Same(r)
<1>1. LifeQuiet(p, r)
  BY HallQuiet
<1>2. \A q \in Procs \ {p} : pc'[q] = pc[q] /\ loc'[q] = loc[q]
  BY HallTurn DEF TurnKept
<1> QED
  BY <1>1, <1>2, QuietLife, QuietSame

LEMMA GameLife ==
    ASSUME TypeInv, TurnInv, RoundInv, FreshInv, NEW p \in Procs, GameStep(p),
           NEW r \in Rids, RoomLife(r), BET_init(p) /\ loc[p].rid = r => StatusOf(r) = "WAIT"
    PROVE  RoomLife(r)' /\ (Same(r) \/ (Lives(r) /\ r = loc[p].rid))
<1>t. pc \in [Procs -> PCs] /\ MaxRound \in Nat
  BY TableAssumption DEF TypeInv, TypeOK
<1>1. \A q \in Procs \ {p} : pc'[q] = pc[q] /\ loc'[q] = loc[q]
  BY GameTurn DEF TurnKept
<1>2. CASE \/ loc[p].rid # r
           \/ gameAction_refuse(p) \/ gameAction_ready(p) \/ gameAction_bet(p)
           \/ READY_full(p) \/ gameAction_end(p) \/ DEAL_cards(p) \/ CLOSED_close(p)
  <2>1. LifeQuiet(p, r)
    BY <1>2, GameQuiet
  <2> QED
    BY <1>1, <2>1, QuietLife, QuietSame
<1>3. CASE loc[p].rid = r /\ (initByRoom(p) \/ initByRound(p) \/ BET_init(p))
  BY <1>3, FirstRoundLife, NextRoundLife, BetLife DEF Lives
<1>4. CASE loc[p].rid = r /\ (closeRound(p) \/ READY_mark(p))
  <2>1. rounds' = rounds
    BY <1>4 DEF closeRound, READY_mark
  <2> QED
    BY <1>4, <2>1, CloseRoundLife, ReadyLife DEF Same, StatusOf, Latest
<1>5. ASSUME NEW kind \in {"BET", "DEAL", "ENDED"}, loc[p].rid = r, pc[p] \in Drives,
             Stage[pc[p]] = kind, kind = "ENDED" => loc[p].idx < MaxRound,
             pc[p] # "next_init", Finish(p) \/ Goto(p, "act_end"),
             armed' = create_timeout(r, loc[p].idx, kind), UNCHANGED <<rounds, ready>>
      PROVE  RoomLife(r)' /\ Same(r)
  <2>1. pc'[p] \notin Watched
    BY <1>5, EndsUnwatched
  <2>2. RoomLife(r)'
    BY <1>1, <1>5, <2>1, ArmLife DEF Driver
  <2> QED
    BY <1>5, <2>2 DEF Same, StatusOf, Latest
<1>6. CASE loc[p].rid = r /\ BET_arm(p)
  <2>1. pc[p] = "bet_arm" /\ pc[p] \in Drives /\ Stage[pc[p]] = "BET"
    BY <1>6 DEF BET_arm, Drives, BetPcs, Stage
  <2> QED
    BY <1>5, <1>6, <2>1 DEF BET_arm
<1>7. CASE loc[p].rid = r /\ DEAL_arm(p)
  <2>1. pc[p] = "deal_arm" /\ pc[p] \in Drives /\ Stage[pc[p]] = "DEAL"
    BY <1>7 DEF DEAL_arm, Drives, BetPcs, DealPcs, Stage
  <2> QED
    BY <1>5, <1>7, <2>1 DEF DEAL_arm
<1>8. CASE loc[p].rid = r /\ ENDED_next(p)
  <2>1. CASE IsLastRound(loc[p].idx)
    BY <1>8, <2>1, CloseLife DEF Lives
  <2>2. CASE ~IsLastRound(loc[p].idx)
    <3>1. pc[p] = "ended_next" /\ pc[p] \in Drives /\ Stage[pc[p]] = "ENDED"
      BY <1>8 DEF ENDED_next, Drives, BetPcs, DealPcs, EndedPcs, Stage
    <3>2. loc[p].idx = Latest(r)
      BY <1>8, <3>1 DEF RoomLife, DriverMatches, Driver
    <3>3. loc[p].idx < MaxRound
      BY <1>t, <2>2, <3>2, StatusType DEF IsLastRound
    <3>4. /\ Finish(p) /\ armed' = create_timeout(r, loc[p].idx, "ENDED")
          /\ UNCHANGED <<rounds, ready>>
      BY <1>8, <2>2 DEF ENDED_next
    <3> QED
      BY <1>5, <1>8, <3>1, <3>3, <3>4
  <2> QED
    BY <2>1, <2>2
<1> QED
  BY <1>2, <1>3, <1>4, <1>6, <1>7, <1>8 DEF GameStep

LEMMA CallbackLife ==
    ASSUME TypeInv, TurnInv, NEW p \in Timers, NEW t \in armed, fire(p, t),
           NEW r \in Rids, RoomLife(r)
    PROVE  RoomLife(r)' /\ (Same(r) \/ (Lives(r) /\ r = t.rid))
<1>t. /\ pc \in [Procs -> PCs] /\ loc \in [Procs -> Locals] /\ p \in Procs
      /\ rounds \in [Rids -> Seq(Round)]
      /\ t \in Timer /\ t.kind \in {"BET", "DEAL", "ENDED"} /\ armed \subseteq Timer
  BY DEF TypeInv, TypeOK, Procs, Timer
<1>1. CASE t.rid = r
  BY <1>1, FireLife DEF Lives, Same, Advances
<1>2. CASE t.rid # r
  <2>1. \A q \in Procs \ {p} : pc'[q] = pc[q] /\ loc'[q] = loc[q]
    BY FireTurn DEF TurnKept
  <2>2. pc[p] = "idle" /\ armed' \subseteq armed /\ ready' = ready
    BY <1>t DEF fire
  <2>3. loc'[p].rid # r
    <3>1. loc'[p] = [loc[p] EXCEPT !.rid = t.rid, !.idx = t.idx]
      BY <1>t DEF fire
    <3> QED
      BY <1>t, <1>2, <3>1 DEF Locals
  <2>4. rounds'[r] = rounds[r]
    BY <1>t, <1>2 DEF fire, change_status
  <2>5. LifeQuiet(p, r)
    BY <1>t, <2>2, <2>3, <2>4, RetireQuiet
  <2> QED
    BY <1>t, <2>1, <2>5, QuietLife, QuietSame
<1> QED
  BY <1>1, <1>2

\* A client may log in, or send a request.
LEMMA ClientLife ==
    ASSUME TypeInv, TurnInv, Clients, NEW r \in Rids
    PROVE  rounds' = rounds /\ (RoomLife(r) => RoomLife(r)')
<1> USE DEF gameVars
<1>t. /\ pc \in [Procs -> PCs] /\ loc \in [Procs -> Locals]
      /\ Https \subseteq Procs /\ Wss \subseteq Procs
  BY DEF TypeInv, TypeOK, Procs
<1>1. rounds' = rounds /\ ready' = ready /\ armed' = armed
  BY DEF Clients, Login, EnterScene, RequestRoom, RequestAction, login_by_token,
         chanage_serverScene
<1> SUFFICES ASSUME RoomLife(r) PROVE RoomLife(r)'
  BY <1>1
<1>2. ASSUME NEW u \in Uids, Login(u) \/ EnterScene(u) PROVE RoomLife(r)'
  <2>1. UNCHANGED <<pc, loc>>
    BY <1>2 DEF Login, EnterScene, login_by_token, chanage_serverScene
  <2> QED
    BY <1>1, <2>1, LifeUnchanged
<1>3. ASSUME NEW p \in Procs, NEW l \in {"create", "action_ready", "action_bet"},
             pc[p] = "idle", pc' = [pc EXCEPT ![p] = l],
             \A q \in Procs \ {p} : pc'[q] = pc[q] /\ loc'[q] = loc[q]
      PROVE  RoomLife(r)'
  <2>1. pc'[p] = l
    BY <1>t, <1>3
  <2>2. pc'[p] \notin Watched
    BY <2>1 DEF Watched, Drives, BetPcs, DealPcs, EndedPcs, ClosedPcs, ReadyPcs
  <2>3. LifeQuiet(p, r)
    BY <1>1, <1>3, <2>2, RetireQuiet
  <2> QED
    BY <1>3, <2>3, QuietLife
<1>4. ASSUME NEW p \in Https, NEW u \in Uids, RequestRoom(p, u) PROVE RoomLife(r)'
  <2>1. \A q \in Procs \ {p} : pc'[q] = pc[q] /\ loc'[q] = loc[q]
    BY <1>4, RequestTurn DEF TurnKept
  <2> QED
    BY <1>t, <1>3, <1>4, <2>1 DEF RequestRoom
<1>5. ASSUME NEW p \in Wss, NEW u \in Uids \cup {NoUid},
             NEW msg \in {"action_ready", "action_bet"}, RequestAction(p, u, msg)
      PROVE  RoomLife(r)'
  <2>1. \A q \in Procs \ {p} : pc'[q] = pc[q] /\ loc'[q] = loc[q]
    BY <1>5, ActionTurn DEF TurnKept
  <2> QED
    BY <1>t, <1>3, <1>5, <2>1 DEF RequestAction
<1> QED
  BY <1>2, <1>4, <1>5 DEF Clients

\* The round that has just ended is started again.
LEMMA ReplayLife ==
    ASSUME TypeInv, TurnInv, RoundInv, NEW p \in Procs, BET_init(p),
           NEW r \in Rids, loc[p].rid = r, RoomLife(r), StatusOf(r) # "WAIT"
    PROVE  /\ StatusOf(r) = "ENDED" /\ Latest(r) < MaxRound
           /\ Latest(r)' = Latest(r) /\ Replayed(r)'
<1>1. pc[p] = "bet_init" /\ rounds' = change_status(r, loc[p].idx, "BET")
  BY DEF BET_init
<1>2. Restarting(r)
  BY <1>1 DEF RoomLife, FilledWaits, Filled
<1>3. PICK q \in Procs : pc[q] = "next_init" /\ loc[q].rid = r
  BY <1>2 DEF Restarting
<1>4. Driver(q, r) /\ Stage[pc[q]] = "ENDED"
  BY <1>3 DEF Driver, Drives, BetPcs, DealPcs, EndedPcs, Stage
<1>5. StatusOf(r) = "ENDED" /\ Latest(r) < MaxRound
  BY <1>3, <1>4 DEF RoomLife, DriverMatches, RoundsLeft, NextPcs
<1>6. loc[p].idx = Latest(r)
  BY <1>1 DEF RoundInv, StartedRoundIsLatest
<1>7. Latest(r) \in 1 .. Latest(r) /\ rounds[r][Latest(r)].status = "ENDED"
  <2>1. Latest(r) \in Nat /\ Latest(r) # 0
    BY <1>5, StatusType
  <2> QED
    BY <1>5, <2>1 DEF StatusOf
<1> QED
  BY <1>1, <1>5, <1>6, <1>7, ChangeMarks

-----------------------------------------------------------------------------
(* The steps of RoundLifecycle. *)

\* What RoundLifecycle sees of room r does not change.
Keeps(r) ==
    /\ Latest(r)' = Latest(r) /\ (Replayed(r)' <=> Replayed(r))
    /\ Replayed(r) \/ Same(r)

\* One step of RoundLifecycle.
Goes(r) ==
    \/ ~Replayed(r) /\ ~Replayed(r)' /\ Lives(r)
    \/ /\ ~Replayed(r) /\ Replayed(r)' /\ StatusOf(r) = "ENDED" /\ Latest(r) < MaxRound
       /\ Latest(r)' = Latest(r)
    \/ Replayed(r) /\ Replayed(r)' /\ Latest(r)' = Latest(r) + 1

\* Room r lives on, or was replayed.
LifeOf(r) == Replayed(r) \/ RoomLife(r)

LEMMA GameGoes ==
    ASSUME TypeInv, TurnInv, RoundInv, FreshInv, NEW p \in Procs, GameStep(p),
           NEW r \in Rids, LifeOf(r)
    PROVE  LifeOf(r)' /\ (Keeps(r) \/ (Goes(r) /\ r = loc[p].rid))
<1>1. CASE Replayed(r)
  BY <1>1, GameMarks DEF LifeOf, Keeps, Goes
<1>2. CASE ~Replayed(r) /\ BET_init(p) /\ loc[p].rid = r /\ StatusOf(r) # "WAIT"
  BY <1>2, ReplayLife DEF LifeOf, Goes
<1>3. CASE ~Replayed(r) /\ (BET_init(p) /\ loc[p].rid = r => StatusOf(r) = "WAIT")
  <2>1. RoomLife(r)' /\ (Same(r) \/ (Lives(r) /\ r = loc[p].rid))
    BY <1>3, GameLife DEF LifeOf
  <2>2. ~Replayed(r)'
    BY <1>3, GameMarks
  <2> QED
    BY <1>3, <2>1, <2>2 DEF LifeOf, Keeps, Goes, Same
<1> QED
  BY <1>1, <1>2, <1>3

LEMMA FireGoes ==
    ASSUME TypeInv, TurnInv, NEW p \in Timers, NEW t \in armed, fire(p, t),
           NEW r \in Rids, LifeOf(r)
    PROVE  LifeOf(r)' /\ (Keeps(r) \/ (Goes(r) /\ r = t.rid))
<1>1. Latest(r)' = Latest(r) /\ (Replayed(r)' <=> Replayed(r))
  BY FireMarks
<1>2. CASE Replayed(r)
  BY <1>1, <1>2 DEF LifeOf, Keeps
<1>3. CASE ~Replayed(r)
  <2>1. RoomLife(r)' /\ (Same(r) \/ (Lives(r) /\ r = t.rid))
    BY <1>3, CallbackLife DEF LifeOf
  <2> QED
    BY <1>1, <1>3, <2>1 DEF LifeOf, Keeps, Goes, Same
<1> QED
  BY <1>2, <1>3

\* The steps that leave the rounds alone.
LEMMA RoundsKeep ==
    ASSUME rounds' = rounds, NEW r \in Rids, LifeOf(r), RoomLife(r) => RoomLife(r)'
    PROVE  LifeOf(r)' /\ Keeps(r)
<1>1. Same(r) /\ (Replayed(r)' <=> Replayed(r))
  BY DEF Same, StatusOf, Latest, Replayed
<1> QED
  BY <1>1 DEF LifeOf, Keeps, Same

\* In every step at most one room takes one step of RoundLifecycle.
LEMMA LifeStepAll ==
    ASSUME TypeInv, TurnInv, RoundInv, FreshInv, LifeInv, [Next]_vars
    PROVE  /\ LifeInv'
           /\ \/ \A r \in Rids : Keeps(r)
              \/ \E r \in Rids : Goes(r) /\ \A s \in Rids \ {r} : Keeps(s)
<1>0. \A r \in Rids : LifeOf(r)
  BY DEF LifeInv, LifeOf
<1> SUFFICES /\ \A r \in Rids : LifeOf(r)'
             /\ \/ \A r \in Rids : Keeps(r)
                \/ \E r \in Rids : Goes(r) /\ \A s \in Rids \ {r} : Keeps(s)
  BY DEF LifeInv, LifeOf
<1>1. CASE Clients
  BY <1>0, <1>1, ClientLife, RoundsKeep
<1>2. ASSUME NEW p \in Procs, HallStep(p) PROVE \A r \in Rids : LifeOf(r)' /\ Keeps(r)
  <2>1. rounds' = rounds
    BY <1>2 DEF HallStep, createRoom_refuse, createRoom_allocate, createRoom_setRid,
         createRoom_store, createRoom_return, closeRoom_delete, closeRoom_exit, broadcastRoom,
         broadcastByUid, broadcastByUids, getRoomByRoomId, gameVars
  <2> QED
    BY <1>0, <1>2, <2>1, HallLife, RoundsKeep
<1>3. ASSUME NEW p \in Procs, GameStep(p)
      PROVE  \A r \in Rids : LifeOf(r)' /\ (Keeps(r) \/ (Goes(r) /\ r = loc[p].rid))
  BY <1>0, <1>3, GameGoes
<1>4. ASSUME NEW p \in Timers, NEW t \in armed, fire(p, t)
      PROVE  \A r \in Rids : LifeOf(r)' /\ (Keeps(r) \/ (Goes(r) /\ r = t.rid))
  BY <1>0, <1>4, FireGoes
<1>5. CASE UNCHANGED vars
  <2>1. UNCHANGED <<rounds, ready, armed, pc, loc>>
    BY <1>5 DEF vars
  <2> QED
    BY <1>0, <2>1, LifeUnchanged, RoundsKeep
<1>6. ASSUME NEW r0, \A r \in Rids : LifeOf(r)' /\ (Keeps(r) \/ (Goes(r) /\ r = r0))
      PROVE  /\ \A r \in Rids : LifeOf(r)'
             /\ \/ \A r \in Rids : Keeps(r)
                \/ \E r \in Rids : Goes(r) /\ \A s \in Rids \ {r} : Keeps(s)
  BY <1>6
<1>7. CASE \E p \in Procs : HallStep(p)
  BY <1>2, <1>7
<1>8. CASE \E p \in Procs : GameStep(p)
  BY <1>3, <1>6, <1>8
<1>9. CASE Fire
  BY <1>4, <1>6, <1>9 DEF Fire
<1> QED
  BY <1>1, <1>5, <1>7, <1>8, <1>9 DEF Next

LEMMA LifeInit == Init => LifeInv
<1> SUFFICES ASSUME Init, NEW r \in Rids PROVE RoomLife(r)
  BY DEF LifeInv
<1>1. /\ rounds[r] = <<>> /\ armed = {} /\ \A p \in Procs : pc[p] = "idle"
      /\ MaxRound \in Nat
  BY TableAssumption DEF Init
<1>2. Latest(r) = 0 /\ StatusOf(r) = "none"
  BY <1>1 DEF Latest, StatusOf
<1>3. \A p \in Procs : ~Driver(p, r) /\ ~Filled(p, r) /\ pc[p] \notin NextPcs
  BY <1>1 DEF Driver, Drives, BetPcs, DealPcs, EndedPcs, ClosedPcs, Filled, NextPcs
<1> QED
  BY <1>1, <1>2, <1>3
     DEF RoomLife, DriverMatches, TimerMatches, OneDriver, FilledWaits, StartedIsFull,
         RoundsLeft, NextPcs

LEMMA LifeInvariant == Spec => []LifeInv
<1>1. Init => LifeInv
  BY LifeInit
<1>2. TypeInv /\ TurnInv /\ RoundInv /\ FreshInv /\ LifeInv /\ [Next]_vars => LifeInv'
  BY LifeStepAll
<1> QED
  BY <1>1, <1>2, TypeInvariant, TurnInvariant, RoundInvariant, FreshInvariant, PTL DEF Spec

\* A countdown belongs to the latest round of its room and to the status that round is in,
\* whatever the clients send and however often they log in, except in a room where a READY
\* was served between closeRound and initByRound.
THEOREM CountdownsMatch == Spec => []TimerMatchesStatus
<1>1. TypeInv /\ LifeInv => TimerMatchesStatus
  <2> SUFFICES ASSUME TypeInv, LifeInv, NEW t \in armed, ~Replayed(t.rid)
               PROVE  t.idx = Latest(t.rid) /\ StatusOf(t.rid) = t.kind
    BY DEF TimerMatchesStatus
  <2>1. t.rid \in Rids
    BY DEF TypeInv, TypeOK, Timer
  <2> QED
    BY <2>1 DEF LifeInv, RoomLife, TimerMatches
<1> QED
  BY <1>1, TypeInvariant, LifeInvariant, PTL

\* The rounds of every room follow RoundLifecycle, whatever the clients send.
THEOREM RoundsFollowLifecycle == Spec => ImplementsLifecycle
<1> DEFINE Idx == [r \in Rids |-> Latest(r)]
           Status == [r \in Rids |-> IF Replayed(r) THEN "replayed" ELSE StatusOf(r)]
<1>1. Init => Lifecycle!Init
  <2> SUFFICES ASSUME Init PROVE Idx = [r \in Rids |-> 0] /\ Status = [r \in Rids |-> "none"]
    BY DEF Lifecycle!Init
  <2>1. \A r \in Rids : Latest(r) = 0
    BY DEF Init, Latest
  <2>2. \A r \in Rids : ~Replayed(r) /\ StatusOf(r) = "none"
    BY <2>1 DEF Replayed, StatusOf
  <2> QED
    BY <2>1, <2>2
<1>2. TypeInv /\ TurnInv /\ RoundInv /\ FreshInv /\ LifeInv /\ [Next]_vars
         => [Lifecycle!Next]_<<Idx, Status>>
  <2> SUFFICES ASSUME TypeInv, TurnInv, RoundInv, FreshInv, LifeInv, [Next]_vars
               PROVE  [Lifecycle!Next]_<<Idx, Status>>
    OBVIOUS
  <2>1. /\ \A r \in Rids : /\ Idx[r] = Latest(r) /\ Idx'[r] = Latest(r)'
                           /\ Replayed(r) => Status[r] = "replayed"
                           /\ ~Replayed(r) => Status[r] = StatusOf(r)
                           /\ Replayed(r)' => Status'[r] = "replayed"
                           /\ ~Replayed(r)' => Status'[r] = StatusOf(r)'
        /\ Idx = [r \in Rids |-> Idx[r]] /\ Status = [r \in Rids |-> Status[r]]
        /\ Idx' = [r \in Rids |-> Idx'[r]] /\ Status' = [r \in Rids |-> Status'[r]]
    OBVIOUS
  <2> HIDE DEF Idx, Status
  <2>2. ASSUME NEW r \in Rids, Keeps(r) PROVE Idx'[r] = Idx[r] /\ Status'[r] = Status[r]
    BY <2>1, <2>2 DEF Keeps, Same
  <2>3. CASE \A r \in Rids : Keeps(r)
    <3>1. Idx' = Idx /\ Status' = Status
      BY <2>1, <2>2, <2>3
    <3> QED
      BY <3>1
  <2>4. ASSUME NEW r \in Rids, Goes(r), \A s \in Rids \ {r} : Keeps(s)
        PROVE  Lifecycle!Next
    <3>1. \A s \in Rids \ {r} : Idx'[s] = Idx[s] /\ Status'[s] = Status[s]
      BY <2>2, <2>4
    <3>2. Idx' = [Idx EXCEPT ![r] = Idx'[r]] /\ Status' = [Status EXCEPT ![r] = Status'[r]]
      BY <2>1, <3>1
    <3>3. ASSUME NEW from, NEW to, Idx'[r] = Idx[r], Status[r] = from, Status'[r] = to
          PROVE  Lifecycle!Advance(r, from, to)
      <4>1. Idx' = Idx /\ Status' = [Status EXCEPT ![r] = to]
        BY <2>1, <3>1, <3>2, <3>3
      <4> QED
        BY <3>3, <4>1 DEF Lifecycle!Advance, Idx, Status
    <3>4. CASE ~Replayed(r) /\ ~Replayed(r)' /\ OpensRound(r)
      <4>1. /\ Idx[r] < MaxRound /\ (Idx[r] = 0 \/ Status[r] = "ENDED")
            /\ Idx' = [Idx EXCEPT ![r] = Idx[r] + 1]
            /\ Status' = [Status EXCEPT ![r] = "WAIT"]
        BY <2>1, <3>2, <3>4 DEF OpensRound
      <4> QED
        BY <4>1 DEF Lifecycle!Next, Lifecycle!Open, Idx, Status
    <3>5. CASE /\ ~Replayed(r) /\ ~Replayed(r)'
               /\ \/ Advances(r, "WAIT", "BET") \/ Advances(r, "BET", "DEAL")
                  \/ Advances(r, "DEAL", "ENDED")
      <4>1. \/ Lifecycle!Advance(r, "WAIT", "BET") \/ Lifecycle!Advance(r, "BET", "DEAL")
            \/ Lifecycle!Advance(r, "DEAL", "ENDED")
        BY <2>1, <3>3, <3>5 DEF Advances
      <4> QED
        BY <4>1 DEF Lifecycle!Next, Lifecycle!Bet, Lifecycle!Deal, Lifecycle!End
    <3>6. CASE /\ ~Replayed(r) /\ ~Replayed(r)'
               /\ Latest(r) = MaxRound /\ Advances(r, "ENDED", "CLOSED")
      <4>1. Idx[r] = MaxRound /\ Lifecycle!Advance(r, "ENDED", "CLOSED")
        BY <2>1, <3>3, <3>6 DEF Advances
      <4> QED
        BY <4>1 DEF Lifecycle!Next, Lifecycle!Close, Idx
    <3>7. CASE /\ ~Replayed(r) /\ Replayed(r)' /\ StatusOf(r) = "ENDED"
               /\ Latest(r) < MaxRound /\ Latest(r)' = Latest(r)
      <4>1. Idx[r] < MaxRound /\ Lifecycle!Advance(r, "ENDED", "replayed")
        BY <2>1, <3>3, <3>7
      <4> QED
        BY <4>1 DEF Lifecycle!Next, Lifecycle!Replay, Idx
    <3>8. CASE Replayed(r) /\ Replayed(r)' /\ Latest(r)' = Latest(r) + 1
      <4>1. /\ Status[r] = "replayed" /\ Status' = Status
            /\ Idx' = [Idx EXCEPT ![r] = Idx[r] + 1]
        BY <2>1, <3>1, <3>2, <3>8
      <4> QED
        BY <4>1 DEF Lifecycle!Next, Lifecycle!Further, Idx, Status
    <3> QED
      BY <2>4, <3>4, <3>5, <3>6, <3>7, <3>8 DEF Goes, Lives
  <2> QED
    BY <2>3, <2>4, LifeStepAll
<1> QED
  BY <1>1, <1>2, TypeInvariant, TurnInvariant, RoundInvariant, FreshInvariant, LifeInvariant,
     PTL DEF Spec, ImplementsLifecycle, Lifecycle!Spec
-----------------------------------------------------------------------------
(* Who carries a room on. *)

\* What a step has to show of room r.
CarriedOn(r) ==
    \/ Driven(r)'
    \/ Latest(r)' > Latest(r)
    \/ rooms'[r] = NoRoom
    \/ \E p \in Procs : DriverFails(p, r)

\* A countdown that is not deleted, or another coroutine, goes on.
LEMMA OthersDrive ==
    ASSUME NEW p \in Procs, NEW r \in Rids, Driven(r), ~Driver(p, r),
           \A q \in Procs \ {p} : pc'[q] = pc[q] /\ loc'[q] = loc[q],
           \/ armed \subseteq armed'
           \/ \A t \in armed : t.rid = r => t \in armed'
           \/ \E t \in armed' : t.rid = r
    PROVE  Driven(r)'
BY DEF Driven, Driver

LEMMA HallCarries ==
    ASSUME TypeInv, TurnInv, NEW p \in Procs, HallStep(p), NEW r \in Rids, Driven(r)
    PROVE  CarriedOn(r)
<1>t. pc \in [Procs -> PCs] /\ loc \in [Procs -> Locals] /\ rooms \in [Rids -> Room]
  BY DEF TypeInv, TypeOK
<1>0. /\ \A q \in Procs \ {p} : pc'[q] = pc[q] /\ loc'[q] = loc[q]
      /\ armed' = armed
  BY HallTurn DEF TurnKept, HallStep, createRoom_refuse, createRoom_allocate,
     createRoom_setRid, createRoom_store, createRoom_return, closeRoom_delete, closeRoom_exit,
     broadcastRoom, broadcastByUid, broadcastByUids, getRoomByRoomId, gameVars
<1>1. CASE ~Driver(p, r)
  BY <1>0, <1>1, OthersDrive DEF CarriedOn
<1>2. CASE Driver(p, r) /\ closeRoom_delete(p)
  BY <1>t, <1>2 DEF closeRoom_delete, CarriedOn, Driver
<1>3. CASE Driver(p, r) /\ broadcastRoom(p)
  <2>1. FilterUid(p) = NoUid
    BY <1>3 DEF FilterUid, Driver, Drives, BetPcs, DealPcs, EndedPcs, ClosedPcs
  <2>2. CASE BroadcastFails(r, NoUid)
    BY <1>3, <2>2 DEF broadcastRoom, CarriedOn, DriverFails, Driver
  <2>3. CASE ~BroadcastFails(r, NoUid)
    <3>1. loc' = loc /\ pc'[p] = AfterBroadcast[pc[p]]
      BY <1>t, <1>3, <2>1, <2>3 DEF broadcastRoom, Goto, Driver
    <3>2. pc'[p] \in Drives
      BY <1>3, <3>1
         DEF AfterBroadcast, broadcastRoom, Driver, Drives, BetPcs, DealPcs, EndedPcs, ClosedPcs
    <3> QED
      BY <1>3, <3>1, <3>2 DEF CarriedOn, Driven, Driver
  <2> QED
    BY <2>2, <2>3
<1>4. CASE Driver(p, r) /\ getRoomByRoomId(p)
  <2>1. pc[p] = "next_room" /\ loc[p].rid = r /\ rooms' = rooms
    BY <1>4 DEF getRoomByRoomId, Driver, Drives, BetPcs, DealPcs, EndedPcs, ClosedPcs, hallVars
  <2>2. CASE rooms[r] # NoRoom
    <3>1. pc'[p] = "next_close" /\ loc'[p] = [loc[p] EXCEPT !.uid = rooms[r].seat]
      BY <1>t, <1>4, <2>1, <2>2 DEF getRoomByRoomId
    <3>2. loc'[p].rid = r
      BY <1>t, <2>1, <3>1 DEF Locals
    <3> QED
      BY <3>1, <3>2 DEF CarriedOn, Driven, Driver, Drives, EndedPcs
  <2> QED
    BY <2>1, <2>2 DEF CarriedOn
<1> QED
  BY <1>1, <1>2, <1>3, <1>4
     DEF HallStep, Driver, Drives, BetPcs, DealPcs, EndedPcs, ClosedPcs, createRoom_refuse,
         createRoom_allocate, createRoom_setRid, createRoom_store, createRoom_return,
         closeRoom_exit, broadcastByUid, broadcastByUids

LEMMA GameCarries ==
    ASSUME TypeInv, TurnInv, NEW p \in Procs, GameStep(p), NEW r \in Rids, Driven(r)
    PROVE  CarriedOn(r)
<1> USE DEF gameVars
<1>t. /\ pc \in [Procs -> PCs] /\ loc \in [Procs -> Locals]
      /\ rounds \in [Rids -> Seq(Round)]
  BY DEF TypeInv, TypeOK
<1>0. \A q \in Procs \ {p} : pc'[q] = pc[q] /\ loc'[q] = loc[q]
  BY GameTurn DEF TurnKept
<1>1. ASSUME NEW l \in Drives, Driver(p, r), Goto(p, l) PROVE CarriedOn(r)
  <2>1. pc'[p] = l /\ loc' = loc
    BY <1>t, <1>1 DEF Goto
  <2> QED
    BY <1>1, <2>1 DEF CarriedOn, Driven, Driver
<1>2. ASSUME NEW i, NEW kind, armed' = create_timeout(r, i, kind) PROVE CarriedOn(r)
  <2>1. \E t \in armed' : t.rid = r
    <3> DEFINE timer == [rid |-> r, idx |-> i, kind |-> kind]
    <3>1. timer \in armed' /\ timer.rid = r
      BY <1>2 DEF create_timeout
    <3> HIDE DEF timer
    <3> QED
      BY <3>1
  <2> QED
    BY <2>1 DEF CarriedOn, Driven
<1>3. ASSUME ~Driver(p, r), \A t \in armed : t.rid = r => t \in armed' PROVE CarriedOn(r)
  BY <1>0, <1>3, OthersDrive DEF CarriedOn
<1>4. CASE armed' = armed /\ ~Driver(p, r)
  BY <1>3, <1>4
<1>5. CASE BET_arm(p) \/ DEAL_arm(p) \/ (ENDED_next(p) /\ ~IsLastRound(loc[p].idx))
  <2>1. CASE loc[p].rid = r
    BY <1>2, <1>5, <2>1 DEF BET_arm, DEAL_arm, ENDED_next
  <2>2. CASE loc[p].rid # r
    BY <1>3, <1>5, <2>2
       DEF BET_arm, DEAL_arm, ENDED_next, create_timeout, TimersOf, Driver
  <2> QED
    BY <2>1, <2>2
<1>6. CASE closeRound(p) \/ CLOSED_close(p)
  <2>1. CASE loc[p].rid = r
    <3>1. Driver(p, r) /\ \E l \in {"next_init", "close_room"} : Goto(p, l)
      BY <1>6, <2>1
         DEF closeRound, CLOSED_close, Driver, Drives, EndedPcs, ClosedPcs
    <3> QED
      BY <1>1, <3>1 DEF Drives, EndedPcs, ClosedPcs
  <2>2. CASE loc[p].rid # r
    BY <1>3, <1>6, <2>2 DEF closeRound, CLOSED_close, close_timeout, TimersOf, Driver
  <2> QED
    BY <2>1, <2>2
<1>7. CASE Driver(p, r) /\ (DEAL_cards(p) \/ (ENDED_next(p) /\ IsLastRound(loc[p].idx)))
  BY <1>1, <1>7 DEF DEAL_cards, ENDED_next, Drives, DealPcs, ClosedPcs
<1>8. CASE Driver(p, r) /\ initByRound(p)
  <2>1. rounds'[r] = Append(rounds[r], NewRound(loc[p].uid))
    BY <1>t, <1>8 DEF initByRound, Driver
  <2>2. Latest(r)' = Latest(r) + 1 /\ Latest(r) \in Nat
    BY <2>1, OpenMarks
  <2> QED
    BY <2>2 DEF CarriedOn
<1>9. armed' = armed \/ BET_arm(p) \/ DEAL_arm(p) \/ closeRound(p) \/ CLOSED_close(p)
      \/ (ENDED_next(p) /\ ~IsLastRound(loc[p].idx))
  BY DEF GameStep, initByRoom, initByRound, gameAction_refuse, gameAction_ready,
         gameAction_bet, READY_mark, READY_full, BET_init, gameAction_end, DEAL_cards,
         ENDED_next
<1>10. Driver(p, r) => BET_arm(p) \/ DEAL_arm(p) \/ closeRound(p) \/ CLOSED_close(p)
                          \/ ENDED_next(p) \/ DEAL_cards(p) \/ initByRound(p)
  BY DEF Driver, Drives, BetPcs, DealPcs, EndedPcs, ClosedPcs, GameStep, initByRoom,
         gameAction_refuse, gameAction_ready, gameAction_bet, READY_mark, READY_full, BET_init,
         gameAction_end
<1> QED
  BY <1>4, <1>5, <1>6, <1>7, <1>8, <1>9, <1>10

\* The game of a room that is under way is never left with neither a countdown nor a
\* coroutine to carry it on, for any clients, but when an error of sendMsg unwinds it.
THEOREM RoomsCarriedOn == Spec => DriverKept
<1>1. ASSUME TypeInv, TurnInv, [Next]_vars, NEW r \in Rids, Driven(r) PROVE CarriedOn(r)
  <2>1. UNCHANGED <<armed, pc, loc>> => CarriedOn(r)
    BY <1>1 DEF CarriedOn, Driven, Driver
  <2>2. ASSUME NEW p \in Procs, NEW l \in PCs, pc[p] = "idle", armed' = armed,
               \A q \in Procs \ {p} : pc'[q] = pc[q] /\ loc'[q] = loc[q]
        PROVE  CarriedOn(r)
    <3>1. ~Driver(p, r)
      BY <2>2 DEF Driver, Drives, BetPcs, DealPcs, EndedPcs, ClosedPcs
    <3> QED
      BY <1>1, <2>2, <3>1, OthersDrive DEF CarriedOn
  <2>3. CASE Clients
    <3>1. ASSUME NEW u \in Uids, Login(u) \/ EnterScene(u) PROVE CarriedOn(r)
      BY <2>1, <3>1 DEF Login, EnterScene, login_by_token, chanage_serverScene, gameVars
    <3>2. ASSUME NEW p \in Https, NEW u \in Uids, RequestRoom(p, u) PROVE CarriedOn(r)
      BY <1>1, <2>2, <3>2, RequestTurn DEF TurnKept, RequestRoom, gameVars, Procs, PCs
    <3>3. ASSUME NEW p \in Wss, NEW u \in Uids \cup {NoUid},
                 NEW msg \in {"action_ready", "action_bet"}, RequestAction(p, u, msg)
          PROVE  CarriedOn(r)
      BY <1>1, <2>2, <3>3, ActionTurn DEF TurnKept, RequestAction, gameVars, Procs, PCs
    <3> QED
      BY <2>3, <3>1, <3>2, <3>3 DEF Clients
  <2>4. ASSUME NEW p \in Timers, NEW t \in armed, fire(p, t) PROVE CarriedOn(r)
    <3>t. /\ pc \in [Procs -> PCs] /\ loc \in [Procs -> Locals] /\ p \in Procs
          /\ t.kind \in {"BET", "DEAL", "ENDED"}
      BY <1>1, <2>4 DEF TypeInv, TypeOK, Procs, Timer
    <3>1. /\ \A q \in Procs \ {p} : pc'[q] = pc[q] /\ loc'[q] = loc[q]
          /\ pc[p] = "idle" /\ pc'[p] = LabelAfter[t.kind] /\ armed' = armed \ {t}
          /\ loc'[p] = [loc[p] EXCEPT !.rid = t.rid, !.idx = t.idx]
      BY <1>1, <2>4, <3>t, FireTurn DEF TurnKept, fire
    <3>2. CASE t.rid = r
      <4>1. loc'[p].rid = r
        BY <3>t, <3>1, <3>2 DEF Locals
      <4>2. pc'[p] \in Drives
        BY <3>t, <3>1 DEF LabelAfter, Drives, DealPcs, EndedPcs
      <4> QED
        BY <3>t, <4>1, <4>2 DEF CarriedOn, Driven, Driver
    <3>3. CASE t.rid # r
      <4>1. ~Driver(p, r)
        BY <3>1 DEF Driver, Drives, BetPcs, DealPcs, EndedPcs, ClosedPcs
      <4> QED
        BY <1>1, <3>t, <3>1, <3>3, <4>1, OthersDrive DEF CarriedOn
    <3> QED
      BY <3>2, <3>3
  <2>5. CASE UNCHANGED vars
    BY <2>1, <2>5 DEF vars
  <2> QED
    BY <1>1, <2>3, <2>4, <2>5, HallCarries, GameCarries DEF Next, Fire
<1>2. TypeInv /\ TurnInv /\ [Next]_vars =>
         [\A r \in Rids : Driven(r) => CarriedOn(r)]_vars
  BY <1>1
<1>3. (\A r \in Rids : Driven(r) => CarriedOn(r)) =>
         \A r \in Rids : Driven(r) =>
            \/ Driven(r)'
            \/ Latest(r)' > Latest(r)
            \/ rooms'[r] = NoRoom
            \/ \E p \in Procs : DriverFails(p, r)
  BY DEF CarriedOn
<1> QED
  BY <1>2, <1>3, TypeInvariant, TurnInvariant, PTL DEF Spec, DriverKept
=============================================================================
