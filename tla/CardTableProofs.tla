--------------------------- MODULE CardTableProofs --------------------------
(***************************************************************************)
(* Proofs about CardTable, for any numbers of users, coroutines, rooms,    *)
(* rounds and codes, and any clients: the type invariant, the agreement    *)
(* between the players' records of srv_token_login and the rooms of        *)
(* srv_hall_room, and what gameAction and createRoom rely on while they    *)
(* are suspended in the other service.                                     *)
(***************************************************************************)
EXTENDS CardTable, TLAPS, SequenceTheorems, FiniteSetTheorems

(* Auxiliary invariants. *)

\* Labels at which the code relies on the rid it holds being one of a room.
NeedsRid == TimerPcs \cup {"ready_room", "ready_full", "push_seat", "push_watch",
                           "bet_init", "bet_bcast", "bet_arm"}

RidOK == \A p \in Procs : pc[p] \in NeedsRid => loc[p].rid \in Rids

\* Only HTTP coroutines create rooms.
CreateByHttp == \A p \in Procs : pc[p] = "create" => p \in Https

\* Every request that is still to take a room id will find one within the bound.
CreateBound == ridIndex + Cardinality(Creating) <= MaxRooms

\* The types of everything but the coroutines.
DataOK ==
    /\ players \in [Uids -> Player]
    /\ rooms \in [Rids -> Room]
    /\ ridIndex \in 0 .. MaxRooms
    /\ rounds \in [Rids -> Seq(Round)]
    /\ ready \in [Rids -> Nat]
    /\ armed \subseteq Timer
    /\ queue \in [Services -> Seq(Procs)]
    /\ answer \in [Https -> Answer]

TypeInv == TypeOK /\ RidOK /\ CreateByHttp /\ CreateBound

\* What a step that moves one coroutine has to keep.
CoroutineInv ==
    /\ pc \in [Procs -> PCs]
    /\ loc \in [Procs -> Locals]
    /\ RidOK
    /\ CreateByHttp

\* p moves to label l and its locals become v.
Moves(p, l, v) == /\ pc' = [pc EXCEPT ![p] = l]
                  /\ loc' = [loc EXCEPT ![p] = v]

QueueType == [Services -> Seq(Procs)]

-----------------------------------------------------------------------------
(* The queues. *)

LEMMA EnterType ==
    ASSUME NEW q \in QueueType, NEW s \in Services, NEW p \in Procs
    PROVE  Enter(q, s, p) \in QueueType
BY DEF Enter, QueueType

LEMMA LeaveType ==
    ASSUME NEW q \in QueueType, NEW s \in Services, q[s] # <<>>
    PROVE  Leave(q, s) \in QueueType
<1>1. Tail(q[s]) \in Seq(Procs)
  BY HeadTailProperties DEF QueueType
<1> QED
  BY <1>1 DEF Leave, QueueType

\* Giving one entry of a list of rounds another status leaves a list of rounds.
LEMMA ChangeStatusType ==
    ASSUME rounds \in [Rids -> Seq(Round)], NEW r, NEW i, NEW st \in Statuses
    PROVE  change_status(r, i, st) \in [Rids -> Seq(Round)]
<1> DEFINE Changed(f) == [f EXCEPT ![i] = InStatus(@, st)]
<1>1. ASSUME NEW f \in Seq(Round) PROVE Changed(f) \in Seq(Round)
  <2>1. PICK n \in Nat : f \in [1 .. n -> Round]
    OBVIOUS
  <2>2. \A x \in Round : InStatus(x, st) \in Round
    BY DEF Round, InStatus
  <2>3. Changed(f) \in [1 .. n -> Round]
    BY <2>1, <2>2
  <2> QED
    BY <2>3
<1> QED
  BY <1>1 DEF change_status

-----------------------------------------------------------------------------
(* Moving one coroutine. *)

LEMMA MoveType ==
    ASSUME CoroutineInv,
           NEW p \in Procs, NEW l \in PCs \ {"create"}, NEW v \in Locals,
           l \in NeedsRid => v.rid \in Rids,
           Moves(p, l, v)
    PROVE  CoroutineInv' /\ Creating' \subseteq Creating
BY DEF CoroutineInv, Moves, RidOK, CreateByHttp, Creating, Procs

LEMMA GotoMoves ==
    ASSUME loc \in [Procs -> Locals], NEW p \in Procs, NEW l, Goto(p, l)
    PROVE  Moves(p, l, loc[p]) /\ loc[p] \in Locals
BY DEF Goto, Moves

LEMMA NoLocalsType == NoLocals \in Locals
BY DEF NoLocals, Locals, NoRid

LEMMA FinishMoves ==
    ASSUME NEW p \in Procs, Finish(p)
    PROVE  Moves(p, "idle", NoLocals) /\ NoLocals \in Locals
BY NoLocalsType DEF Finish, Moves

\* The steps of a coroutine that leave no new creation pending.
Settles == CoroutineInv' /\ Creating' \subseteq Creating

LEMMA GotoType ==
    ASSUME CoroutineInv, NEW p \in Procs, NEW l \in PCs \ {"create"},
           l \in NeedsRid => loc[p].rid \in Rids,
           Goto(p, l)
    PROVE  Settles
<1>1. Moves(p, l, loc[p]) /\ loc[p] \in Locals
  BY GotoMoves DEF CoroutineInv
<1> QED
  BY <1>1, MoveType DEF Settles

LEMMA FinishType ==
    ASSUME CoroutineInv, NEW p \in Procs, Finish(p)
    PROVE  Settles
<1>1. Moves(p, "idle", NoLocals) /\ NoLocals \in Locals
  BY FinishMoves
<1>2. "idle" \in PCs \ {"create"} /\ "idle" \notin NeedsRid
  BY DEF PCs, NeedsRid, TimerPcs
<1> QED
  BY <1>1, <1>2, MoveType DEF Settles

LEMMA AbortType ==
    ASSUME CoroutineInv, NEW p \in Procs, Abort(p)
    PROVE  Settles
<1>1. "act_end" \in PCs \ {"create"} /\ "act_end" \notin NeedsRid
  BY DEF PCs, ActionPcs, NeedsRid, TimerPcs
<1> QED
  BY <1>1, GotoType, FinishType DEF Abort

\* Requests that leave label "create" free their share of the bound.
LEMMA BoundKept ==
    ASSUME TypeInv, Creating' \subseteq Creating, ridIndex' = ridIndex
    PROVE  CreateBound'
<1>1. IsFiniteSet(Creating)
  BY FS_Subset, TableAssumption DEF Creating
<1>2. /\ IsFiniteSet(Creating')
      /\ Cardinality(Creating') <= Cardinality(Creating)
  BY <1>1, FS_Subset
<1>3. Cardinality(Creating) \in Nat /\ Cardinality(Creating') \in Nat
  BY <1>1, <1>2, FS_CardinalityType
<1> QED
  BY <1>2, <1>3, TableAssumption DEF TypeInv, TypeOK, CreateBound


LEMMA TypeInvSplit ==
    TypeInv <=> (CoroutineInv /\ DataOK /\ CreateBound)
BY DEF TypeInv, TypeOK, DataOK, CoroutineInv

\* What has to be shown of a step that settles.
LEMMA SettledStep ==
    ASSUME TypeInv, Settles, DataOK', ridIndex' = ridIndex
    PROVE  TypeInv'
BY TypeInvSplit, BoundKept DEF Settles, TypeInv, TypeOK, DataOK, CoroutineInv

-----------------------------------------------------------------------------
(* Type correctness. *)

LEMMA FreshPlayerType == FreshPlayer \in Player
BY DEF FreshPlayer, Player, Scenes, NoRid

LEMMA TypeInit == Init => TypeInv
<1> SUFFICES ASSUME Init PROVE TypeInv
  OBVIOUS
<1>1. Creating = {}
  BY DEF Init, Creating, Procs
<1>2. CreateBound
  BY <1>1, FS_EmptySet, TableAssumption DEF CreateBound, Init
<1>3. TypeOK
  <2>1. OfflinePlayer \in Player /\ NoRoom \in Room /\ NoAnswer \in Answer
    BY FreshPlayerType
       DEF OfflinePlayer, Player, NoRid, Room, NoRoom, Answer, NoAnswer, AnswerCodes
  <2>2. <<>> \in Seq(Round) /\ <<>> \in Seq(Procs) /\ "idle" \in PCs
    BY DEF PCs
  <2> QED
    BY <2>1, <2>2, NoLocalsType, TableAssumption DEF Init, TypeOK
<1>4. RidOK /\ CreateByHttp
  BY DEF Init, RidOK, CreateByHttp, NeedsRid, TimerPcs
<1> QED
  BY <1>2, <1>3, <1>4 DEF TypeInv


LEMMA HallStepType ==
    ASSUME TypeInv, NEW p \in Procs, HallStep(p)
    PROVE  TypeInv'
<1> USE DEF hallVars, gameVars
<1>0. CoroutineInv /\ DataOK /\ CreateBound
  BY TypeInvSplit
<1>q. /\ queue \in QueueType
      /\ \A s \in Services : queue[s] # <<>> => Leave(queue, s) \in QueueType
      /\ "hall" \in Services /\ "game" \in Services
  BY <1>0, LeaveType DEF DataOK, QueueType, Services
<1>1. CASE createRoom_refuse(p)
  <2>1. Settles
    BY <1>0, <1>1, FinishType DEF createRoom_refuse
  <2>2. [code |-> CreateRefusal(loc[p].uid), rid |-> NoRid] \in Answer
    BY DEF CreateRefusal, Answer, AnswerCodes
  <2>3. DataOK'
    BY <1>0, <1>q, <1>1, <2>2 DEF createRoom_refuse, DataOK, QueueType, Serving
  <2> QED
    BY <1>1, <2>1, <2>3, SettledStep DEF createRoom_refuse
<1>2. CASE createRoom_allocate(p)
  <2>1. PICK c \in Codes :
          loc' = [loc EXCEPT ![p].rid = getCurrentRoomId, ![p].code = c]
    BY <1>2 DEF createRoom_allocate
  <2>2. p \in Creating /\ Creating' = Creating \ {p}
    BY <1>0, <1>2
       DEF createRoom_allocate, Creating, CoroutineInv, CreateByHttp, Procs
  <2>3. IsFiniteSet(Creating) /\ Cardinality(Creating) \in Nat
    BY FS_Subset, FS_CardinalityType, TableAssumption DEF Creating
  <2>4. Cardinality(Creating') = Cardinality(Creating) - 1 /\ Cardinality(Creating) > 0
    BY <2>2, <2>3, FS_RemoveElement, FS_EmptySet
  <2>5. ridIndex' = ridIndex + 1 /\ ridIndex' \in Rids
    BY <1>0, <1>2, <2>3, <2>4, TableAssumption
       DEF createRoom_allocate, getCurrentRoomId, CreateBound, DataOK, Rids
  <2>6. CreateBound'
    BY <1>0, <2>3, <2>4, <2>5, TableAssumption DEF CreateBound, DataOK
  <2>7. DataOK'
    BY <1>0, <1>2, <2>5, TableAssumption DEF createRoom_allocate, DataOK, Rids
  <2>8. CoroutineInv'
    <3> DEFINE v == [loc[p] EXCEPT !.rid = ridIndex + 1, !.code = c]
    <3>1. v \in Locals
      BY <1>0, <2>5 DEF CoroutineInv, Locals
    <3>2. Moves(p, "create_setrid", v)
      BY <1>0, <1>2, <2>1
         DEF createRoom_allocate, Moves, getCurrentRoomId, CoroutineInv
    <3>3. "create_setrid" \in PCs \ {"create"} /\ "create_setrid" \notin NeedsRid
      BY DEF PCs, CreatePcs, NeedsRid, TimerPcs
    <3> QED
      BY <1>0, <3>1, <3>2, <3>3, MoveType
  <2> QED
    BY <2>6, <2>7, <2>8 DEF TypeInv, TypeOK, DataOK, CoroutineInv
<1>3. CASE createRoom_setRid(p)
  <2>1. Settles
    <3>1. "create_store" \in PCs \ {"create"} /\ "create_store" \notin NeedsRid
      BY DEF PCs, CreatePcs, NeedsRid, TimerPcs
    <3> QED
      BY <1>0, <1>3, <3>1, GotoType DEF createRoom_setRid
  <2>2. players' \in [Uids -> Player]
    <3>1. loc[p].rid \in Rids \cup {NoRid}
      BY <1>0 DEF CoroutineInv, Locals
    <3>2. \A x \in Player, r \in Rids \cup {NoRid} : [x EXCEPT !.rid = r] \in Player
      BY DEF Player
    <3>3. \A x \in Player : x.rid \in Rids \cup {NoRid}
      BY DEF Player
    <3> QED
      BY <1>0, <1>3, <3>1, <3>2, <3>3 DEF createRoom_setRid, setRidWithUid, DataOK
  <2>3. DataOK'
    BY <1>0, <1>3, <2>2 DEF createRoom_setRid, DataOK
  <2> QED
    BY <1>3, <2>1, <2>3, SettledStep DEF createRoom_setRid
<1>4. CASE createRoom_store(p)
  <2>1. Settles
    <3>1. "create_init" \in PCs \ {"create"} /\ "create_init" \notin NeedsRid
      BY DEF PCs, CreatePcs, NeedsRid, TimerPcs
    <3> QED
      BY <1>0, <1>4, <3>1, GotoType DEF createRoom_store
  <2>2. [code |-> loc[p].code, seat |-> loc[p].uid] \in Room
    BY <1>0 DEF CoroutineInv, Locals, Room
  <2>3. queue' \in QueueType
    BY <1>4, <1>q, EnterType DEF createRoom_store
  <2>4. DataOK'
    BY <1>0, <1>4, <2>2, <2>3 DEF createRoom_store, DataOK, QueueType
  <2> QED
    BY <1>4, <2>1, <2>4, SettledStep DEF createRoom_store
<1>5. CASE createRoom_return(p)
  <2>1. Settles
    BY <1>0, <1>5, FinishType DEF createRoom_return
  <2>2. [code |-> "OK", rid |-> loc[p].rid] \in Answer
    BY <1>0 DEF CoroutineInv, Locals, Answer, AnswerCodes
  <2>3. DataOK'
    BY <1>0, <1>q, <1>5, <2>2 DEF createRoom_return, DataOK, QueueType, Serving
  <2> QED
    BY <1>5, <2>1, <2>3, SettledStep DEF createRoom_return
<1>6. CASE closeRoom_delete(p)
  <2>1. CASE rooms[loc[p].rid] = NoRoom
    <3>1. Settles
      BY <1>0, <1>6, <2>1, AbortType DEF closeRoom_delete
    <3>2. DataOK'
      BY <1>0, <1>q, <1>6, <2>1 DEF closeRoom_delete, DataOK, QueueType, Serving
    <3> QED
      BY <1>6, <3>1, <3>2, SettledStep DEF closeRoom_delete
  <2>2. CASE rooms[loc[p].rid] # NoRoom
    <3> DEFINE v == [loc[p] EXCEPT !.uid = rooms[loc[p].rid].seat]
    <3>1. loc[p].rid \in Rids
      BY <1>0, <1>6 DEF closeRoom_delete, CoroutineInv, RidOK, NeedsRid, TimerPcs
    <3>2. v \in Locals /\ v.rid = loc[p].rid
      BY <1>0, <3>1 DEF CoroutineInv, DataOK, Locals, Room
    <3>3. Moves(p, "close_exit", v)
      BY <1>0, <1>6, <2>2 DEF closeRoom_delete, Moves, CoroutineInv
    <3>4. "close_exit" \in PCs \ {"create"}
      BY DEF PCs, TimerPcs
    <3>5. Settles
      BY <1>0, <3>1, <3>2, <3>3, <3>4, MoveType DEF Settles
    <3>6. NoRoom \in Room
      BY DEF NoRoom, Room
    <3>7. DataOK'
      BY <1>0, <1>6, <2>2, <3>6 DEF closeRoom_delete, DataOK
    <3> QED
      BY <1>6, <3>5, <3>7, SettledStep DEF closeRoom_delete
  <2> QED
    BY <2>1, <2>2
<1>7. CASE closeRoom_exit(p)
  <2>1. Settles
    BY <1>0, <1>7, FinishType DEF closeRoom_exit
  <2>2. \A x \in Player :
           [x EXCEPT !.scene = "hall", !.bound = FALSE, !.rid = NoRid] \in Player
    BY DEF Player, Scenes
  <2>3. players' \in [Uids -> Player]
    BY <1>0, <1>7, <2>2 DEF closeRoom_exit, ExitRoomWithUid, DataOK
  <2>4. DataOK'
    BY <1>0, <1>q, <1>7, <2>3 DEF closeRoom_exit, DataOK, QueueType, Serving
  <2> QED
    BY <1>7, <2>1, <2>4, SettledStep DEF closeRoom_exit
<1>8. CASE broadcastRoom(p)
  <2> DEFINE l == AfterBroadcast[pc[p]]
  <2>1. l \in PCs \ {"create"} /\ (l \in NeedsRid => pc[p] \in NeedsRid)
    BY <1>8 DEF broadcastRoom, AfterBroadcast, PCs, ActionPcs, TimerPcs, NeedsRid
  <2>2. l \in NeedsRid => loc[p].rid \in Rids
    BY <1>0, <2>1 DEF CoroutineInv, RidOK
  <2>3. Abort(p) \/ Goto(p, l)
    BY <1>8 DEF broadcastRoom
  <2>4. Settles
    BY <1>0, <2>1, <2>2, <2>3, GotoType, AbortType
  <2>5. DataOK'
    BY <1>0, <1>q, <1>8 DEF broadcastRoom, DataOK, QueueType, Serving
  <2> QED
    BY <1>8, <2>4, <2>5, SettledStep DEF broadcastRoom
<1>9. CASE broadcastByUid(p)
  <2> DEFINE left == Leave(queue, "hall")
  <2>1. left \in QueueType
    BY <1>q, <1>9 DEF broadcastByUid, Serving
  <2>2. Enter(left, "hall", p) \in QueueType
    BY <1>q, <2>1, EnterType
  <2>3. DataOK'
    BY <1>0, <1>9, <2>1, <2>2 DEF broadcastByUid, DataOK, QueueType
  <2>4. Abort(p) \/ (pc[p] = "push_seat" /\ Goto(p, "push_watch")) \/ Goto(p, "act_end")
    BY <1>9 DEF broadcastByUid
  <2>5. /\ {"push_watch", "act_end"} \subseteq PCs \ {"create"}
        /\ "push_seat" \in NeedsRid /\ "act_end" \notin NeedsRid
    BY DEF PCs, ActionPcs, NeedsRid, TimerPcs
  <2>6. Settles
    BY <1>0, <2>4, <2>5, GotoType, AbortType DEF CoroutineInv, RidOK
  <2> QED
    BY <1>9, <2>3, <2>6, SettledStep DEF broadcastByUid
<1>10. CASE broadcastByUids(p)
  <2>1. "bet_init" \in PCs \ {"create"} /\ "push_watch" \in NeedsRid
    BY DEF PCs, ActionPcs, NeedsRid
  <2>2. loc[p].rid \in Rids
    BY <1>0, <1>10, <2>1 DEF broadcastByUids, CoroutineInv, RidOK
  <2>3. Settles
    BY <1>0, <1>10, <2>1, <2>2, GotoType DEF broadcastByUids
  <2>4. DataOK'
    BY <1>0, <1>q, <1>10 DEF broadcastByUids, DataOK, QueueType, Serving
  <2> QED
    BY <1>10, <2>3, <2>4, SettledStep DEF broadcastByUids
<1>11. CASE getRoomByRoomId(p)
  <2> DEFINE left == Leave(queue, "hall")
  <2>1. left \in QueueType /\ Enter(left, "game", p) \in QueueType
    BY <1>q, <1>11, EnterType DEF getRoomByRoomId, Serving
  <2>2. DataOK'
    BY <1>0, <1>11, <2>1 DEF getRoomByRoomId, DataOK, QueueType
  <2>3. loc[p].rid \in Rids
    BY <1>0, <1>11 DEF getRoomByRoomId, CoroutineInv, RidOK, NeedsRid, TimerPcs
  <2>4. {"ready_full", "next_close"} \subseteq PCs \ {"create"}
    BY DEF PCs, ActionPcs, TimerPcs
  <2>5. CASE pc[p] = "ready_room"
    <3>1. Goto(p, "ready_full")
      BY <1>11, <2>5 DEF getRoomByRoomId
    <3> QED
      BY <1>0, <1>11, <2>2, <2>3, <2>4, <3>1, GotoType, SettledStep DEF getRoomByRoomId
  <2>6. CASE pc[p] = "next_room" /\ rooms[loc[p].rid] = NoRoom
    <3>1. Finish(p)
      BY <1>11, <2>6 DEF getRoomByRoomId
    <3> QED
      BY <1>0, <1>11, <2>2, <3>1, FinishType, SettledStep DEF getRoomByRoomId
  <2>7. CASE pc[p] = "next_room" /\ rooms[loc[p].rid] # NoRoom
    <3> DEFINE v == [loc[p] EXCEPT !.uid = rooms[loc[p].rid].seat]
    <3>1. v \in Locals /\ v.rid = loc[p].rid
      BY <1>0, <2>3 DEF CoroutineInv, DataOK, Locals, Room
    <3>2. Moves(p, "next_close", v)
      BY <1>0, <1>11, <2>7 DEF getRoomByRoomId, Moves, CoroutineInv
    <3>3. Settles
      BY <1>0, <2>3, <2>4, <3>1, <3>2, MoveType DEF Settles
    <3> QED
      BY <1>11, <2>2, <3>3, SettledStep DEF getRoomByRoomId
  <2> QED
    BY <1>11, <2>5, <2>6, <2>7 DEF getRoomByRoomId
<1> QED
  BY <1>1, <1>2, <1>3, <1>4, <1>5, <1>6, <1>7, <1>8, <1>9, <1>10, <1>11 DEF HallStep

LEMMA CreateTimeoutType ==
    ASSUME armed \subseteq Timer, NEW r \in Rids, NEW i \in Nat,
           NEW kind \in {"BET", "DEAL", "ENDED"}
    PROVE  create_timeout(r, i, kind) \subseteq Timer
BY DEF create_timeout, TimersOf, Timer

LEMMA GameStepType ==
    ASSUME TypeInv, NEW p \in Procs, GameStep(p)
    PROVE  TypeInv'
<1> USE DEF hallVars, gameVars
<1>0. CoroutineInv /\ DataOK /\ CreateBound
  BY TypeInvSplit
<1>q. /\ queue \in QueueType /\ Enter(queue, "hall", p) \in QueueType
      /\ \A s \in Services : queue[s] # <<>> => Leave(queue, s) \in QueueType
      /\ "hall" \in Services /\ "game" \in Services
  BY <1>0, LeaveType, EnterType DEF DataOK, QueueType, Services
<1>r. /\ pc[p] \in NeedsRid => loc[p].rid \in Rids
      /\ loc[p].uid \in Uids \cup {NoUid} /\ loc[p].idx \in Nat
  BY <1>0 DEF CoroutineInv, RidOK, Locals
<1>n. NewRound(loc[p].uid) \in Round
  BY <1>r DEF NewRound, Round, Statuses
<1>1. CASE initByRoom(p)
  <2>1. "create_done" \in PCs \ {"create"} /\ "create_done" \notin NeedsRid
    BY DEF PCs, CreatePcs, NeedsRid, TimerPcs
  <2>2. Settles
    BY <1>0, <1>1, <2>1, GotoType DEF initByRoom
  <2>3. rounds' \in [Rids -> Seq(Round)] /\ ready' \in [Rids -> Nat]
    <3>1. <<NewRound(loc[p].uid)>> \in Seq(Round)
      BY <1>n
    <3>2. CASE rounds[loc[p].rid] = <<>>
      <4>1. /\ rounds' = [rounds EXCEPT ![loc[p].rid] = <<NewRound(loc[p].uid)>>]
            /\ ready' = [ready EXCEPT ![loc[p].rid] = 0]
        BY <1>1, <3>2, Zenon DEF initByRoom
      <4> QED
        BY <1>0, <3>1, <4>1 DEF DataOK
    <3>3. CASE rounds[loc[p].rid] # <<>>
      BY <1>0, <1>1, <3>3 DEF initByRoom, DataOK
    <3> QED
      BY <3>2, <3>3
  <2>4. DataOK'
    BY <1>0, <1>q, <1>1, <2>3 DEF initByRoom, DataOK, QueueType, Serving
  <2> QED
    BY <1>1, <2>2, <2>4, SettledStep DEF initByRoom
<1>2. CASE closeRound(p)
  <2>1. "next_init" \in PCs \ {"create"} /\ "next_close" \in NeedsRid
    BY DEF PCs, NeedsRid, TimerPcs
  <2>2. Settles
    BY <1>0, <1>2, <1>r, <2>1, GotoType DEF closeRound
  <2>3. queue' \in QueueType
    <3>1. Leave(queue, "game") \in QueueType
      BY <1>2, <1>q DEF closeRound, Serving
    <3> QED
      BY <1>2, <1>q, <3>1, EnterType DEF closeRound
  <2>4. DataOK'
    BY <1>0, <1>2, <2>3 DEF closeRound, close_timeout, DataOK, QueueType
  <2> QED
    BY <1>2, <2>2, <2>4, SettledStep DEF closeRound
<1>3. CASE initByRound(p)
  <2>1. Settles
    BY <1>0, <1>3, FinishType DEF initByRound
  <2>2. rounds' \in [Rids -> Seq(Round)]
    <3>1. \A f \in Seq(Round) : Append(f, NewRound(loc[p].uid)) \in Seq(Round)
      BY <1>n, AppendProperties
    <3> QED
      BY <1>0, <1>3, <3>1 DEF initByRound, DataOK
  <2>3. DataOK'
    BY <1>0, <1>q, <1>3, <2>2 DEF initByRound, DataOK, QueueType, Serving
  <2> QED
    BY <1>3, <2>1, <2>3, SettledStep DEF initByRound
<1>4. CASE gameAction_refuse(p)
  <2>1. "act_end" \in PCs \ {"create"} /\ "act_end" \notin NeedsRid
    BY DEF PCs, ActionPcs, NeedsRid, TimerPcs
  <2>2. Settles
    BY <1>0, <1>4, <2>1, GotoType DEF gameAction_refuse
  <2>3. DataOK'
    BY <1>0, <1>4 DEF gameAction_refuse, DataOK
  <2> QED
    BY <1>4, <2>2, <2>3, SettledStep DEF gameAction_refuse
<1>p. ASSUME InFight(loc[p].uid)
      PROVE  [loc[p] EXCEPT !.rid = players[loc[p].uid].rid] \in Locals
  <2>1. players[loc[p].uid].rid \in Rids \cup {NoRid}
    BY <1>0, <1>p DEF InFight, DataOK, Player
  <2> QED
    BY <1>0, <2>1 DEF CoroutineInv, Locals
<1>5. CASE gameAction_ready(p)
  <2> DEFINE v == [loc[p] EXCEPT !.rid = players[loc[p].uid].rid]
  <2>1. "ready_bcast" \in PCs \ {"create"} /\ "ready_bcast" \notin NeedsRid
    BY DEF PCs, ActionPcs, NeedsRid, TimerPcs
  <2>2. v \in Locals /\ Moves(p, "ready_bcast", v)
    BY <1>0, <1>5, <1>p DEF gameAction_ready, Moves, CoroutineInv
  <2>3. Settles
    BY <1>0, <2>1, <2>2, MoveType DEF Settles
  <2>4. DataOK'
    BY <1>0, <1>q, <1>5 DEF gameAction_ready, DataOK, QueueType
  <2> QED
    BY <1>5, <2>3, <2>4, SettledStep DEF gameAction_ready
<1>6. CASE gameAction_bet(p)
  <2> DEFINE v == [loc[p] EXCEPT !.rid = players[loc[p].uid].rid]
  <2>1. /\ {"act_end", "betmsg_bcast"} \subseteq PCs \ {"create"}
        /\ "act_end" \notin NeedsRid /\ "betmsg_bcast" \notin NeedsRid
    BY DEF PCs, ActionPcs, NeedsRid, TimerPcs
  <2>2. \/ Goto(p, "act_end")
        \/ v \in Locals /\ Moves(p, "betmsg_bcast", v)
    BY <1>0, <1>6, <1>p DEF gameAction_bet, Moves, CoroutineInv
  <2>3. Settles
    BY <1>0, <2>1, <2>2, GotoType, MoveType DEF Settles
  <2>4. DataOK'
    BY <1>0, <1>q, <1>6 DEF gameAction_bet, DataOK, QueueType
  <2> QED
    BY <1>6, <2>3, <2>4, SettledStep DEF gameAction_bet
<1>7. CASE READY_mark(p)
  <2>1. CASE loc[p].rid = NoRid
    <3>1. Settles
      BY <1>0, <1>7, <2>1, AbortType DEF READY_mark
    <3>2. DataOK'
      BY <1>0, <1>7, <2>1 DEF READY_mark, DataOK
    <3> QED
      BY <1>7, <3>1, <3>2, SettledStep DEF READY_mark
  <2>2. CASE loc[p].rid # NoRid
    <3> DEFINE v == [loc[p] EXCEPT !.n = CountReady(loc[p].rid)]
    <3>1. loc[p].rid \in Rids
      BY <1>0, <2>2 DEF CoroutineInv, Locals
    <3>2. CountReady(loc[p].rid) \in Nat
      BY <1>0, <3>1 DEF CountReady, DataOK
    <3>3. v \in Locals /\ v.rid \in Rids
      BY <1>0, <3>1, <3>2 DEF CoroutineInv, Locals
    <3>4. Moves(p, "ready_room", v)
      BY <1>0, <1>7, <2>2 DEF READY_mark, Moves, CoroutineInv
    <3>5. "ready_room" \in PCs \ {"create"}
      BY DEF PCs, ActionPcs
    <3>6. Settles
      BY <1>0, <3>3, <3>4, <3>5, MoveType DEF Settles
    <3>7. DataOK'
      BY <1>0, <1>q, <1>7, <2>2, <3>2 DEF READY_mark, DataOK, QueueType
    <3> QED
      BY <1>7, <3>6, <3>7, SettledStep DEF READY_mark
  <2> QED
    BY <2>1, <2>2
<1>8. CASE READY_full(p)
  <2>1. /\ {"act_end", "push_seat", "push_one"} \subseteq PCs \ {"create"}
        /\ "act_end" \notin NeedsRid /\ "push_one" \notin NeedsRid
    BY DEF PCs, ActionPcs, NeedsRid, TimerPcs
  <2>2. loc[p].rid \in Rids
    BY <1>r, <1>8 DEF READY_full, NeedsRid
  <2>3. DataOK'
    BY <1>0, <1>q, <1>8 DEF READY_full, DataOK, QueueType
  <2> DEFINE r == loc[p].rid
             v == [loc[p] EXCEPT !.idx = Latest(r), !.uid = rounds[r][Latest(r)].seat]
  <2>4. CASE Goto(p, "act_end") \/ Goto(p, "push_one")
    BY <1>0, <1>8, <2>1, <2>3, <2>4, GotoType, SettledStep DEF READY_full
  <2>5. CASE Latest(r) # 0 /\ Moves(p, "push_seat", v)
    <3>1. Latest(r) \in Nat /\ rounds[r][Latest(r)] \in Round
      BY <1>0, <2>2, <2>5 DEF DataOK, Latest
    <3>2. v \in Locals /\ v.rid \in Rids
      BY <1>0, <2>2, <3>1 DEF CoroutineInv, Locals, Round
    <3>3. Settles
      BY <1>0, <2>1, <2>5, <3>2, MoveType DEF Settles
    <3> QED
      BY <1>8, <2>3, <3>3, SettledStep DEF READY_full
  <2> QED
    BY <1>0, <1>8, <2>4, <2>5 DEF READY_full, Moves, CoroutineInv
<1>9. CASE BET_init(p)
  <2>1. "bet_bcast" \in PCs \ {"create"} /\ "bet_init" \in NeedsRid
    BY DEF PCs, ActionPcs, NeedsRid
  <2>2. Settles
    BY <1>0, <1>9, <1>r, <2>1, GotoType DEF BET_init
  <2>3. rounds' \in [Rids -> Seq(Round)]
    BY <1>0, <1>9, ChangeStatusType DEF BET_init, DataOK, Statuses
  <2>4. DataOK'
    BY <1>0, <1>q, <1>9, <2>3 DEF BET_init, DataOK, QueueType
  <2> QED
    BY <1>9, <2>2, <2>4, SettledStep DEF BET_init
<1>10. CASE BET_arm(p)
  <2>1. "act_end" \in PCs \ {"create"} /\ "act_end" \notin NeedsRid /\ "bet_arm" \in NeedsRid
    BY DEF PCs, ActionPcs, NeedsRid, TimerPcs
  <2>2. Settles
    BY <1>0, <1>10, <2>1, GotoType DEF BET_arm
  <2>3. armed' \subseteq Timer
    BY <1>0, <1>r, <1>10, <2>1, CreateTimeoutType DEF BET_arm, DataOK
  <2>4. DataOK'
    BY <1>0, <1>10, <2>3 DEF BET_arm, DataOK
  <2> QED
    BY <1>10, <2>2, <2>4, SettledStep DEF BET_arm
<1>11. CASE gameAction_end(p)
  <2>1. Settles
    BY <1>0, <1>11, FinishType DEF gameAction_end
  <2>2. DataOK'
    BY <1>0, <1>q, <1>11 DEF gameAction_end, DataOK, QueueType, Serving
  <2> QED
    BY <1>11, <2>1, <2>2, SettledStep DEF gameAction_end
<1>12. CASE DEAL_cards(p)
  <2>1. "deal_bcast2" \in PCs \ {"create"} /\ "deal_cards" \in NeedsRid
    BY DEF PCs, TimerPcs, NeedsRid
  <2>2. Settles
    BY <1>0, <1>r, <1>12, <2>1, GotoType DEF DEAL_cards
  <2>3. DataOK'
    BY <1>0, <1>q, <1>12 DEF DEAL_cards, DataOK, QueueType
  <2> QED
    BY <1>12, <2>2, <2>3, SettledStep DEF DEAL_cards
<1>13. CASE DEAL_arm(p)
  <2>1. Settles
    BY <1>0, <1>13, FinishType DEF DEAL_arm
  <2>2. armed' \subseteq Timer
    BY <1>0, <1>r, <1>13, CreateTimeoutType DEF DEAL_arm, DataOK, TimerPcs, NeedsRid
  <2>3. DataOK'
    BY <1>0, <1>13, <2>2 DEF DEAL_arm, DataOK
  <2> QED
    BY <1>13, <2>1, <2>3, SettledStep DEF DEAL_arm
<1>14. CASE ENDED_next(p)
  <2>1. "closed_bcast" \in PCs \ {"create"} /\ "ended_next" \in NeedsRid
    BY DEF PCs, TimerPcs, NeedsRid
  <2>2. Settles
    BY <1>0, <1>r, <1>14, <2>1, GotoType, FinishType DEF ENDED_next
  <2>3. rounds' \in [Rids -> Seq(Round)]
    BY <1>0, <1>14, ChangeStatusType DEF ENDED_next, DataOK, Statuses
  <2>4. armed' \subseteq Timer
    BY <1>0, <1>r, <1>14, <2>1, CreateTimeoutType DEF ENDED_next, DataOK
  <2>5. DataOK'
    BY <1>0, <1>q, <1>14, <2>3, <2>4 DEF ENDED_next, DataOK, QueueType
  <2> QED
    BY <1>14, <2>2, <2>5, SettledStep DEF ENDED_next
<1>15. CASE CLOSED_close(p)
  <2>1. "close_room" \in PCs \ {"create"} /\ "closed_close" \in NeedsRid
    BY DEF PCs, TimerPcs, NeedsRid
  <2>2. Settles
    BY <1>0, <1>r, <1>15, <2>1, GotoType DEF CLOSED_close
  <2>3. DataOK'
    BY <1>0, <1>q, <1>15 DEF CLOSED_close, close_timeout, DataOK, QueueType
  <2> QED
    BY <1>15, <2>2, <2>3, SettledStep DEF CLOSED_close
<1> QED
  BY <1>1, <1>2, <1>3, <1>4, <1>5, <1>6, <1>7, <1>8, <1>9, <1>10, <1>11, <1>12, <1>13,
     <1>14, <1>15 DEF GameStep

LEMMA ClientStepType ==
    ASSUME TypeInv, Clients
    PROVE  TypeInv'
<1> USE DEF hallVars, gameVars
<1>0. CoroutineInv /\ DataOK /\ CreateBound
  BY TypeInvSplit
<1>1. ASSUME NEW u \in Uids, Login(u) PROVE TypeInv'
  <2>1. DataOK'
    BY <1>0, <1>1, FreshPlayerType DEF Login, login_by_token, DataOK
  <2> QED
    BY <1>0, <1>1, <2>1, SettledStep
       DEF Login, login_by_token, Settles, CoroutineInv, RidOK, CreateByHttp, Creating
<1>2. ASSUME NEW u \in Uids, EnterScene(u) PROVE TypeInv'
  <2>1. \A x \in Player, s \in {"hall", "fight"} :
           [x EXCEPT !.scene = s, !.bound = TRUE] \in Player
    BY DEF Player, Scenes
  <2>2. players' \in [Uids -> Player]
    <3>1. PICK s \in {"hall", "fight"} : chanage_serverScene(u, s)
      BY <1>2 DEF EnterScene
    <3>2. players' = [players EXCEPT ![u] = [players[u] EXCEPT !.scene = s, !.bound = TRUE]]
      BY <1>0, <3>1 DEF chanage_serverScene, DataOK
    <3> QED
      BY <1>0, <2>1, <3>2 DEF DataOK
  <2>3. DataOK'
    BY <1>0, <1>2, <2>2 DEF EnterScene, chanage_serverScene, DataOK
  <2> QED
    BY <1>0, <1>2, <2>3, SettledStep
       DEF EnterScene, chanage_serverScene, Settles, CoroutineInv, RidOK, CreateByHttp,
           Creating
<1>3. ASSUME NEW p \in Https, NEW u \in Uids, RequestRoom(p, u) PROVE TypeInv'
  <2>1. p \in Procs
    BY DEF Procs
  <2>2. Enter(queue, "hall", p) \in [Services -> Seq(Procs)]
    BY <1>0, <2>1, EnterType DEF DataOK, QueueType, Services
  <2>3. NoAnswer \in Answer
    BY DEF NoAnswer, Answer, AnswerCodes, NoRid
  <2>4. DataOK'
    BY <1>0, <1>3, <2>2, <2>3 DEF RequestRoom, DataOK
  <2>5. CoroutineInv'
    <3>1. \A x \in Locals : [x EXCEPT !.uid = u] \in Locals /\ [x EXCEPT !.uid = u].rid = x.rid
      BY DEF Locals
    <3>2. "create" \in PCs /\ "create" \notin NeedsRid
      BY DEF PCs, CreatePcs, NeedsRid, TimerPcs
    <3> QED
      BY <1>0, <1>3, <2>1, <3>1, <3>2
         DEF RequestRoom, CoroutineInv, RidOK, CreateByHttp
  <2>6. Creating' = Creating \cup {p} /\ p \notin Creating
    BY <1>0, <1>3, <2>1 DEF RequestRoom, Creating, CoroutineInv
  <2>7. IsFiniteSet(Creating) /\ Cardinality(Creating) \in Nat
    BY FS_Subset, FS_CardinalityType, TableAssumption DEF Creating
  <2>8. Cardinality(Creating') = Cardinality(Creating) + 1
    BY <2>6, <2>7, FS_AddElement
  <2>9. CreateBound'
    BY <1>0, <1>3, <2>7, <2>8, TableAssumption DEF RequestRoom, CreateBound, DataOK
  <2> QED
    BY <2>4, <2>5, <2>9 DEF TypeInv, TypeOK, DataOK, CoroutineInv
<1>4. ASSUME NEW p \in Wss, NEW u \in Uids \cup {NoUid},
             NEW msg \in {"action_ready", "action_bet"}, RequestAction(p, u, msg)
      PROVE  TypeInv'
  <2> DEFINE v == [loc[p] EXCEPT !.uid = u]
  <2>1. p \in Procs
    BY DEF Procs
  <2>2. Enter(queue, "game", p) \in [Services -> Seq(Procs)]
    BY <1>0, <2>1, EnterType DEF DataOK, QueueType, Services
  <2>3. DataOK'
    BY <1>0, <1>4, <2>2 DEF RequestAction, DataOK
  <2>4. v \in Locals /\ Moves(p, msg, v)
    BY <1>0, <1>4, <2>1 DEF RequestAction, CoroutineInv, Locals, Moves
  <2>5. msg \in PCs \ {"create"} /\ msg \notin NeedsRid
    BY DEF PCs, ActionPcs, NeedsRid, TimerPcs
  <2>6. Settles
    BY <1>0, <2>1, <2>4, <2>5, MoveType DEF Settles
  <2> QED
    BY <1>4, <2>3, <2>6, SettledStep DEF RequestAction
<1> QED
  BY <1>1, <1>2, <1>3, <1>4 DEF Clients

LEMMA FireType ==
    ASSUME TypeInv, NEW p \in Timers, NEW t \in armed, fire(p, t)
    PROVE  TypeInv'
<1> USE DEF hallVars, gameVars
<1> DEFINE v == [loc[p] EXCEPT !.rid = t.rid, !.idx = t.idx]
<1>0. CoroutineInv /\ DataOK /\ p \in Procs
  BY TypeInvSplit DEF Procs
<1>1. t.rid \in Rids /\ t.idx \in Nat /\ t.kind \in {"BET", "DEAL", "ENDED"}
  BY <1>0 DEF DataOK, Timer
<1>2. v \in Locals /\ v.rid \in Rids /\ Moves(p, LabelAfter[t.kind], v)
  BY <1>0, <1>1 DEF fire, Moves, CoroutineInv, Locals
<1>3. LabelAfter[t.kind] \in PCs \ {"create"}
  BY <1>1 DEF LabelAfter, PCs, TimerPcs
<1>4. Settles
  BY <1>0, <1>2, <1>3, MoveType DEF Settles
<1>5. rounds' \in [Rids -> Seq(Round)]
  <2>1. t.kind # "ENDED" => StatusAfter[t.kind] \in Statuses
    BY <1>1 DEF StatusAfter, Statuses
  <2> QED
    BY <1>0, <2>1, ChangeStatusType DEF fire, DataOK
<1>6. queue' \in [Services -> Seq(Procs)]
  BY <1>0, EnterType DEF fire, DataOK, QueueType, Services
<1>7. DataOK'
  BY <1>0, <1>5, <1>6 DEF fire, DataOK
<1> QED
  BY <1>4, <1>7, SettledStep DEF fire

LEMMA TypeStep == TypeInv /\ [Next]_vars => TypeInv'
<1> SUFFICES ASSUME TypeInv, [Next]_vars PROVE TypeInv'
  OBVIOUS
<1>1. CASE Clients
  BY <1>1, ClientStepType
<1>2. ASSUME NEW p \in Procs, HallStep(p) \/ GameStep(p) PROVE TypeInv'
  BY <1>2, HallStepType, GameStepType
<1>3. CASE Fire
  BY <1>3, FireType DEF Fire
<1>4. CASE UNCHANGED vars
  BY <1>4 DEF vars, hallVars, gameVars, TypeInv, TypeOK, RidOK, CreateByHttp, CreateBound,
              Creating
<1> QED
  BY <1>1, <1>2, <1>3, <1>4 DEF Next

LEMMA TypeInvariant == Spec => []TypeInv
<1>1. TypeInv /\ [Next]_vars => TypeInv'
  BY TypeStep
<1> QED
  BY <1>1, TypeInit, PTL DEF Spec

\* Every variable keeps its type, whatever the number of users, rooms and coroutines:
\* in particular createRoom never runs out of the ids it was promised, and no
\* coroutine reaches for a room without holding a room's id.
THEOREM TypeCorrect == Spec => []TypeOK
<1>1. TypeInv => TypeOK
  BY DEF TypeInv
<1> QED
  BY <1>1, TypeInvariant, PTL

-----------------------------------------------------------------------------
(* What srv_token_login says of a player's room agrees with what           *)
(* srv_hall_room knows, at every point where either is suspended, and two  *)
(* live rooms never share a code.                                          *)

\* Labels at which a coroutine is inside createRoom, past its checks, or inside
\* closeRoom, past deleteRoom.
InHall == {"create_setrid", "create_store", "create_init", "create_done", "close_exit"}

\* The hall's queue has admitted whoever is there, hence at most one coroutine is.
HallExclusive == \A p \in Procs : pc[p] \in InHall => Serving("hall", p)

\* Only players who are online are in rooms.
OfflineInNoRoom == \A u \in Uids : ~players[u].on => players[u].rid = NoRid

\* No live room has an id that was not handed out yet.
RidsHandedOut == \A r \in Rids : rooms[r] # NoRoom => r <= ridIndex

\* The room that createRoom is about to store has an id that is in no use and a code
\* that no live room has.
NewRoomIsNew ==
    \A p \in Procs : pc[p] \in {"create_setrid", "create_store"} =>
        /\ loc[p].rid \in Rids
        /\ loc[p].rid <= ridIndex
        /\ rooms[loc[p].rid] = NoRoom
        /\ \A r \in Rids : rooms[r] # NoRoom => rooms[r].code # loc[p].code

\* The inductive invariant.
HallInv ==
    /\ HallExclusive /\ OfflineInNoRoom /\ RidsHandedOut /\ NewRoomIsNew
    /\ RidPointsToRoom /\ RoomCodesUnique


\* Nobody but p loses the hall.
HallKept(p) == \A q \in Procs \ {p} : Serving("hall", q) => Serving("hall", q)'

\* A step of p that is not about rooms and leaves p outside createRoom and closeRoom.
Quiet(p) ==
    /\ pc[p] \notin InHall
    /\ \E l \in PCs \ InHall : \E v : Moves(p, l, v)
    /\ UNCHANGED <<players, rooms, ridIndex>>

-----------------------------------------------------------------------------
LEMMA HallKeptByHolder ==
    ASSUME NEW p \in Procs, Serving("hall", p)
    PROVE  HallKept(p)
BY DEF HallKept, Serving

LEMMA HallKeptByOther ==
    ASSUME queue \in QueueType, NEW p \in Procs,
           \/ queue'["hall"] = queue["hall"]
           \/ queue' = Enter(queue, "hall", p)
    PROVE  HallKept(p)
<1>1. CASE queue'["hall"] = queue["hall"]
  BY <1>1 DEF HallKept, Serving
<1>2. CASE queue' = Enter(queue, "hall", p)
  <2> SUFFICES ASSUME NEW q \in Procs, Serving("hall", q)
               PROVE  Serving("hall", q)'
    BY DEF HallKept
  <2>1. queue["hall"] \in Seq(Procs) /\ queue["hall"] # <<>>
    BY DEF QueueType, Services, Serving
  <2>2. queue'["hall"] = Append(queue["hall"], p)
    BY <1>2 DEF Enter, QueueType, Services
  <2>3. queue'["hall"] # <<>> /\ Head(queue'["hall"]) = Head(queue["hall"])
    BY <2>1, <2>2, HeadTailAppend, AppendProperties
  <2> QED
    BY <2>3 DEF Serving
<1> QED
  BY <1>1, <1>2

LEMMA QuietStep ==
    ASSUME TypeInv, HallInv, NEW p \in Procs, Quiet(p), HallKept(p)
    PROVE  HallInv'
<1> PICK l \in PCs \ InHall : \E v : Moves(p, l, v)
  BY DEF Quiet
<1> PICK v : Moves(p, l, v)
  OBVIOUS
<1>1. /\ pc \in [Procs -> PCs] /\ loc \in [Procs -> Locals]
      /\ pc'[p] \notin InHall /\ pc[p] \notin InHall
      /\ \A q \in Procs \ {p} : pc'[q] = pc[q] /\ loc'[q] = loc[q]
      /\ UNCHANGED <<players, rooms, ridIndex>>
  BY DEF Moves, Quiet, TypeInv, TypeOK
<1>2. HallExclusive'
  BY <1>1 DEF HallExclusive, HallKept, HallInv
<1>3. OfflineInNoRoom' /\ RidsHandedOut' /\ RoomCodesUnique'
  BY <1>1 DEF OfflineInNoRoom, RidsHandedOut, RoomCodesUnique, HallInv
<1>4. NewRoomIsNew'
  BY <1>1 DEF NewRoomIsNew, HallInv, InHall
<1>5. RidPointsToRoom'
  BY <1>1 DEF RidPointsToRoom, HallInv, InHall
<1> QED
  BY <1>2, <1>3, <1>4, <1>5 DEF HallInv

-----------------------------------------------------------------------------
LEMMA HallInit == Init => HallInv
BY DEF Init, HallInv, HallExclusive, OfflineInNoRoom, RidsHandedOut, NewRoomIsNew,
       RidPointsToRoom, RoomCodesUnique, InHall, OfflinePlayer, FreshPlayer

LEMMA HallStepInv ==
    ASSUME TypeInv, HallInv, NEW p \in Procs, HallStep(p)
    PROVE  HallInv'
<1> USE DEF hallVars
<1>0. Serving("hall", p) /\ HallKept(p)
  BY HallKeptByHolder
     DEF HallStep, createRoom_refuse, createRoom_allocate, createRoom_setRid, createRoom_store,
         createRoom_return, closeRoom_delete, closeRoom_exit, broadcastRoom, broadcastByUid,
         broadcastByUids, getRoomByRoomId
\* Whoever else is inside createRoom or closeRoom would hold the hall as well.
<1>1. \A q \in Procs \ {p} : pc[q] \notin InHall
  BY <1>0 DEF HallInv, HallExclusive, Serving
<1>t. /\ pc \in [Procs -> PCs] /\ loc \in [Procs -> Locals]
      /\ players \in [Uids -> Player] /\ rooms \in [Rids -> Room]
      /\ ridIndex \in 0 .. MaxRooms
  BY DEF TypeInv, TypeOK
<1>a. ASSUME Abort(p) PROVE \E l \in PCs \ InHall : \E v : Moves(p, l, v)
  BY <1>a, <1>t, GotoMoves, FinishMoves DEF Abort, InHall, PCs, ActionPcs
<1>2. CASE createRoom_refuse(p)
  BY <1>0, <1>2, QuietStep, FinishMoves DEF createRoom_refuse, Quiet, InHall, PCs
<1>3. CASE broadcastRoom(p)
  <2> DEFINE l == AfterBroadcast[pc[p]]
  <2>1. l \in PCs \ InHall /\ pc[p] \notin InHall
    BY <1>3 DEF broadcastRoom, AfterBroadcast, PCs, ActionPcs, TimerPcs, InHall
  <2>2. Abort(p) \/ Goto(p, l)
    BY <1>3 DEF broadcastRoom
  <2>3. \E m \in PCs \ InHall : \E v : Moves(p, m, v)
    BY <1>a, <1>t, <2>1, <2>2, GotoMoves
  <2> QED
    BY <1>0, <1>3, <2>1, <2>3, QuietStep DEF broadcastRoom, Quiet
<1>4. CASE broadcastByUid(p)
  <2>1. Abort(p) \/ Goto(p, "push_watch") \/ Goto(p, "act_end")
    BY <1>4 DEF broadcastByUid
  <2>2. {"push_watch", "act_end"} \subseteq PCs \ InHall
    BY DEF PCs, ActionPcs, InHall
  <2>3. \E m \in PCs \ InHall : \E v : Moves(p, m, v)
    BY <1>a, <1>t, <2>1, <2>2, GotoMoves
  <2> QED
    BY <1>0, <1>4, <2>3, QuietStep DEF broadcastByUid, Quiet, InHall
<1>5. CASE broadcastByUids(p)
  <2>1. "bet_init" \in PCs \ InHall
    BY DEF PCs, ActionPcs, InHall
  <2> QED
    BY <1>0, <1>5, <1>t, <2>1, GotoMoves, QuietStep DEF broadcastByUids, Quiet, InHall
<1>6. CASE getRoomByRoomId(p)
  <2>1. \/ Goto(p, "ready_full") \/ Finish(p)
        \/ Moves(p, "next_close", [loc[p] EXCEPT !.uid = rooms[loc[p].rid].seat])
    BY <1>6, <1>t DEF getRoomByRoomId, Moves
  <2>2. {"ready_full", "idle", "next_close"} \subseteq PCs \ InHall
    BY DEF PCs, ActionPcs, TimerPcs, InHall
  <2>3. \E m \in PCs \ InHall : \E v : Moves(p, m, v)
    BY <1>t, <2>1, <2>2, GotoMoves, FinishMoves
  <2> QED
    BY <1>0, <1>6, <2>3, QuietStep DEF getRoomByRoomId, Quiet, InHall
<1>7. CASE createRoom_allocate(p)
  <2> DEFINE r0 == ridIndex + 1
  <2>0. r0 \in Rids /\ ridIndex \in Nat
    <3>1. TypeInv'
      BY <1>7, HallStepType DEF HallStep
    <3> QED
      BY <1>t, <1>7, <3>1, TableAssumption
         DEF createRoom_allocate, getCurrentRoomId, TypeInv, TypeOK, Rids
  <2>1. PICK c \in Codes :
          /\ ~judge_roomcode_repeat(c)
          /\ loc' = [loc EXCEPT ![p].rid = r0, ![p].code = c]
    BY <1>7 DEF createRoom_allocate, getCurrentRoomId
  <2>2. /\ pc'[p] = "create_setrid" /\ loc'[p].rid = r0 /\ loc'[p].code = c
        /\ \A q \in Procs \ {p} : pc'[q] = pc[q] /\ loc'[q] = loc[q]
        /\ ridIndex' = r0 /\ UNCHANGED <<players, rooms, queue>>
    BY <1>7, <1>t, <2>1 DEF createRoom_allocate, getCurrentRoomId, Locals
  <2>3. rooms[r0] = NoRoom
    BY <2>0 DEF HallInv, RidsHandedOut
  <2>4. HallExclusive'
    BY <1>0, <1>1, <2>2 DEF HallExclusive, Serving
  <2>5. OfflineInNoRoom' /\ RoomCodesUnique'
    BY <2>2 DEF OfflineInNoRoom, RoomCodesUnique, HallInv
  <2>6. RidsHandedOut'
    BY <2>0, <2>2 DEF RidsHandedOut, HallInv, Rids
  <2>7. NewRoomIsNew'
    <3>1. \A q \in Procs : pc'[q] \in {"create_setrid", "create_store"} => q = p
      BY <1>1, <2>2 DEF InHall
    <3>2. \A r \in Rids : rooms[r] # NoRoom => rooms[r].code # c
      BY <2>1 DEF judge_roomcode_repeat
    <3>3. r0 <= r0
      BY <2>0
    <3> QED
      BY <2>0, <2>2, <2>3, <3>1, <3>2, <3>3 DEF NewRoomIsNew
  <2>8. RidPointsToRoom'
    BY <1>1, <1>7, <2>2 DEF RidPointsToRoom, HallInv, InHall, createRoom_allocate
  <2> QED
    BY <2>4, <2>5, <2>6, <2>7, <2>8 DEF HallInv
<1>8. CASE createRoom_setRid(p)
  <2>1. /\ pc[p] = "create_setrid" /\ pc'[p] = "create_store"
        /\ \A q \in Procs \ {p} : pc'[q] = pc[q]
        /\ UNCHANGED <<loc, rooms, ridIndex, queue>>
    BY <1>8, <1>t DEF createRoom_setRid, Goto
  <2>2. \A u \in Uids : players'[u].on = players[u].on
    BY <1>8, <1>t DEF createRoom_setRid, setRidWithUid, Player
  <2>3. \A u \in Uids : \/ players'[u].rid = players[u].rid
                        \/ players[u].on /\ u = loc[p].uid /\ players'[u].rid = loc[p].rid
    <3> SUFFICES ASSUME NEW u \in Uids, players'[u].rid # players[u].rid
                 PROVE  players[u].on /\ u = loc[p].uid /\ players'[u].rid = loc[p].rid
      OBVIOUS
    <3>1. players[u] \in Player /\ players' = setRidWithUid(loc[p].rid, loc[p].uid)
      BY <1>8, <1>t DEF createRoom_setRid
    <3>2. u = loc[p].uid
      BY <1>t, <3>1 DEF setRidWithUid
    <3>3. players'[u] = [players[u] EXCEPT
                           !.rid = IF players[u].on THEN loc[p].rid ELSE players[u].rid]
      BY <1>t, <3>1, <3>2 DEF setRidWithUid
    <3> QED
      BY <3>1, <3>2, <3>3 DEF Player
  <2>4. HallExclusive' /\ RidsHandedOut' /\ RoomCodesUnique'
    BY <1>0, <1>1, <2>1
       DEF HallExclusive, RidsHandedOut, RoomCodesUnique, HallInv, Serving
  <2>5. OfflineInNoRoom'
    BY <2>2, <2>3 DEF OfflineInNoRoom, HallInv
  <2>6. NewRoomIsNew'
    BY <1>1, <2>1 DEF NewRoomIsNew, HallInv, InHall
  <2>7. RidPointsToRoom'
    BY <1>1, <2>1, <2>3 DEF RidPointsToRoom, HallInv, InHall
  <2> QED
    BY <2>4, <2>5, <2>6, <2>7 DEF HallInv
<1>9. CASE createRoom_store(p)
  <2> DEFINE new == [code |-> loc[p].code, seat |-> loc[p].uid]
             r0  == loc[p].rid
  <2>1. /\ pc[p] = "create_store" /\ pc'[p] = "create_init"
        /\ \A q \in Procs \ {p} : pc'[q] = pc[q]
        /\ UNCHANGED <<loc, players, ridIndex>>
        /\ rooms' = [rooms EXCEPT ![r0] = new]
        /\ queue' = Enter(queue, "game", p)
    BY <1>9, <1>t DEF createRoom_store, Goto
  <2>2. /\ r0 \in Rids /\ r0 <= ridIndex /\ rooms[r0] = NoRoom
        /\ \A r \in Rids : rooms[r] # NoRoom => rooms[r].code # new.code
    BY <2>1 DEF NewRoomIsNew, HallInv
  <2>3. rooms'[r0] = new /\ \A r \in Rids \ {r0} : rooms'[r] = rooms[r]
    BY <1>t, <2>1, <2>2
  <2>4. HallExclusive'
    BY <1>0, <1>1, <2>1 DEF HallExclusive, Serving, Enter
  <2>5. OfflineInNoRoom' /\ RidsHandedOut'
    BY <2>1, <2>2, <2>3 DEF OfflineInNoRoom, RidsHandedOut, HallInv
  <2>6. NewRoomIsNew'
    BY <1>1, <2>1 DEF NewRoomIsNew, InHall
  <2>7. RoomCodesUnique'
    BY <2>2, <2>3 DEF RoomCodesUnique, HallInv
  <2>8. RidPointsToRoom'
    <3> SUFFICES ASSUME NEW u \in Uids, players[u].rid # NoRid
                 PROVE  rooms'[players[u].rid].seat = u
      BY <2>1 DEF RidPointsToRoom
    <3>1. players[u].rid \in Rids
      BY <1>t DEF Player
    <3>2. \/ rooms[players[u].rid].seat = u
          \/ players[u].rid = r0 /\ loc[p].uid = u
      BY <1>1, <2>1 DEF RidPointsToRoom, HallInv, InHall
    <3>3. rooms[r0].seat # u
      BY <2>2, TableAssumption DEF NoRoom
    <3> QED
      BY <2>3, <3>1, <3>2, <3>3
  <2> QED
    BY <2>4, <2>5, <2>6, <2>7, <2>8 DEF HallInv
<1>10. CASE createRoom_return(p)
  <2>1. /\ pc[p] = "create_done" /\ pc'[p] = "idle"
        /\ \A q \in Procs \ {p} : pc'[q] = pc[q] /\ loc'[q] = loc[q]
        /\ UNCHANGED <<players, rooms, ridIndex>>
    BY <1>10, <1>t DEF createRoom_return, Finish
  <2>2. HallExclusive' /\ OfflineInNoRoom' /\ RidsHandedOut' /\ RoomCodesUnique'
    BY <1>1, <2>1
       DEF HallExclusive, OfflineInNoRoom, RidsHandedOut, RoomCodesUnique, HallInv, InHall
  <2>3. NewRoomIsNew' /\ RidPointsToRoom'
    BY <1>1, <2>1 DEF NewRoomIsNew, RidPointsToRoom, HallInv, InHall
  <2> QED
    BY <2>2, <2>3 DEF HallInv
<1>11. CASE closeRoom_delete(p)
  <2> DEFINE r0 == loc[p].rid
  <2>1. CASE rooms[r0] = NoRoom
    <3>1. Abort(p) /\ pc[p] \notin InHall /\ UNCHANGED <<players, rooms, ridIndex>>
      BY <1>11, <2>1 DEF closeRoom_delete, InHall
    <3> QED
      BY <1>0, <1>a, <3>1, QuietStep DEF Quiet
  <2>2. CASE rooms[r0] # NoRoom
    <3>1. /\ pc[p] = "close_room" /\ pc'[p] = "close_exit"
          /\ loc'[p].rid = r0 /\ loc'[p].uid = rooms[r0].seat
          /\ \A q \in Procs \ {p} : pc'[q] = pc[q] /\ loc'[q] = loc[q]
          /\ rooms' = [rooms EXCEPT ![r0] = NoRoom]
          /\ UNCHANGED <<players, ridIndex, queue>>
      BY <1>11, <1>t, <2>2 DEF closeRoom_delete, Locals
    <3>2. r0 \in Rids
      BY <3>1 DEF TypeInv, RidOK, NeedsRid, TimerPcs
    <3>3. rooms'[r0] = NoRoom /\ \A r \in Rids \ {r0} : rooms'[r] = rooms[r]
      BY <1>t, <3>1, <3>2
    <3>4. HallExclusive'
      BY <1>0, <1>1, <3>1 DEF HallExclusive, Serving
    <3>5. OfflineInNoRoom' /\ RidsHandedOut' /\ RoomCodesUnique'
      BY <3>1, <3>3 DEF OfflineInNoRoom, RidsHandedOut, RoomCodesUnique, HallInv
    <3>6. NewRoomIsNew'
      BY <1>1, <3>1 DEF NewRoomIsNew, InHall
    <3>7. RidPointsToRoom'
      <4> SUFFICES ASSUME NEW u \in Uids, players[u].rid # NoRid
                   PROVE  \/ rooms'[players[u].rid].seat = u
                          \/ players[u].rid = r0 /\ rooms[r0].seat = u
        BY <3>1 DEF RidPointsToRoom
      <4>1. players[u].rid \in Rids
        BY <1>t DEF Player
      <4>2. rooms[players[u].rid].seat = u
        BY <1>1, <3>1 DEF RidPointsToRoom, HallInv, InHall
      <4> QED
        BY <3>3, <4>1, <4>2
    <3> QED
      BY <3>4, <3>5, <3>6, <3>7 DEF HallInv
  <2> QED
    BY <2>1, <2>2
<1>12. CASE closeRoom_exit(p)
  <2>1. /\ pc[p] = "close_exit" /\ pc'[p] = "idle"
        /\ \A q \in Procs \ {p} : pc'[q] = pc[q] /\ loc'[q] = loc[q]
        /\ UNCHANGED <<rooms, ridIndex>>
        /\ players' = ExitRoomWithUid(loc[p].uid)
    BY <1>12, <1>t DEF closeRoom_exit, Finish
  <2>2. \A u \in Uids : /\ u = loc[p].uid => players'[u].rid = NoRid
                        /\ u # loc[p].uid => players'[u].rid = players[u].rid
                        /\ players'[u].on = players[u].on
    BY <1>t, <2>1 DEF ExitRoomWithUid, HallInv, OfflineInNoRoom, Player
  <2>3. HallExclusive' /\ RidsHandedOut' /\ RoomCodesUnique'
    BY <1>1, <2>1 DEF HallExclusive, RidsHandedOut, RoomCodesUnique, HallInv, InHall
  <2>4. OfflineInNoRoom'
    BY <2>2 DEF OfflineInNoRoom, HallInv
  <2>5. NewRoomIsNew'
    <3>1. \A q \in Procs : pc'[q] \notin {"create_setrid", "create_store"}
      BY <1>1, <2>1 DEF InHall
    <3> QED
      BY <3>1 DEF NewRoomIsNew
  <2>6. RidPointsToRoom'
    <3> SUFFICES ASSUME NEW u \in Uids, players'[u].rid # NoRid
                 PROVE  rooms[players'[u].rid].seat = u
      BY <2>1 DEF RidPointsToRoom
    <3>1. u # loc[p].uid /\ players'[u].rid = players[u].rid
      BY <2>2
    <3> QED
      BY <1>1, <3>1 DEF RidPointsToRoom, HallInv, InHall
  <2> QED
    BY <2>3, <2>4, <2>5, <2>6 DEF HallInv
<1> QED
  BY <1>2, <1>3, <1>4, <1>5, <1>6, <1>7, <1>8, <1>9, <1>10, <1>11, <1>12 DEF HallStep


LEMMA GameStepInv ==
    ASSUME TypeInv, HallInv, NEW p \in Procs, GameStep(p)
    PROVE  HallInv'
<1> USE DEF hallVars, gameVars
<1>t. /\ pc \in [Procs -> PCs] /\ loc \in [Procs -> Locals]
      /\ queue \in QueueType /\ "hall" \in Services /\ "game" \in Services
  BY DEF TypeInv, TypeOK, QueueType, Services
<1>0. HallKept(p)
  <2>1. \/ queue' = queue \/ queue' = Enter(queue, "hall", p)
        \/ queue' = Leave(queue, "game")
        \/ queue' = Enter(Leave(queue, "game"), "game", p)
    BY DEF GameStep, initByRoom, closeRound, initByRound, gameAction_refuse, gameAction_ready,
           gameAction_bet, READY_mark, READY_full, BET_init, BET_arm, gameAction_end,
           DEAL_cards, DEAL_arm, ENDED_next, CLOSED_close
  <2>2. queue'["hall"] = queue["hall"] \/ queue' = Enter(queue, "hall", p)
    BY <1>t, <2>1 DEF Enter, Leave, QueueType
  <2> QED
    BY <1>t, <2>2, HallKeptByOther
<1>1. CASE initByRoom(p)
  <2>1. /\ pc[p] = "create_init" /\ pc'[p] = "create_done"
        /\ \A q \in Procs \ {p} : pc'[q] = pc[q]
        /\ UNCHANGED <<loc, players, rooms, ridIndex>>
        /\ queue'["hall"] = queue["hall"]
    BY <1>1, <1>t DEF initByRoom, Goto, Leave, QueueType
  <2>2. HallExclusive'
    BY <2>1 DEF HallExclusive, HallInv, InHall, Serving
  <2>3. OfflineInNoRoom' /\ RidsHandedOut' /\ RoomCodesUnique'
    BY <2>1 DEF OfflineInNoRoom, RidsHandedOut, RoomCodesUnique, HallInv
  <2>4. NewRoomIsNew' /\ RidPointsToRoom'
    BY <2>1 DEF NewRoomIsNew, RidPointsToRoom, HallInv
  <2> QED
    BY <2>2, <2>3, <2>4 DEF HallInv
<1>2. CASE ~initByRoom(p)
  <2>1. pc[p] \notin InHall /\ UNCHANGED <<players, rooms, ridIndex>>
    BY <1>2
       DEF GameStep, closeRound, initByRound, gameAction_refuse, gameAction_ready,
           gameAction_bet, READY_mark, READY_full, BET_init, BET_arm, gameAction_end,
           DEAL_cards, DEAL_arm, ENDED_next, CLOSED_close, InHall
  <2>2. /\ {"idle", "act_end", "ready_bcast", "betmsg_bcast", "ready_room", "push_seat",
            "push_one", "bet_bcast", "next_init", "deal_bcast2", "closed_bcast",
            "close_room"} \subseteq PCs \ InHall
    BY DEF PCs, ActionPcs, TimerPcs, InHall
  <2>3. ASSUME closeRound(p) \/ initByRound(p) \/ gameAction_refuse(p)
        PROVE  \E l \in PCs \ InHall : \E v : Moves(p, l, v)
    BY <1>t, <2>2, <2>3, GotoMoves, FinishMoves
       DEF closeRound, initByRound, gameAction_refuse
  <2>4. ASSUME gameAction_ready(p) \/ gameAction_bet(p)
        PROVE  \E l \in PCs \ InHall : \E v : Moves(p, l, v)
    BY <1>t, <2>2, <2>4, GotoMoves DEF gameAction_ready, gameAction_bet, Moves
  <2>5. ASSUME READY_mark(p)
        PROVE  \E l \in PCs \ InHall : \E v : Moves(p, l, v)
    BY <1>t, <2>2, <2>5, GotoMoves, FinishMoves DEF READY_mark, Abort, Moves
  <2>6. ASSUME READY_full(p)
        PROVE  \E l \in PCs \ InHall : \E v : Moves(p, l, v)
    BY <1>t, <2>2, <2>6, GotoMoves DEF READY_full, Moves
  <2>7. ASSUME BET_init(p) \/ BET_arm(p) \/ gameAction_end(p)
        PROVE  \E l \in PCs \ InHall : \E v : Moves(p, l, v)
    BY <1>t, <2>2, <2>7, GotoMoves, FinishMoves DEF BET_init, BET_arm, gameAction_end
  <2>8. ASSUME DEAL_cards(p) \/ DEAL_arm(p) \/ ENDED_next(p) \/ CLOSED_close(p)
        PROVE  \E l \in PCs \ InHall : \E v : Moves(p, l, v)
    BY <1>t, <2>2, <2>8, GotoMoves, FinishMoves
       DEF DEAL_cards, DEAL_arm, ENDED_next, CLOSED_close
  <2>9. \E l \in PCs \ InHall : \E v : Moves(p, l, v)
    BY <1>2, <2>3, <2>4, <2>5, <2>6, <2>7, <2>8 DEF GameStep
  <2> QED
    BY <1>0, <2>1, <2>9, QuietStep DEF Quiet
<1> QED
  BY <1>1, <1>2

\* Logging in and entering a scene leave no trace of an old room.
LEMMA ClientStepInv ==
    ASSUME TypeInv, HallInv, Clients
    PROVE  HallInv'
<1> USE DEF hallVars, gameVars
<1>t. /\ pc \in [Procs -> PCs] /\ loc \in [Procs -> Locals]
      /\ players \in [Uids -> Player]
      /\ queue \in QueueType /\ "hall" \in Services /\ "game" \in Services
  BY DEF TypeInv, TypeOK, QueueType, Services
<1>1. ASSUME NEW w \in Uids, Login(w) \/ EnterScene(w) PROVE HallInv'
  <2>1. UNCHANGED <<rooms, ridIndex, queue, pc, loc>>
    BY <1>1 DEF Login, EnterScene, login_by_token, chanage_serverScene
  <2>2. \A u \in Uids : \/ players'[u].rid = NoRid
                        \/ players'[u].rid = players[u].rid /\ players'[u].on = players[u].on
    <3>1. CASE Login(w)
      BY <1>t, <3>1 DEF Login, login_by_token, FreshPlayer
    <3>2. CASE EnterScene(w)
      BY <1>t, <3>2 DEF EnterScene, chanage_serverScene, Player
    <3> QED
      BY <1>1, <3>1, <3>2
  <2>3. HallExclusive' /\ RidsHandedOut' /\ NewRoomIsNew' /\ RoomCodesUnique'
    BY <2>1 DEF HallExclusive, RidsHandedOut, NewRoomIsNew, RoomCodesUnique, HallInv, Serving
  <2>4. OfflineInNoRoom'
    BY <2>2 DEF OfflineInNoRoom, HallInv
  <2>5. RidPointsToRoom'
    BY <2>1, <2>2 DEF RidPointsToRoom, HallInv
  <2> QED
    BY <2>3, <2>4, <2>5 DEF HallInv
<1>2. ASSUME NEW p \in Https, NEW u \in Uids, RequestRoom(p, u) PROVE HallInv'
  <2>1. HallKept(p) /\ p \in Procs
    BY <1>t, <1>2, HallKeptByOther DEF RequestRoom, Procs
  <2>2. "create" \in PCs \ InHall
    BY DEF PCs, CreatePcs, InHall
  <2>3. Moves(p, "create", [loc[p] EXCEPT !.uid = u])
    BY <1>t, <1>2, <2>1 DEF RequestRoom, Moves
  <2> QED
    BY <1>2, <2>1, <2>2, <2>3, QuietStep DEF RequestRoom, Quiet, InHall
<1>3. ASSUME NEW p \in Wss, NEW u \in Uids \cup {NoUid},
             NEW msg \in {"action_ready", "action_bet"}, RequestAction(p, u, msg)
      PROVE  HallInv'
  <2>1. p \in Procs /\ queue'["hall"] = queue["hall"]
    BY <1>t, <1>3 DEF RequestAction, Procs, Enter, QueueType
  <2>2. HallKept(p)
    BY <1>t, <2>1, HallKeptByOther
  <2>3. msg \in PCs \ InHall
    BY DEF PCs, ActionPcs, InHall
  <2>4. Moves(p, msg, [loc[p] EXCEPT !.uid = u])
    BY <1>t, <1>3, <2>1 DEF RequestAction, Moves
  <2> QED
    BY <1>3, <2>1, <2>2, <2>3, <2>4, QuietStep DEF RequestAction, Quiet, InHall
<1> QED
  BY <1>1, <1>2, <1>3 DEF Clients

LEMMA FireInv ==
    ASSUME TypeInv, HallInv, NEW p \in Timers, NEW t \in armed, fire(p, t)
    PROVE  HallInv'
<1> USE DEF hallVars, gameVars
<1>t. /\ pc \in [Procs -> PCs] /\ loc \in [Procs -> Locals]
      /\ queue \in QueueType /\ p \in Procs /\ t.kind \in {"BET", "DEAL", "ENDED"}
  BY DEF TypeInv, TypeOK, QueueType, Procs, Timer
<1>1. HallKept(p)
  BY <1>t, HallKeptByOther DEF fire
<1>2. LabelAfter[t.kind] \in PCs \ InHall
  BY <1>t DEF LabelAfter, PCs, TimerPcs, InHall
<1>3. Moves(p, LabelAfter[t.kind], [loc[p] EXCEPT !.rid = t.rid, !.idx = t.idx])
  BY <1>t DEF fire, Moves
<1> QED
  BY <1>t, <1>1, <1>2, <1>3, QuietStep DEF fire, Quiet, InHall

LEMMA HallStepAll == TypeInv /\ HallInv /\ [Next]_vars => HallInv'
<1> SUFFICES ASSUME TypeInv, HallInv, [Next]_vars PROVE HallInv'
  OBVIOUS
<1>1. CASE Clients
  BY <1>1, ClientStepInv
<1>2. ASSUME NEW p \in Procs, HallStep(p) \/ GameStep(p) PROVE HallInv'
  BY <1>2, HallStepInv, GameStepInv
<1>3. CASE Fire
  BY <1>3, FireInv DEF Fire
<1>4. CASE UNCHANGED vars
  BY <1>4
     DEF vars, hallVars, HallInv, HallExclusive, OfflineInNoRoom, RidsHandedOut, NewRoomIsNew,
         RidPointsToRoom, RoomCodesUnique, Serving
<1> QED
  BY <1>1, <1>2, <1>3, <1>4 DEF Next

LEMMA HallInvariant == Spec => []HallInv
<1>1. TypeInv /\ HallInv /\ [Next]_vars => HallInv'
  BY HallStepAll
<1> QED
  BY <1>1, HallInit, TypeInvariant, PTL DEF Spec

-----------------------------------------------------------------------------
\* The room that a player's record names (setRidWithUid, ExitRoomWithUid) is a live room
\* in which the player sits, at every point where createRoom or closeRoom may be
\* suspended but the two between their paired updates.
THEOREM RidsPointToRooms == Spec => []RidPointsToRoom
<1>1. HallInv => RidPointsToRoom
  BY DEF HallInv
<1> QED
  BY <1>1, HallInvariant, PTL

\* No two live rooms share a code, although getCurrentRoomCode checks the code long
\* before setRoom stores it.
THEOREM CodesUnique == Spec => []RoomCodesUnique
<1>1. HallInv => RoomCodesUnique
  BY DEF HallInv
<1> QED
  BY <1>1, HallInvariant, PTL

-----------------------------------------------------------------------------
(* What gameAction relies on while it is suspended in the hall, and what   *)
(* createRoom relies on while it waits for the game service: the count of  *)
(* players, the latest round, the new room and the rid of its player stay  *)
(* what they were.                                                         *)

\* Labels at which gameAction has been admitted.
InGame == ActionPcs \ {"action_ready", "action_bet"}

\* The game service's queue has admitted whoever is there, hence at most one coroutine is.
GameExclusive == \A p \in Procs : pc[p] \in InGame => Serving("game", p)

\* Every coroutine serves the requests of its own kind: an error in a timer callback
\* ends it (Abort) and leaves the queue alone.
RightKind ==
    \A p \in Procs : /\ pc[p] \in CreatePcs => p \in Https
                     /\ pc[p] \in ActionPcs => p \in Wss
                     /\ pc[p] \in TimerPcs => p \in Timers

\* Labels at which a coroutine has not come by a room yet.
Early == {"idle", "create", "action_ready", "action_bet"}

NoRidYet == \A p \in Procs : pc[p] \in Early => loc[p].rid = NoRid

\* The coroutines and the game service's queue.
TurnInv == GameExclusive /\ RightKind /\ NoRidYet

\* What a step of p has to show of p itself.
TurnKept(p) ==
    /\ \A q \in Procs \ {p} : pc'[q] = pc[q] /\ loc'[q] = loc[q]
    /\ pc'[p] \in CreatePcs => p \in Https
    /\ pc'[p] \in ActionPcs => p \in Wss
    /\ pc'[p] \in TimerPcs => p \in Timers
    /\ pc'[p] \in Early => loc'[p].rid = NoRid
    /\ \/ /\ queue'["game"] \in {queue["game"], Append(queue["game"], p)}
          /\ pc'[p] \in InGame => Serving("game", p)
       \/ Serving("game", p) /\ pc'[p] \notin InGame

LEMMA TurnStep ==
    ASSUME TypeInv, TurnInv, NEW p \in Procs, TurnKept(p)
    PROVE  TurnInv'
<1>1. queue["game"] \in Seq(Procs)
  BY DEF TypeInv, TypeOK, Services
<1>2. RightKind' /\ NoRidYet'
  BY DEF TurnKept, TurnInv, RightKind, NoRidYet
<1>3. ASSUME queue'["game"] \in {queue["game"], Append(queue["game"], p)},
             NEW q \in Procs, Serving("game", q)
      PROVE  Serving("game", q)'
  <2>1. queue["game"] # <<>>
    BY <1>3 DEF Serving
  <2>2. /\ Append(queue["game"], p) # <<>>
        /\ Head(Append(queue["game"], p)) = Head(queue["game"])
    BY <1>1, <2>1, HeadTailAppend, AppendProperties
  <2> QED
    BY <1>3, <2>1, <2>2 DEF Serving
<1>4. GameExclusive'
  <2>1. CASE Serving("game", p) /\ pc'[p] \notin InGame
    BY <2>1 DEF TurnKept, TurnInv, GameExclusive, Serving
  <2>2. CASE /\ queue'["game"] \in {queue["game"], Append(queue["game"], p)}
             /\ pc'[p] \in InGame => Serving("game", p)
    BY <1>3, <2>2 DEF TurnKept, TurnInv, GameExclusive
  <2> QED
    BY <2>1, <2>2 DEF TurnKept
<1> QED
  BY <1>2, <1>4 DEF TurnInv

LEMMA TurnInit == Init => TurnInv
BY DEF Init, TurnInv, GameExclusive, RightKind, NoRidYet, InGame, NoLocals, CreatePcs,
       ActionPcs, TimerPcs

\* Labels l that a coroutine at label k may go on to without changing its kind.
Follows(l, k) ==
    /\ l \notin Early
    /\ l \in CreatePcs => k \in CreatePcs
    /\ l \in ActionPcs => k \in ActionPcs
    /\ l \in TimerPcs => k \in TimerPcs

\* The game service's queue loses nobody.
GameKept(p) == queue'["game"] \in {queue["game"], Append(queue["game"], p)}

LEMMA MoveTurn ==
    ASSUME TypeInv, TurnInv, NEW p \in Procs, NEW l, NEW v, Moves(p, l, v),
           Follows(l, pc[p]),
           \/ GameKept(p) /\ (l \in InGame => Serving("game", p))
           \/ Serving("game", p) /\ l \notin InGame
    PROVE  TurnKept(p)
BY DEF TypeInv, TypeOK, TurnInv, RightKind, Moves, Follows, GameKept, TurnKept

LEMMA GotoTurn ==
    ASSUME TypeInv, TurnInv, NEW p \in Procs, NEW l, Goto(p, l),
           Follows(l, pc[p]),
           \/ GameKept(p) /\ (l \in InGame => Serving("game", p))
           \/ Serving("game", p) /\ l \notin InGame
    PROVE  TurnKept(p)
BY GotoMoves, MoveTurn DEF TypeInv, TypeOK

LEMMA FinishTurn ==
    ASSUME TypeInv, NEW p \in Procs, Finish(p), GameKept(p) \/ Serving("game", p)
    PROVE  TurnKept(p)
<1>1. pc'[p] = "idle" /\ loc'[p] = NoLocals
  BY DEF Finish, TypeInv, TypeOK
<1>2. \A q \in Procs \ {p} : pc'[q] = pc[q] /\ loc'[q] = loc[q]
  BY DEF Finish, TypeInv, TypeOK
<1>3. "idle" \notin CreatePcs \cup ActionPcs \cup TimerPcs \cup InGame
  BY DEF CreatePcs, ActionPcs, TimerPcs, InGame
<1> QED
  BY <1>1, <1>2, <1>3 DEF TurnKept, GameKept, NoLocals

LEMMA AbortTurn ==
    ASSUME TypeInv, TurnInv, NEW p \in Procs, Abort(p), GameKept(p),
           pc[p] \in InGame \cup TimerPcs
    PROVE  TurnKept(p)
<1>1. CASE p \in Wss
  <2>1. pc[p] \in InGame /\ Serving("game", p)
    BY <1>1, TableAssumption DEF TurnInv, RightKind, GameExclusive
  <2>2. Follows("act_end", pc[p])
    BY <2>1 DEF Follows, InGame, Early, CreatePcs, ActionPcs, TimerPcs
  <2> QED
    BY <1>1, <2>1, <2>2, GotoTurn DEF Abort
<1>2. CASE p \notin Wss
  BY <1>2, FinishTurn DEF Abort
<1> QED
  BY <1>1, <1>2

LEMMA HallTurn ==
    ASSUME TypeInv, TurnInv, NEW p \in Procs, HallStep(p)
    PROVE  TurnKept(p)
<1>t. /\ pc \in [Procs -> PCs] /\ loc \in [Procs -> Locals]
      /\ queue \in QueueType /\ "hall" \in Services /\ "game" \in Services
  BY DEF TypeInv, TypeOK, QueueType, Services
<1>k. pc[p] \in InGame => Serving("game", p)
  BY DEF TurnInv, GameExclusive
<1>q. GameKept(p)
  <2>1. \/ queue' = queue \/ queue' = Enter(queue, "game", p)
        \/ queue' = Leave(queue, "hall")
        \/ queue' = Enter(Leave(queue, "hall"), "hall", p)
        \/ queue' = Enter(Leave(queue, "hall"), "game", p)
    BY DEF HallStep, createRoom_refuse, createRoom_allocate, createRoom_setRid,
           createRoom_store, createRoom_return, closeRoom_delete, closeRoom_exit,
           broadcastRoom, broadcastByUid, broadcastByUids, getRoomByRoomId
  <2> QED
    BY <1>t, <2>1 DEF GameKept, Enter, Leave, QueueType
<1>1. CASE createRoom_refuse(p) \/ createRoom_return(p) \/ closeRoom_exit(p)
  BY <1>1, <1>q, FinishTurn DEF createRoom_refuse, createRoom_return, closeRoom_exit
<1>2. CASE createRoom_allocate(p)
  <2>1. PICK c : loc' = [loc EXCEPT ![p].rid = getCurrentRoomId, ![p].code = c]
    BY <1>2 DEF createRoom_allocate
  <2>2. Moves(p, "create_setrid", [loc[p] EXCEPT !.rid = getCurrentRoomId, !.code = c])
    BY <1>t, <1>2, <2>1 DEF createRoom_allocate, Moves
  <2>3. Follows("create_setrid", pc[p]) /\ "create_setrid" \notin InGame
    BY <1>2 DEF createRoom_allocate, Follows, Early, CreatePcs, ActionPcs, TimerPcs, InGame
  <2> QED
    BY <1>q, <2>2, <2>3, MoveTurn
<1>3. CASE createRoom_setRid(p) \/ createRoom_store(p)
  <2>1. \E l \in {"create_store", "create_init"} : Goto(p, l) /\ pc[p] \in CreatePcs
    BY <1>3 DEF createRoom_setRid, createRoom_store, CreatePcs
  <2>2. \A l \in {"create_store", "create_init"} :
           l \notin InGame /\ (pc[p] \in CreatePcs => Follows(l, pc[p]))
    BY DEF Follows, Early, CreatePcs, ActionPcs, TimerPcs, InGame
  <2> QED
    BY <1>q, <2>1, <2>2, GotoTurn
<1>4. CASE closeRoom_delete(p)
  <2>1. CASE Abort(p)
    BY <1>4, <1>q, <2>1, AbortTurn DEF closeRoom_delete, TimerPcs
  <2>2. CASE ~Abort(p)
    <3>1. Moves(p, "close_exit", [loc[p] EXCEPT !.uid = rooms[loc[p].rid].seat])
      BY <1>t, <1>4, <2>2 DEF closeRoom_delete, Moves
    <3>2. Follows("close_exit", pc[p]) /\ "close_exit" \notin InGame
      BY <1>4 DEF closeRoom_delete, Follows, Early, CreatePcs, ActionPcs, TimerPcs, InGame
    <3> QED
      BY <1>q, <3>1, <3>2, MoveTurn
  <2> QED
    BY <2>1, <2>2
<1>5. CASE broadcastRoom(p)
  <2> DEFINE l == AfterBroadcast[pc[p]]
  <2>1. /\ pc[p] \in InGame \cup TimerPcs /\ Follows(l, pc[p])
        /\ l \in InGame => pc[p] \in InGame
    BY <1>5 DEF broadcastRoom, AfterBroadcast, Follows, Early, CreatePcs, ActionPcs, TimerPcs,
                InGame
  <2>2. Abort(p) \/ Goto(p, l)
    BY <1>5 DEF broadcastRoom
  <2> QED
    BY <1>q, <1>k, <2>1, <2>2, AbortTurn, GotoTurn
<1>6. CASE broadcastByUid(p) \/ broadcastByUids(p)
  <2>1. pc[p] \in InGame
    BY <1>6 DEF broadcastByUid, broadcastByUids, InGame, ActionPcs
  <2>2. Abort(p) \/ \E l \in {"push_watch", "act_end", "bet_init"} : Goto(p, l)
    BY <1>6 DEF broadcastByUid, broadcastByUids
  <2>3. \A l \in {"push_watch", "act_end", "bet_init"} : Follows(l, pc[p])
    BY <2>1 DEF Follows, Early, CreatePcs, ActionPcs, TimerPcs, InGame
  <2> QED
    BY <1>q, <1>k, <2>1, <2>2, <2>3, AbortTurn, GotoTurn
<1>7. CASE getRoomByRoomId(p)
  <2>1. CASE pc[p] = "ready_room"
    <3>1. Goto(p, "ready_full") /\ pc[p] \in InGame /\ Follows("ready_full", pc[p])
      BY <1>7, <2>1
         DEF getRoomByRoomId, Follows, Early, CreatePcs, ActionPcs, TimerPcs, InGame
    <3> QED
      BY <1>q, <1>k, <3>1, GotoTurn
  <2>2. CASE pc[p] = "next_room"
    <3>1. Finish(p) \/ Moves(p, "next_close", [loc[p] EXCEPT !.uid = rooms[loc[p].rid].seat])
      BY <1>t, <1>7, <2>2 DEF getRoomByRoomId, Moves
    <3>2. Follows("next_close", pc[p]) /\ "next_close" \notin InGame
      BY <2>2 DEF Follows, Early, CreatePcs, ActionPcs, TimerPcs, InGame
    <3> QED
      BY <1>q, <3>1, <3>2, FinishTurn, MoveTurn
  <2> QED
    BY <1>7, <2>1, <2>2 DEF getRoomByRoomId
<1> QED
  BY <1>1, <1>2, <1>3, <1>4, <1>5, <1>6, <1>7 DEF HallStep

LEMMA GameTurn ==
    ASSUME TypeInv, TurnInv, NEW p \in Procs, GameStep(p)
    PROVE  TurnKept(p)
<1>t. /\ pc \in [Procs -> PCs] /\ loc \in [Procs -> Locals]
      /\ queue \in QueueType /\ "hall" \in Services /\ "game" \in Services
  BY DEF TypeInv, TypeOK, QueueType, Services
<1>k. pc[p] \in InGame => Serving("game", p)
  BY DEF TurnInv, GameExclusive
<1>q. queue' = queue \/ queue' = Enter(queue, "hall", p) => GameKept(p)
  BY <1>t DEF GameKept, Enter, QueueType
<1> USE DEF Follows, Early, CreatePcs, ActionPcs, TimerPcs, InGame
<1>1. CASE initByRoom(p)
  BY <1>1, GotoTurn DEF initByRoom
<1>2. CASE closeRound(p)
  BY <1>2, GotoTurn DEF closeRound
<1>3. CASE initByRound(p) \/ gameAction_end(p)
  BY <1>3, FinishTurn DEF initByRound, gameAction_end
<1>4. CASE gameAction_refuse(p)
  BY <1>4, <1>q, GotoTurn DEF gameAction_refuse
<1>5. CASE gameAction_ready(p) \/ gameAction_bet(p)
  <2> DEFINE v == [loc[p] EXCEPT !.rid = players[loc[p].uid].rid]
  <2>1. \/ Goto(p, "act_end")
        \/ \E l \in {"ready_bcast", "betmsg_bcast"} : Moves(p, l, v)
    BY <1>t, <1>5 DEF gameAction_ready, gameAction_bet, Moves
  <2>2. GameKept(p) /\ Serving("game", p) /\ pc[p] \in {"action_ready", "action_bet"}
    BY <1>5, <1>q DEF gameAction_ready, gameAction_bet
  <2> QED
    BY <2>1, <2>2, GotoTurn, MoveTurn
<1>6. CASE READY_mark(p)
  <2>1. GameKept(p) /\ pc[p] = "ready_mark"
    BY <1>6, <1>q DEF READY_mark
  <2>2. \/ Abort(p)
        \/ Moves(p, "ready_room", [loc[p] EXCEPT !.n = CountReady(loc[p].rid)])
    BY <1>t, <1>6 DEF READY_mark, Moves
  <2> QED
    BY <1>k, <2>1, <2>2, AbortTurn, MoveTurn
<1>7. CASE READY_full(p)
  <2> DEFINE r == loc[p].rid
             v == [loc[p] EXCEPT !.idx = Latest(r), !.uid = rounds[r][Latest(r)].seat]
  <2>1. GameKept(p) /\ pc[p] = "ready_full"
    BY <1>7, <1>q DEF READY_full
  <2>2. Goto(p, "act_end") \/ Goto(p, "push_one") \/ Moves(p, "push_seat", v)
    BY <1>t, <1>7 DEF READY_full, Moves
  <2> QED
    BY <1>k, <2>1, <2>2, GotoTurn, MoveTurn
<1>8. CASE BET_init(p)
  BY <1>8, <1>q, <1>k, GotoTurn DEF BET_init
<1>9. CASE BET_arm(p)
  BY <1>9, <1>q, <1>k, GotoTurn DEF BET_arm
<1>10. CASE DEAL_cards(p)
  BY <1>10, <1>q, GotoTurn DEF DEAL_cards
<1>11. CASE DEAL_arm(p)
  BY <1>11, <1>q, FinishTurn DEF DEAL_arm
<1>12. CASE ENDED_next(p)
  <2>1. GameKept(p) /\ pc[p] = "ended_next" /\ (Goto(p, "closed_bcast") \/ Finish(p))
    BY <1>12, <1>q DEF ENDED_next
  <2> QED
    BY <2>1, GotoTurn, FinishTurn
<1>13. CASE CLOSED_close(p)
  BY <1>13, <1>q, GotoTurn DEF CLOSED_close
<1> QED
  BY <1>1, <1>2, <1>3, <1>4, <1>5, <1>6, <1>7, <1>8, <1>9, <1>10, <1>11, <1>12, <1>13
     DEF GameStep

LEMMA RequestTurn ==
    ASSUME TypeInv, TurnInv,
           NEW p \in Https, NEW u \in Uids, RequestRoom(p, u)
    PROVE  p \in Procs /\ TurnKept(p)
<1>t. /\ pc \in [Procs -> PCs] /\ loc \in [Procs -> Locals] /\ p \in Procs
      /\ queue \in QueueType /\ "hall" \in Services /\ "game" \in Services
  BY DEF TypeInv, TypeOK, QueueType, Services, Procs
<1>1. pc' = [pc EXCEPT ![p] = "create"] /\ loc' = [loc EXCEPT ![p].uid = u]
  BY DEF RequestRoom
<1>2. queue'["game"] = queue["game"]
  BY <1>t DEF RequestRoom, Enter, QueueType
<1>3. loc'[p].rid = loc[p].rid /\ loc[p].rid = NoRid
  BY <1>t, <1>1 DEF RequestRoom, TurnInv, NoRidYet, Early, Locals
<1>4. "create" \notin ActionPcs \cup TimerPcs \cup InGame
  BY DEF ActionPcs, TimerPcs, InGame
<1> QED
  BY <1>t, <1>1, <1>2, <1>3, <1>4 DEF TurnKept

LEMMA ActionTurn ==
    ASSUME TypeInv, TurnInv,
           NEW p \in Wss, NEW u \in Uids \cup {NoUid},
           NEW msg \in {"action_ready", "action_bet"}, RequestAction(p, u, msg)
    PROVE  p \in Procs /\ TurnKept(p)
<1>t. /\ pc \in [Procs -> PCs] /\ loc \in [Procs -> Locals] /\ p \in Procs
      /\ queue \in QueueType /\ "hall" \in Services /\ "game" \in Services
  BY DEF TypeInv, TypeOK, QueueType, Services, Procs
<1>1. pc' = [pc EXCEPT ![p] = msg] /\ loc' = [loc EXCEPT ![p].uid = u]
  BY DEF RequestAction
<1>2. queue'["game"] = Append(queue["game"], p)
  BY <1>t DEF RequestAction, Enter, QueueType
<1>3. loc'[p].rid = loc[p].rid /\ loc[p].rid = NoRid
  BY <1>t, <1>1 DEF RequestAction, TurnInv, NoRidYet, Early, Locals
<1>4. msg \notin CreatePcs \cup TimerPcs \cup InGame
  BY DEF CreatePcs, TimerPcs, InGame
<1> QED
  BY <1>t, <1>1, <1>2, <1>3, <1>4 DEF TurnKept

LEMMA FireTurn ==
    ASSUME TypeInv, TurnInv, NEW p \in Timers, NEW t \in armed, fire(p, t)
    PROVE  p \in Procs /\ TurnKept(p)
<1>t. /\ pc \in [Procs -> PCs] /\ loc \in [Procs -> Locals] /\ p \in Procs
      /\ queue \in QueueType /\ "hall" \in Services /\ "game" \in Services
      /\ t.kind \in {"BET", "DEAL", "ENDED"}
  BY DEF TypeInv, TypeOK, QueueType, Services, Procs, Timer
<1>1. /\ pc' = [pc EXCEPT ![p] = LabelAfter[t.kind]]
      /\ loc' = [loc EXCEPT ![p].rid = t.rid, ![p].idx = t.idx]
  BY DEF fire
<1>2. queue'["game"] = queue["game"]
  BY <1>t DEF fire, Enter, QueueType
<1>3. LabelAfter[t.kind] \notin Early \cup CreatePcs \cup ActionPcs \cup InGame
  BY <1>t DEF LabelAfter, Early, CreatePcs, ActionPcs, InGame
<1> QED
  BY <1>t, <1>1, <1>2, <1>3 DEF TurnKept

LEMMA TurnStepAll == TypeInv /\ TurnInv /\ [Next]_vars => TurnInv'
<1> SUFFICES ASSUME TypeInv, TurnInv, [Next]_vars PROVE TurnInv'
  OBVIOUS
<1>1. CASE Clients
  <2>1. ASSUME NEW u \in Uids, Login(u) \/ EnterScene(u) PROVE TurnInv'
    BY <2>1 DEF Login, EnterScene, login_by_token, chanage_serverScene, TurnInv,
                GameExclusive, RightKind, NoRidYet, Serving
  <2> QED
    BY <1>1, <2>1, RequestTurn, ActionTurn, TurnStep DEF Clients
<1>2. ASSUME NEW p \in Procs, HallStep(p) \/ GameStep(p) PROVE TurnInv'
  BY <1>2, HallTurn, GameTurn, TurnStep
<1>3. CASE Fire
  BY <1>3, FireTurn, TurnStep DEF Fire
<1>4. CASE UNCHANGED vars
  BY <1>4 DEF vars, TurnInv, GameExclusive, RightKind, NoRidYet, Serving
<1> QED
  BY <1>1, <1>2, <1>3, <1>4 DEF Next

LEMMA TurnInvariant == Spec => []TurnInv
<1>1. TypeInv /\ TurnInv /\ [Next]_vars => TurnInv'
  BY TurnStepAll
<1> QED
  BY <1>1, TurnInit, TypeInvariant, PTL DEF Spec

-----------------------------------------------------------------------------
(* The count and the round that gameAction decided by. *)

Counted == {"ready_room", "ready_full"}
Started == {"push_seat", "push_watch", "bet_init", "bet_bcast", "bet_arm"}

RoundInv == ReadyCountStable /\ StartedRoundIsLatest

\* What a step of p has to show: whoever changes the counts or the number of rounds has
\* been admitted by the game service.
RoundKept(p) ==
    /\ \A q \in Procs \ {p} : pc'[q] = pc[q] /\ loc'[q] = loc[q]
    /\ ready' = ready \/ Serving("game", p)
    /\ (\A r \in Rids : Latest(r)' = Latest(r)) \/ Serving("game", p)
    /\ pc'[p] \in Counted => ready'[loc'[p].rid] = loc'[p].n
    /\ pc'[p] \in Started => /\ loc'[p].rid = loc[p].rid
                            /\ loc'[p].idx = Len(rounds'[loc'[p].rid])

LEMMA RoundKeptStep ==
    ASSUME TypeInv, TurnInv, RoundInv, NEW p \in Procs, RoundKept(p)
    PROVE  RoundInv'
<1>1. \A q \in Procs \ {p} : pc[q] \in Counted \cup Started =>
         ready' = ready /\ \A r \in Rids : Latest(r)' = Latest(r)
  BY DEF RoundKept, TurnInv, GameExclusive, Serving, InGame, ActionPcs, Counted, Started
<1>2. \A q \in Procs : pc[q] \in Counted \cup Started => loc[q].rid \in Rids
  BY DEF TypeInv, RidOK, NeedsRid, Counted, Started
<1>3. ReadyCountStable'
  BY <1>1 DEF ReadyCountStable, RoundInv, RoundKept, Counted
<1>4. StartedRoundIsLatest'
  <2> SUFFICES ASSUME NEW q \in Procs, pc'[q] \in Started
               PROVE  loc'[q].idx = Len(rounds'[loc'[q].rid])
    BY DEF StartedRoundIsLatest, Started, Latest
  <2>1. CASE q = p
    BY <2>1 DEF RoundKept
  <2>2. CASE q # p
    <3>1. pc[q] \in Started /\ loc'[q] = loc[q]
      BY <2>2 DEF RoundKept
    <3>2. loc[q].idx = Latest(loc[q].rid)
      BY <3>1 DEF RoundInv, StartedRoundIsLatest, Started
    <3> QED
      BY <1>1, <1>2, <2>2, <3>1, <3>2 DEF Latest
  <2> QED
    BY <2>1, <2>2
<1> QED
  BY <1>3, <1>4 DEF RoundInv

\* A round's status is not a matter of how many rounds there are, nor of other rooms.
LEMMA ChangeStatusKeeps ==
    ASSUME rounds \in [Rids -> Seq(Round)], NEW r, NEW i, NEW st,
           rounds' = change_status(r, i, st)
    PROVE  \A s \in Rids : Latest(s)' = Latest(s) /\ (s # r => rounds'[s] = rounds[s])
<1> SUFFICES ASSUME NEW s \in Rids
             PROVE  Len(rounds'[s]) = Len(rounds[s]) /\ (s # r => rounds'[s] = rounds[s])
  BY DEF Latest
<1>1. CASE s # r
  BY <1>1 DEF change_status
<1>2. CASE s = r
  <2> DEFINE f == rounds[s]
             g == [f EXCEPT ![i] = InStatus(@, st)]
  <2>1. rounds'[s] = g
    BY <1>2 DEF change_status
  <2>2. f \in Seq(Round) /\ Len(f) \in Nat /\ DOMAIN f = 1 .. Len(f)
    OBVIOUS
  <2>3. DOMAIN g = 1 .. Len(f)
    BY <2>2
  <2>4. Len(g) = Len(f)
    BY <2>2, <2>3
  <2> QED
    BY <1>2, <2>1, <2>4
<1> QED
  BY <1>1, <1>2

LEMMA HallRoundKept ==
    ASSUME TypeInv, TurnInv, RoundInv, NEW p \in Procs, HallStep(p)
    PROVE  RoundKept(p)
<1> USE DEF Counted, Started
<1>t. pc \in [Procs -> PCs] /\ loc \in [Procs -> Locals]
  BY DEF TypeInv, TypeOK
<1>1. \A q \in Procs \ {p} : pc'[q] = pc[q] /\ loc'[q] = loc[q]
  BY HallTurn DEF TurnKept
<1>2. UNCHANGED <<ready, rounds>>
  BY DEF HallStep, createRoom_refuse, createRoom_allocate, createRoom_setRid, createRoom_store,
         createRoom_return, closeRoom_delete, closeRoom_exit, broadcastRoom, broadcastByUid,
         broadcastByUids, getRoomByRoomId, gameVars
<1>3. ASSUME pc'[p] \in Counted \cup Started
      PROVE  /\ pc'[p] \in Counted => pc[p] \in Counted
             /\ pc'[p] \in Started => pc[p] \in Started
             /\ loc'[p] = loc[p]
  <2>1. ASSUME Finish(p) \/ Abort(p) PROVE FALSE
    BY <1>t, <1>3, <2>1 DEF Finish, Abort, Goto
  <2>2. CASE broadcastRoom(p)
    BY <1>t, <1>3, <2>1, <2>2 DEF broadcastRoom, AfterBroadcast, Goto
  <2>3. CASE broadcastByUid(p) \/ broadcastByUids(p)
    BY <1>t, <1>3, <2>1, <2>3 DEF broadcastByUid, broadcastByUids, Goto
  <2>4. CASE getRoomByRoomId(p)
    BY <1>t, <1>3, <2>1, <2>4 DEF getRoomByRoomId, Goto
  <2>5. CASE createRoom_allocate(p) \/ createRoom_setRid(p) \/ createRoom_store(p)
    BY <1>t, <1>3, <2>5 DEF createRoom_allocate, createRoom_setRid, createRoom_store, Goto
  <2>6. CASE createRoom_refuse(p) \/ createRoom_return(p) \/ closeRoom_delete(p)
               \/ closeRoom_exit(p)
    BY <1>t, <1>3, <2>1, <2>6
       DEF createRoom_refuse, createRoom_return, closeRoom_delete, closeRoom_exit
  <2> QED
    BY <2>2, <2>3, <2>4, <2>5, <2>6 DEF HallStep
<1> QED
  BY <1>1, <1>2, <1>3 DEF RoundKept, RoundInv, ReadyCountStable, StartedRoundIsLatest, Latest

LEMMA GameRoundKept ==
    ASSUME TypeInv, TurnInv, RoundInv, NEW p \in Procs, GameStep(p)
    PROVE  RoundKept(p)
<1> USE DEF Counted, Started, gameVars
<1>t. /\ pc \in [Procs -> PCs] /\ loc \in [Procs -> Locals]
      /\ rounds \in [Rids -> Seq(Round)] /\ ready \in [Rids -> Nat]
  BY DEF TypeInv, TypeOK
<1>1. \A q \in Procs \ {p} : pc'[q] = pc[q] /\ loc'[q] = loc[q]
  BY GameTurn DEF TurnKept
<1>k. pc[p] \in InGame => Serving("game", p)
  BY DEF TurnInv, GameExclusive
<1>2. ASSUME Finish(p) \/ Abort(p) PROVE pc'[p] \notin Counted \cup Started
  BY <1>t, <1>2 DEF Finish, Abort, Goto
<1>3. CASE initByRoom(p) \/ closeRound(p)
  BY <1>t, <1>1, <1>3 DEF initByRoom, closeRound, Goto, RoundKept
<1>4. CASE initByRound(p) \/ gameAction_end(p)
  BY <1>1, <1>2, <1>4 DEF initByRound, gameAction_end, RoundKept
<1>5. CASE gameAction_refuse(p) \/ gameAction_ready(p) \/ gameAction_bet(p)
  BY <1>t, <1>1, <1>5 DEF gameAction_refuse, gameAction_ready, gameAction_bet, Goto, RoundKept
<1>6. CASE READY_mark(p)
  <2>1. Serving("game", p)
    BY <1>6, <1>k DEF READY_mark, InGame, ActionPcs
  <2>2. CASE Abort(p)
    BY <1>1, <1>2, <2>1, <2>2 DEF RoundKept
  <2>3. CASE ~Abort(p)
    <3>1. /\ ready' = [ready EXCEPT ![loc[p].rid] = CountReady(loc[p].rid)]
          /\ loc' = [loc EXCEPT ![p].n = CountReady(loc[p].rid)]
          /\ pc'[p] = "ready_room" /\ loc[p].rid # NoRid
      BY <1>t, <1>6, <2>3 DEF READY_mark
    <3>2. loc[p].rid \in Rids /\ loc'[p].rid = loc[p].rid /\ loc'[p].n = CountReady(loc[p].rid)
      BY <1>t, <3>1 DEF Locals
    <3> QED
      BY <1>t, <1>1, <2>1, <3>1, <3>2 DEF RoundKept
  <2> QED
    BY <2>2, <2>3
<1>7. CASE READY_full(p)
  <2> DEFINE r == loc[p].rid
             v == [loc[p] EXCEPT !.idx = Latest(r), !.uid = rounds[r][Latest(r)].seat]
  <2>1. UNCHANGED <<rounds, ready>>
    BY <1>7 DEF READY_full
  <2>2. Goto(p, "act_end") \/ Goto(p, "push_one") \/ Moves(p, "push_seat", v)
    BY <1>t, <1>7 DEF READY_full, Moves
  <2>3. v.rid = r /\ v.idx = Latest(r)
    BY <1>t DEF Locals
  <2> QED
    BY <1>t, <1>1, <2>1, <2>2, <2>3 DEF RoundKept, Goto, Moves, Latest
<1>8. CASE BET_init(p)
  <2>1. loc' = loc /\ pc[p] = "bet_init" /\ ready' = ready
    BY <1>8 DEF BET_init, Goto
  <2>2. \A s \in Rids : Latest(s)' = Latest(s)
    BY <1>t, <1>8, ChangeStatusKeeps DEF BET_init
  <2>3. pc'[p] = "bet_bcast" /\ loc[p].rid \in Rids
    BY <1>t, <1>8 DEF BET_init, Goto, TypeInv, RidOK, NeedsRid
  <2>4. loc[p].idx = Latest(loc[p].rid)
    BY <2>1 DEF RoundInv, StartedRoundIsLatest
  <2> QED
    BY <1>1, <2>1, <2>2, <2>3, <2>4 DEF RoundKept, Latest
<1>9. CASE BET_arm(p) \/ DEAL_cards(p) \/ DEAL_arm(p) \/ CLOSED_close(p)
  BY <1>t, <1>1, <1>2, <1>9
     DEF BET_arm, DEAL_cards, DEAL_arm, CLOSED_close, Goto, RoundKept, Latest
<1>10. CASE ENDED_next(p)
  <2>1. /\ ready' = ready /\ pc'[p] \notin Counted \cup Started
        /\ \/ rounds' = rounds
           \/ rounds' = change_status(loc[p].rid, loc[p].idx, "CLOSED")
    BY <1>t, <1>2, <1>10 DEF ENDED_next, Goto
  <2>2. \A s \in Rids : Latest(s)' = Latest(s)
    BY <1>t, <2>1, ChangeStatusKeeps DEF Latest
  <2> QED
    BY <1>1, <2>1, <2>2 DEF RoundKept
<1> QED
  BY <1>3, <1>4, <1>5, <1>6, <1>7, <1>8, <1>9, <1>10 DEF GameStep

LEMMA FireRoundKept ==
    ASSUME TypeInv, TurnInv, NEW p \in Timers, NEW t \in armed, fire(p, t)
    PROVE  RoundKept(p)
<1>t. /\ pc \in [Procs -> PCs] /\ p \in Procs /\ t.kind \in {"BET", "DEAL", "ENDED"}
      /\ rounds \in [Rids -> Seq(Round)]
  BY DEF TypeInv, TypeOK, Procs, Timer
<1>1. \A q \in Procs \ {p} : pc'[q] = pc[q] /\ loc'[q] = loc[q]
  BY FireTurn DEF TurnKept
<1>2. ready' = ready /\ pc'[p] \notin Counted \cup Started
  BY <1>t DEF fire, LabelAfter, Counted, Started
<1>3. rounds' = rounds \/ rounds' = change_status(t.rid, t.idx, StatusAfter[t.kind])
  BY DEF fire
<1>4. \A s \in Rids : Latest(s)' = Latest(s)
  BY <1>t, <1>3, ChangeStatusKeeps DEF Latest
<1> QED
  BY <1>1, <1>2, <1>4 DEF RoundKept

\* A request changes nothing of the rounds, and its coroutine is at an early label.
LEMMA RequestRoundKept ==
    ASSUME TypeInv, TurnInv, Clients
    PROVE  UNCHANGED <<pc, loc, ready, rounds>> \/ \E p \in Procs : RoundKept(p)
<1>t. pc \in [Procs -> PCs]
  BY DEF TypeInv, TypeOK
<1> USE DEF gameVars
<1>1. ASSUME NEW u \in Uids, Login(u) \/ EnterScene(u)
      PROVE  UNCHANGED <<pc, loc, ready, rounds>>
  BY <1>1 DEF Login, EnterScene, login_by_token, chanage_serverScene
<1>2. ASSUME NEW p \in Https, NEW u \in Uids, RequestRoom(p, u) PROVE p \in Procs /\ RoundKept(p)
  <2>1. p \in Procs /\ TurnKept(p)
    BY <1>2, RequestTurn
  <2>2. UNCHANGED <<ready, rounds>> /\ pc'[p] = "create"
    BY <1>t, <1>2, <2>1 DEF RequestRoom
  <2> QED
    BY <2>1, <2>2 DEF TurnKept, RoundKept, Latest, Counted, Started
<1>3. ASSUME NEW p \in Wss, NEW u \in Uids \cup {NoUid},
             NEW msg \in {"action_ready", "action_bet"}, RequestAction(p, u, msg)
      PROVE  p \in Procs /\ RoundKept(p)
  <2>1. p \in Procs /\ TurnKept(p)
    BY <1>3, ActionTurn
  <2>2. UNCHANGED <<ready, rounds>> /\ pc'[p] = msg
    BY <1>t, <1>3, <2>1 DEF RequestAction
  <2> QED
    BY <2>1, <2>2 DEF TurnKept, RoundKept, Latest, Counted, Started
<1> QED
  BY <1>1, <1>2, <1>3 DEF Clients

LEMMA RoundStepAll == TypeInv /\ TurnInv /\ RoundInv /\ [Next]_vars => RoundInv'
<1> SUFFICES ASSUME TypeInv, TurnInv, RoundInv, [Next]_vars PROVE RoundInv'
  OBVIOUS
<1>0. UNCHANGED <<pc, loc, ready, rounds>> => RoundInv'
  BY DEF RoundInv, ReadyCountStable, StartedRoundIsLatest, Latest
<1>1. CASE Clients
  BY <1>0, <1>1, RequestRoundKept, RoundKeptStep
<1>2. ASSUME NEW p \in Procs, HallStep(p) \/ GameStep(p) PROVE RoundInv'
  BY <1>2, HallRoundKept, GameRoundKept, RoundKeptStep
<1>3. CASE Fire
  BY <1>3, FireRoundKept, RoundKeptStep DEF Fire, Procs
<1>4. CASE UNCHANGED vars
  BY <1>0, <1>4 DEF vars
<1> QED
  BY <1>1, <1>2, <1>3, <1>4 DEF Next

LEMMA RoundInit == Init => RoundInv
BY DEF Init, RoundInv, ReadyCountStable, StartedRoundIsLatest

LEMMA RoundInvariant == Spec => []RoundInv
<1>1. TypeInv /\ TurnInv /\ RoundInv /\ [Next]_vars => RoundInv'
  BY RoundStepAll
<1> QED
  BY <1>1, RoundInit, TypeInvariant, TurnInvariant, PTL DEF Spec

\* The players that Action_READY.handle counted before it asked the hall for the room are
\* still the room's when it decides whether the desk is full: neither another READY nor
\* the timer that opens the next round comes in between.
THEOREM ReadyCountsHold == Spec => []ReadyCountStable
<1>1. RoundInv => ReadyCountStable
  BY DEF RoundInv
<1> QED
  BY <1>1, RoundInvariant, PTL

\* The round that gameAction found when the desk filled up is the room's latest until its
\* countdown starts, three calls of the hall later.
THEOREM StartedRoundsHold == Spec => []StartedRoundIsLatest
<1>1. RoundInv => StartedRoundIsLatest
  BY DEF RoundInv
<1> QED
  BY <1>1, RoundInvariant, PTL

-----------------------------------------------------------------------------
(* The room that createRoom is making. *)

\* Labels at which createRoom has given the room its id.
InCreate == {"create_setrid", "create_store", "create_init", "create_done"}

\* Labels at which gameAction has read the player's rid and waits for the hall.
Waiting == {"ready_bcast", "betmsg_bcast"}

\* Nothing refers to a room id that was not handed out yet.
IdsInUse ==
    /\ \A u \in Uids : players[u].rid <= ridIndex
    /\ \A p \in Procs : loc[p].rid <= ridIndex
    /\ \A t \in armed : t.rid <= ridIndex
    /\ \A r \in Rids : rounds[r] # <<>> => r <= ridIndex

\* Nobody works on the room that createRoom is making: a gameAction may have read its
\* id from the player's record, but then it waits for the hall, which createRoom holds.
NewRoomQuiet ==
    \A p \in Procs : pc[p] \in InCreate =>
        /\ loc[p].rid \in Rids
        /\ \A q \in Procs \ {p} : loc[q].rid = loc[p].rid => pc[q] \in Waiting
        /\ \A t \in armed : t.rid # loc[p].rid

\* How far createRoom has come.  That the player is in no room was looked at when
\* the room was given its id, and its rid is set one call later.
NewRoomMade ==
    \A p \in Procs :
        /\ pc[p] \in InCreate \ {"create_done"} => rounds[loc[p].rid] = <<>>
        /\ pc[p] \in {"create_init", "create_done"} => rooms[loc[p].rid].seat = loc[p].uid
        /\ pc[p] = "create_setrid" => \A u \in Uids : u = loc[p].uid => players[u].rid = NoRid

FreshInv == IdsInUse /\ NewRoomQuiet /\ NewRoomMade /\ HandedRoomIsFresh

\* A step of p leaves the room r that another coroutine is making alone.
Apart(p, r) ==
    /\ rooms'[r] = rooms[r]
    /\ rounds'[r] = rounds[r]
    /\ \A t \in armed' : t.rid # r
    /\ loc'[p].rid = r => pc'[p] \in Waiting

\* What a step of p, when p is not in createRoom after it, has to show.
FreshKept(p) ==
    /\ \A q \in Procs \ {p} : pc'[q] = pc[q] /\ loc'[q] = loc[q]
    /\ pc'[p] \notin InCreate
    /\ ridIndex' = ridIndex
    /\ \A u \in Uids : players'[u].rid \in {players[u].rid, NoRid}
    /\ loc'[p].rid <= ridIndex
    /\ \A t \in armed' : t.rid <= ridIndex
    /\ \A r \in Rids : rounds'[r] # <<>> => r <= ridIndex
    /\ \A q \in Procs \ {p} : pc[q] \in InCreate => Apart(p, loc[q].rid)

LEMMA FreshKeptStep ==
    ASSUME TypeInv, FreshInv, NEW p \in Procs, FreshKept(p)
    PROVE  FreshInv'
<1>0. ridIndex \in Nat /\ NoRid <= ridIndex
  BY TableAssumption DEF TypeInv, TypeOK, NoRid
<1>1. IdsInUse'
  BY <1>0 DEF FreshKept, FreshInv, IdsInUse
<1>2. NewRoomQuiet'
  <2> SUFFICES ASSUME NEW q \in Procs, pc'[q] \in InCreate
               PROVE  /\ loc'[q].rid \in Rids
                      /\ \A s \in Procs \ {q} : loc'[s].rid = loc'[q].rid => pc'[s] \in Waiting
                      /\ \A t \in armed' : t.rid # loc'[q].rid
    BY DEF NewRoomQuiet
  <2>1. q # p /\ pc[q] \in InCreate /\ loc'[q] = loc[q] /\ Apart(p, loc[q].rid)
    BY DEF FreshKept
  <2> QED
    BY <2>1 DEF FreshKept, FreshInv, NewRoomQuiet, Apart
<1>3. NewRoomMade'
  <2> SUFFICES ASSUME NEW q \in Procs, pc'[q] \in InCreate
               PROVE  /\ pc'[q] # "create_done" => rounds'[loc'[q].rid] = <<>>
                      /\ pc'[q] \in {"create_init", "create_done"} =>
                           rooms'[loc'[q].rid].seat = loc'[q].uid
                      /\ pc'[q] = "create_setrid" =>
                           \A u \in Uids : u = loc'[q].uid => players'[u].rid = NoRid
    BY DEF NewRoomMade, InCreate
  <2>1. q # p /\ pc'[q] = pc[q] /\ loc'[q] = loc[q] /\ Apart(p, loc[q].rid)
    BY DEF FreshKept
  <2> QED
    BY <2>1 DEF FreshKept, FreshInv, NewRoomMade, Apart, InCreate
<1>4. HandedRoomIsFresh'
  <2> SUFFICES ASSUME NEW q \in Procs, pc'[q] = "create_done"
               PROVE  /\ rooms'[loc'[q].rid].seat = loc'[q].uid
                      /\ rounds'[loc'[q].rid] = <<NewRound(loc'[q].uid)>>
    BY DEF HandedRoomIsFresh, NewRound
  <2>1. q # p /\ pc'[q] = pc[q] /\ loc'[q] = loc[q] /\ Apart(p, loc[q].rid)
    BY DEF FreshKept, InCreate
  <2> QED
    BY <2>1 DEF FreshInv, HandedRoomIsFresh, Apart
<1> QED
  BY <1>1, <1>2, <1>3, <1>4 DEF FreshInv

LEMMA FreshInit == Init => FreshInv
<1> SUFFICES ASSUME Init PROVE FreshInv
  OBVIOUS
<1> QED
  BY DEF Init, FreshInv, IdsInUse, NewRoomQuiet, NewRoomMade, HandedRoomIsFresh, InCreate,
         OfflinePlayer, FreshPlayer, NoLocals, NoRid

\* The steps of the hall that are not createRoom's on its way.
LEMMA HallFreshKept ==
    ASSUME TypeInv, HallInv, TurnInv, FreshInv, NEW p \in Procs, HallStep(p),
           ~createRoom_allocate(p), ~createRoom_setRid(p), ~createRoom_store(p)
    PROVE  FreshKept(p)
<1> USE DEF hallVars, gameVars
<1>t. /\ pc \in [Procs -> PCs] /\ loc \in [Procs -> Locals] /\ players \in [Uids -> Player]
  BY DEF TypeInv, TypeOK
<1>1. \A q \in Procs \ {p} : pc'[q] = pc[q] /\ loc'[q] = loc[q]
  BY HallTurn DEF TurnKept
<1>2. Serving("hall", p) /\ UNCHANGED <<ridIndex, rounds, armed>>
  BY DEF HallStep, createRoom_refuse, createRoom_return, closeRoom_delete, closeRoom_exit,
         broadcastRoom, broadcastByUid, broadcastByUids, getRoomByRoomId
<1>3. \A q \in Procs \ {p} : pc[q] \notin InCreate
  BY <1>2 DEF HallInv, HallExclusive, Serving, InHall, InCreate
<1>4. \A u \in Uids : players'[u].rid \in {players[u].rid, NoRid}
  <2>1. players' = players \/ players' = ExitRoomWithUid(loc[p].uid)
    BY DEF HallStep, createRoom_refuse, createRoom_return, closeRoom_delete, closeRoom_exit,
           broadcastRoom, broadcastByUid, broadcastByUids, getRoomByRoomId
  <2> QED
    BY <1>t, <2>1 DEF ExitRoomWithUid, Player
<1>5. pc'[p] \notin InCreate /\ loc'[p].rid \in {loc[p].rid, NoRid}
  <2> USE DEF InCreate
  <2>1. ASSUME Finish(p) \/ Abort(p)
        PROVE  pc'[p] \notin InCreate /\ loc'[p].rid \in {loc[p].rid, NoRid}
    BY <1>t, <2>1 DEF Abort, Finish, Goto, NoLocals
  <2>2. CASE createRoom_refuse(p) \/ createRoom_return(p) \/ closeRoom_exit(p)
    BY <2>1, <2>2 DEF createRoom_refuse, createRoom_return, closeRoom_exit
  <2>3. CASE closeRoom_delete(p)
    BY <1>t, <2>1, <2>3 DEF closeRoom_delete, Locals
  <2>4. CASE broadcastRoom(p)
    BY <1>t, <2>1, <2>4 DEF broadcastRoom, AfterBroadcast, Goto
  <2>5. CASE broadcastByUid(p) \/ broadcastByUids(p)
    BY <1>t, <2>1, <2>5 DEF broadcastByUid, broadcastByUids, Goto
  <2>6. CASE getRoomByRoomId(p)
    BY <1>t, <2>1, <2>6 DEF getRoomByRoomId, Goto, Locals
  <2> QED
    BY <2>2, <2>3, <2>4, <2>5, <2>6 DEF HallStep
<1>6. loc'[p].rid <= ridIndex
  BY <1>5, TableAssumption DEF FreshInv, IdsInUse, TypeInv, TypeOK, NoRid
<1> QED
  BY <1>1, <1>2, <1>3, <1>4, <1>5, <1>6 DEF FreshKept, FreshInv, IdsInUse

\* createRoom on its way: nobody else is in createRoom.
LEMMA CreateFresh ==
    ASSUME TypeInv, TypeInv', HallInv, TurnInv, FreshInv, NEW p \in Procs,
           createRoom_allocate(p) \/ createRoom_setRid(p) \/ createRoom_store(p)
    PROVE  FreshInv'
<1> USE DEF hallVars, gameVars
<1>t. /\ pc \in [Procs -> PCs] /\ loc \in [Procs -> Locals] /\ players \in [Uids -> Player]
      /\ rooms \in [Rids -> Room] /\ ridIndex \in Nat /\ ridIndex' \in 0 .. MaxRooms
      /\ MaxRooms \in Nat
  BY TableAssumption DEF TypeInv, TypeOK
<1>1. \A q \in Procs \ {p} : pc'[q] = pc[q] /\ loc'[q] = loc[q]
  BY HallTurn DEF TurnKept, HallStep
<1>2. Serving("hall", p) /\ UNCHANGED <<rounds, armed>>
  BY DEF createRoom_allocate, createRoom_setRid, createRoom_store
<1>3. \A q \in Procs \ {p} : pc[q] \notin InCreate
  BY <1>2 DEF HallInv, HallExclusive, Serving, InHall, InCreate
<1>4. CASE createRoom_allocate(p)
  <2> DEFINE r0 == ridIndex + 1
  <2>1. PICK c : loc' = [loc EXCEPT ![p].rid = r0, ![p].code = c]
    BY <1>4 DEF createRoom_allocate, getCurrentRoomId
  <2>2. /\ pc'[p] = "create_setrid" /\ loc'[p].rid = r0 /\ loc'[p].uid = loc[p].uid
        /\ ridIndex' = r0 /\ UNCHANGED <<players, rooms>>
    <3>1. loc[p] \in Locals /\ loc'[p] = [loc[p] EXCEPT !.rid = r0, !.code = c]
      BY <1>t, <2>1
    <3>2. loc'[p].rid = r0 /\ loc'[p].uid = loc[p].uid
      BY <3>1 DEF Locals
    <3> QED
      BY <1>4, <1>t, <3>2 DEF createRoom_allocate, getCurrentRoomId
  <2>3. r0 \in Rids
    BY <1>t, <2>2 DEF Rids
  <2>4. /\ \A q \in Procs : loc[q].rid \in Nat /\ loc[q].rid <= ridIndex
        /\ \A u \in Uids : players[u].rid \in Nat /\ players[u].rid <= ridIndex
        /\ \A t \in armed : t.rid \in Nat /\ t.rid <= ridIndex
        /\ \A r \in Rids : r \in Nat /\ (rounds[r] # <<>> => r <= ridIndex)
    BY <1>t DEF FreshInv, IdsInUse, TypeInv, TypeOK, Locals, Player, Timer, Rids, NoRid
  <2>5. IdsInUse'
    BY <1>t, <1>1, <1>2, <2>2, <2>4 DEF IdsInUse
  <2>6. NewRoomQuiet'
    <3>1. \A q \in Procs \ {p} : loc'[q].rid # r0
      BY <1>t, <1>1, <2>4
    <3>2. \A t \in armed' : t.rid # r0
      BY <1>t, <1>2, <2>4
    <3> QED
      BY <1>1, <1>3, <2>2, <2>3, <3>1, <3>2 DEF NewRoomQuiet
  <2>7. NewRoomMade'
    <3>1. rounds[r0] = <<>>
      BY <1>t, <2>3, <2>4
    <3>2. \A u \in Uids : u = loc[p].uid => players[u].rid = NoRid
      BY <1>4 DEF createRoom_allocate, CreateRefusal
    <3> QED
      BY <1>1, <1>2, <1>3, <2>2, <3>1, <3>2 DEF NewRoomMade, InCreate
  <2>8. HandedRoomIsFresh'
    BY <1>1, <1>3, <2>2 DEF HandedRoomIsFresh, InCreate
  <2> QED
    BY <2>5, <2>6, <2>7, <2>8 DEF FreshInv
<1>5. CASE createRoom_setRid(p)
  <2>1. /\ pc[p] = "create_setrid" /\ pc'[p] = "create_store"
        /\ UNCHANGED <<loc, rooms, ridIndex>>
        /\ players' = setRidWithUid(loc[p].rid, loc[p].uid)
    BY <1>5, <1>t DEF createRoom_setRid, Goto
  <2>2. \A u \in Uids : players'[u].rid \in {players[u].rid, loc[p].rid}
    BY <1>t, <2>1 DEF setRidWithUid, Player
  <2>3. IdsInUse'
    BY <1>2, <2>1, <2>2 DEF FreshInv, IdsInUse
  <2>4. NewRoomQuiet' /\ HandedRoomIsFresh'
    BY <1>1, <1>2, <1>3, <2>1 DEF FreshInv, NewRoomQuiet, HandedRoomIsFresh, InCreate
  <2>5. NewRoomMade'
    <3>1. rounds[loc[p].rid] = <<>>
      BY <2>1 DEF FreshInv, NewRoomMade, InCreate
    <3>2. \A q \in Procs : pc'[q] \in InCreate => q = p
      BY <1>1, <1>3
    <3> QED
      BY <1>2, <2>1, <3>1, <3>2 DEF NewRoomMade, InCreate
  <2> QED
    BY <2>3, <2>4, <2>5 DEF FreshInv
<1>6. CASE createRoom_store(p)
  <2>1. /\ pc[p] = "create_store" /\ pc'[p] = "create_init"
        /\ UNCHANGED <<loc, players, ridIndex>>
        /\ rooms' = [rooms EXCEPT ![loc[p].rid] = [code |-> loc[p].code, seat |-> loc[p].uid]]
    BY <1>6, <1>t DEF createRoom_store, Goto
  <2>2. IdsInUse'
    BY <1>2, <2>1 DEF FreshInv, IdsInUse
  <2>3. NewRoomQuiet' /\ HandedRoomIsFresh'
    BY <1>1, <1>2, <1>3, <2>1 DEF FreshInv, NewRoomQuiet, HandedRoomIsFresh, InCreate
  <2>4. loc[p].rid \in Rids
    BY <2>1 DEF FreshInv, NewRoomQuiet, InCreate
  <2>5. NewRoomMade'
    BY <1>t, <1>1, <1>2, <1>3, <2>1, <2>4 DEF FreshInv, NewRoomMade, InCreate
  <2> QED
    BY <2>2, <2>3, <2>5 DEF FreshInv
<1> QED
  BY <1>4, <1>5, <1>6

\* The steps of the game service: they work on the room p holds the id of.
LEMMA GameFreshKept ==
    ASSUME TypeInv, TurnInv, FreshInv, NEW p \in Procs, GameStep(p), ~initByRoom(p)
    PROVE  FreshKept(p)
<1> USE DEF hallVars, gameVars
<1> DEFINE r0 == loc[p].rid
<1>t. /\ pc \in [Procs -> PCs] /\ loc \in [Procs -> Locals]
      /\ rounds \in [Rids -> Seq(Round)] /\ NoRid <= ridIndex
  BY TableAssumption DEF TypeInv, TypeOK, NoRid
<1>1. \A q \in Procs \ {p} : pc'[q] = pc[q] /\ loc'[q] = loc[q]
  BY GameTurn DEF TurnKept
<1>2. UNCHANGED <<players, rooms, ridIndex>> /\ pc[p] \notin Waiting
  BY DEF GameStep, closeRound, initByRound, gameAction_refuse, gameAction_ready,
         gameAction_bet, READY_mark, READY_full, BET_init, BET_arm, gameAction_end,
         DEAL_cards, DEAL_arm, ENDED_next, CLOSED_close, Waiting
<1>3. \A t \in armed' : t \in armed \/ t.rid = r0
  <2>1. \/ armed' = armed \/ \E i : armed' = close_timeout(r0, i)
        \/ \E i, kind : armed' = create_timeout(r0, i, kind)
    BY DEF GameStep, closeRound, initByRound, gameAction_refuse, gameAction_ready,
           gameAction_bet, READY_mark, READY_full, BET_init, BET_arm, gameAction_end,
           DEAL_cards, DEAL_arm, ENDED_next, CLOSED_close
  <2> QED
    BY <2>1 DEF close_timeout, create_timeout
<1>4. \A r \in Rids : r # r0 => rounds'[r] = rounds[r]
  <2>1. \/ rounds' = rounds \/ \E i, st : rounds' = change_status(r0, i, st)
        \/ \E new : rounds' = [rounds EXCEPT ![r0] = new]
    BY DEF GameStep, closeRound, initByRound, gameAction_refuse, gameAction_ready,
           gameAction_bet, READY_mark, READY_full, BET_init, BET_arm, gameAction_end,
           DEAL_cards, DEAL_arm, ENDED_next, CLOSED_close
  <2> QED
    BY <1>t, <2>1, ChangeStatusKeeps
<1>5. /\ pc'[p] \notin InCreate
      /\ \/ loc'[p].rid \in {r0, NoRid}
         \/ pc'[p] \in Waiting /\ \E u \in Uids : loc'[p].rid = players[u].rid
  <2> USE DEF InCreate
  <2>1. ASSUME Finish(p) \/ Abort(p)
        PROVE  pc'[p] \notin InCreate /\ loc'[p].rid \in {r0, NoRid}
    BY <1>t, <2>1 DEF Abort, Finish, Goto, NoLocals
  <2>2. CASE closeRound(p) \/ initByRound(p) \/ gameAction_end(p)
    BY <1>t, <2>1, <2>2 DEF closeRound, initByRound, gameAction_end, Goto
  <2>3. CASE gameAction_refuse(p)
    BY <1>t, <2>3 DEF gameAction_refuse, Goto
  <2>4. CASE gameAction_ready(p) \/ gameAction_bet(p)
    <3>1. \/ Goto(p, "act_end")
          \/ /\ loc' = [loc EXCEPT ![p].rid = players[loc[p].uid].rid]
             /\ pc' = [pc EXCEPT ![p] = "ready_bcast"] \/ pc' = [pc EXCEPT ![p] = "betmsg_bcast"]
      BY <2>4 DEF gameAction_ready, gameAction_bet
    <3>2. loc[p].uid \in Uids
      BY <2>4 DEF gameAction_ready, gameAction_bet, InFight
    <3>3. [loc[p] EXCEPT !.rid = players[loc[p].uid].rid].rid = players[loc[p].uid].rid
      BY <1>t DEF Locals
    <3> QED
      BY <1>t, <3>1, <3>2, <3>3 DEF Goto, Waiting
  <2>5. CASE READY_mark(p)
    BY <1>t, <2>1, <2>5 DEF READY_mark, Locals
  <2>6. CASE READY_full(p)
    BY <1>t, <2>6 DEF READY_full, Goto, Locals
  <2>7. CASE BET_init(p) \/ BET_arm(p)
    BY <1>t, <2>7 DEF BET_init, BET_arm, Goto
  <2>8. CASE DEAL_cards(p) \/ DEAL_arm(p) \/ ENDED_next(p) \/ CLOSED_close(p)
    BY <1>t, <2>1, <2>8 DEF DEAL_cards, DEAL_arm, ENDED_next, CLOSED_close, Goto
  <2> QED
    BY <2>2, <2>3, <2>4, <2>5, <2>6, <2>7, <2>8 DEF GameStep
<1>6. /\ loc'[p].rid <= ridIndex
      /\ \A t \in armed' : t.rid <= ridIndex
      /\ \A r \in Rids : rounds'[r] # <<>> => r <= ridIndex
  BY <1>t, <1>3, <1>4, <1>5 DEF FreshInv, IdsInUse
<1>7. ASSUME NEW q \in Procs \ {p}, pc[q] \in InCreate
      PROVE  Apart(p, loc[q].rid)
  <2>1. loc[q].rid \in Rids /\ r0 # loc[q].rid /\ \A t \in armed : t.rid # loc[q].rid
    BY <1>2, <1>7 DEF FreshInv, NewRoomQuiet
  <2>2. loc[q].rid # NoRid
    BY <2>1 DEF Rids, NoRid
  <2> QED
    BY <1>2, <1>3, <1>4, <1>5, <2>1, <2>2 DEF Apart
<1> QED
  BY <1>1, <1>2, <1>5, <1>6, <1>7 DEF FreshKept

\* The first round of the room.
LEMMA FirstRoundFresh ==
    ASSUME TypeInv, HallInv, TurnInv, FreshInv, NEW p \in Procs, initByRoom(p)
    PROVE  FreshInv'
<1> USE DEF hallVars, gameVars
<1> DEFINE r0 == loc[p].rid
<1>t. pc \in [Procs -> PCs] /\ rounds \in [Rids -> Seq(Round)]
  BY DEF TypeInv, TypeOK
<1>1. /\ pc[p] = "create_init" /\ pc'[p] = "create_done"
      /\ \A q \in Procs \ {p} : pc'[q] = pc[q]
      /\ UNCHANGED <<loc, players, rooms, ridIndex, armed>>
  BY <1>t DEF initByRoom, Goto
<1>2. r0 \in Rids /\ rounds[r0] = <<>>
  BY <1>1 DEF FreshInv, NewRoomQuiet, NewRoomMade, InCreate
<1>3. rounds' = [rounds EXCEPT ![r0] = <<NewRound(loc[p].uid)>>]
  BY <1>2 DEF initByRoom
<1>4. rounds'[r0] = <<NewRound(loc[p].uid)>> /\ \A r \in Rids \ {r0} : rounds'[r] = rounds[r]
  BY <1>t, <1>2, <1>3
<1>5. \A q \in Procs \ {p} : pc[q] \notin InCreate
  BY <1>1 DEF HallInv, HallExclusive, Serving, InHall, InCreate
<1>6. IdsInUse'
  BY <1>1, <1>4 DEF FreshInv, IdsInUse
<1>7. NewRoomQuiet'
  BY <1>1, <1>5 DEF FreshInv, NewRoomQuiet, InCreate, Waiting
<1>8. NewRoomMade'
  BY <1>1, <1>5 DEF FreshInv, NewRoomMade, InCreate
<1>9. HandedRoomIsFresh'
  <2>1. rooms[r0].seat = loc[p].uid
    BY <1>1 DEF FreshInv, NewRoomMade
  <2> QED
    BY <1>1, <1>4, <1>5, <2>1 DEF HandedRoomIsFresh, InCreate
<1> QED
  BY <1>6, <1>7, <1>8, <1>9 DEF FreshInv

LEMMA FireFreshKept ==
    ASSUME TypeInv, TurnInv, FreshInv, NEW p \in Timers, NEW t \in armed, fire(p, t)
    PROVE  p \in Procs /\ FreshKept(p)
<1> USE DEF hallVars, gameVars
<1>t. /\ pc \in [Procs -> PCs] /\ loc \in [Procs -> Locals] /\ p \in Procs
      /\ rounds \in [Rids -> Seq(Round)] /\ t.kind \in {"BET", "DEAL", "ENDED"}
  BY DEF TypeInv, TypeOK, Procs, Timer
<1>1. \A q \in Procs \ {p} : pc'[q] = pc[q] /\ loc'[q] = loc[q]
  BY FireTurn DEF TurnKept
<1>2. armed' = armed \ {t} /\ UNCHANGED <<players, rooms, ridIndex>>
  BY DEF fire
<1>3. \A r \in Rids : r # t.rid => rounds'[r] = rounds[r]
  <2>1. rounds' = rounds \/ rounds' = change_status(t.rid, t.idx, StatusAfter[t.kind])
    BY DEF fire
  <2> QED
    BY <1>t, <2>1, ChangeStatusKeeps
<1>4. pc'[p] \notin InCreate /\ loc'[p].rid = t.rid
  BY <1>t DEF fire, LabelAfter, InCreate, Locals
<1>5. t.rid <= ridIndex
  BY DEF FreshInv, IdsInUse
<1>6. \A r \in Rids : rounds'[r] # <<>> => r <= ridIndex
  BY <1>3, <1>5 DEF FreshInv, IdsInUse
<1>7. ASSUME NEW q \in Procs \ {p}, pc[q] \in InCreate
      PROVE  Apart(p, loc[q].rid)
  BY <1>2, <1>3, <1>4, <1>7 DEF Apart, FreshInv, NewRoomQuiet
<1> QED
  BY <1>t, <1>1, <1>2, <1>4, <1>5, <1>6, <1>7 DEF FreshKept, FreshInv, IdsInUse

LEMMA ClientFresh ==
    ASSUME TypeInv, TurnInv, FreshInv, Clients
    PROVE  FreshInv'
<1> USE DEF hallVars, gameVars
<1>t. /\ pc \in [Procs -> PCs] /\ loc \in [Procs -> Locals] /\ players \in [Uids -> Player]
      /\ ridIndex \in Nat /\ NoRid <= ridIndex
  BY TableAssumption DEF TypeInv, TypeOK, NoRid
<1>1. ASSUME NEW w \in Uids, Login(w) \/ EnterScene(w) PROVE FreshInv'
  <2>1. UNCHANGED <<rooms, ridIndex, rounds, armed, pc, loc>>
    BY <1>1 DEF Login, EnterScene, login_by_token, chanage_serverScene
  <2>2. \A u \in Uids : players'[u].rid \in {players[u].rid, NoRid}
    <3>1. CASE Login(w)
      BY <1>t, <3>1 DEF Login, login_by_token, FreshPlayer
    <3>2. CASE EnterScene(w)
      BY <1>t, <3>2 DEF EnterScene, chanage_serverScene, Player
    <3> QED
      BY <1>1, <3>1, <3>2
  <2>3. IdsInUse'
    BY <1>t, <2>1, <2>2 DEF FreshInv, IdsInUse
  <2>4. NewRoomQuiet' /\ HandedRoomIsFresh'
    BY <2>1 DEF FreshInv, NewRoomQuiet, HandedRoomIsFresh
  <2>5. NewRoomMade'
    BY <2>1, <2>2 DEF FreshInv, NewRoomMade
  <2> QED
    BY <2>3, <2>4, <2>5 DEF FreshInv
\* A request is made at an early label, where no room is known.
<1>2. ASSUME NEW p \in Procs, TurnKept(p), pc[p] = "idle",
             pc'[p] \in {"create", "action_ready", "action_bet"},
             UNCHANGED <<players, rooms, ridIndex, rounds, armed>>
      PROVE  FreshInv'
  <2>1. loc'[p].rid = NoRid /\ pc'[p] \notin InCreate
    BY <1>2 DEF TurnKept, Early, InCreate
  <2>2. \A q \in Procs \ {p} : pc[q] \in InCreate => Apart(p, loc[q].rid)
    BY <1>2, <2>1 DEF Apart, FreshInv, NewRoomQuiet, Rids, NoRid
  <2>3. FreshKept(p)
    BY <1>t, <1>2, <2>1, <2>2 DEF FreshKept, TurnKept, FreshInv, IdsInUse
  <2> QED
    BY <2>3, FreshKeptStep
<1>3. ASSUME NEW p \in Https, NEW u \in Uids, RequestRoom(p, u) PROVE FreshInv'
  <2>1. p \in Procs /\ TurnKept(p)
    BY <1>3, RequestTurn
  <2> QED
    BY <1>t, <1>2, <1>3, <2>1 DEF RequestRoom
<1>4. ASSUME NEW p \in Wss, NEW u \in Uids \cup {NoUid},
             NEW msg \in {"action_ready", "action_bet"}, RequestAction(p, u, msg)
      PROVE  FreshInv'
  <2>1. p \in Procs /\ TurnKept(p)
    BY <1>4, ActionTurn
  <2> QED
    BY <1>t, <1>2, <1>4, <2>1 DEF RequestAction
<1> QED
  BY <1>1, <1>3, <1>4 DEF Clients

LEMMA FreshStepAll ==
    TypeInv /\ TypeInv' /\ HallInv /\ TurnInv /\ FreshInv /\ [Next]_vars => FreshInv'
<1> SUFFICES ASSUME TypeInv, TypeInv', HallInv, TurnInv, FreshInv, [Next]_vars PROVE FreshInv'
  OBVIOUS
<1>1. CASE Clients
  BY <1>1, ClientFresh
<1>2. ASSUME NEW p \in Procs, HallStep(p) PROVE FreshInv'
  BY <1>2, HallFreshKept, CreateFresh, FreshKeptStep
<1>3. ASSUME NEW p \in Procs, GameStep(p) PROVE FreshInv'
  BY <1>3, GameFreshKept, FirstRoundFresh, FreshKeptStep
<1>4. CASE Fire
  BY <1>4, FireFreshKept, FreshKeptStep DEF Fire
<1>5. CASE UNCHANGED vars
  BY <1>5 DEF vars, FreshInv, IdsInUse, NewRoomQuiet, NewRoomMade, HandedRoomIsFresh
<1> QED
  BY <1>1, <1>2, <1>3, <1>4, <1>5 DEF Next

LEMMA FreshInvariant == Spec => []FreshInv
<1>1. TypeInv /\ TypeInv' /\ HallInv /\ TurnInv /\ FreshInv /\ [Next]_vars => FreshInv'
  BY FreshStepAll
<1> QED
  BY <1>1, FreshInit, TypeInvariant, HallInvariant, TurnInvariant, PTL DEF Spec

\* The room that createRoom is about to hand to the client is the player's and has its
\* first round, still in status WAIT, although the player's rid was set two calls
\* earlier and messages of the player may already wait for the hall.
THEOREM HandedRoomsAreFresh == Spec => []HandedRoomIsFresh
<1>1. FreshInv => HandedRoomIsFresh
  BY DEF FreshInv
<1> QED
  BY <1>1, FreshInvariant, PTL

\* No step changes a player's rid from one room to another: setRidWithUid writes over no
\* room, although createRoom looked at the rid one call earlier.
THEOREM RoomsNotTraded == Spec => RoomNotTraded
<1> DEFINE Kept == \A u \in Uids : players[u].rid # NoRid =>
                      players'[u].rid \in {players[u].rid, NoRid}
<1>1. TypeInv /\ HallInv /\ TurnInv /\ FreshInv /\ [Next]_vars => [Kept]_vars
  <2> SUFFICES ASSUME TypeInv, HallInv, TurnInv, FreshInv, Next PROVE Kept
    OBVIOUS
  <2> USE DEF hallVars
  <2>t. players \in [Uids -> Player]
    BY DEF TypeInv, TypeOK
  <2>1. CASE Clients
    <3>1. ASSUME NEW u \in Uids, Login(u) \/ EnterScene(u) PROVE Kept
      BY <2>t, <3>1 DEF Login, EnterScene, login_by_token, chanage_serverScene, FreshPlayer,
                        Player
    <3> QED
      BY <2>1, <3>1 DEF Clients, RequestRoom, RequestAction
  <2>2. ASSUME NEW p \in Procs, HallStep(p) PROVE Kept
    <3>1. CASE createRoom_setRid(p)
      <4>1. /\ players' = setRidWithUid(loc[p].rid, loc[p].uid)
            /\ \A u \in Uids : u = loc[p].uid => players[u].rid = NoRid
        BY <3>1 DEF createRoom_setRid, FreshInv, NewRoomMade
      <4> QED
        BY <2>t, <4>1 DEF setRidWithUid
    <3>2. CASE createRoom_allocate(p) \/ createRoom_store(p)
      BY <3>2 DEF createRoom_allocate, createRoom_store
    <3> QED
      BY <2>2, <3>1, <3>2, HallFreshKept DEF FreshKept
  <2>3. ASSUME NEW p \in Procs, GameStep(p) PROVE Kept
    BY <2>3, GameFreshKept DEF FreshKept, initByRoom
  <2>4. CASE Fire
    BY <2>4, FireFreshKept DEF Fire, FreshKept
  <2> QED
    BY <2>1, <2>2, <2>3, <2>4 DEF Next
<1> QED
  BY <1>1, TypeInvariant, HallInvariant, TurnInvariant, FreshInvariant, PTL
     DEF Spec, RoomNotTraded
=============================================================================
