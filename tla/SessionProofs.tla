---------------------------- MODULE SessionProofs ---------------------------
(***************************************************************************)
(* Session's safety, for any sets of users, tokens, connections and        *)
(* coroutines and any number of logins: the previous connection of a       *)
(* player is cut, a player in the fight scene has a socket, and the online *)
(* number counts the users that the token service knows.                   *)
(***************************************************************************)
EXTENDS Session, TLAPS, SequenceTheorems, FiniteSetTheorems

ConnPCs == {"login", "check", "closing", "bind", "accepted", "rejected"}
ExitPCs == {"exit", "exit_closing", "exit_unbind"}

\* Every coroutine serves its own kind of requests, and knows the user it serves.
LocalsKnown ==
    /\ \A c \in Conns : pc[c] # "idle" =>
          pc[c] \in ConnPCs /\ loc[c].uid \in Uids /\ loc[c].scene \in {"hall", "fight"}
    /\ \A h \in Https : pc[h] # "idle" => pc[h] = "third" /\ loc[h].token \in Tokens
    /\ \A x \in Closers : pc[x] # "idle" => pc[x] \in ExitPCs /\ loc[x].uid \in Uids

TypeInv == TypeOK /\ LocalsKnown

\* Labels at which the token service has admitted the handler and waits with it.
Holding == {"closing", "bind", "exit_closing", "exit_unbind"}

\* The token service's queue has admitted whoever is there, hence at most one handler is.
TokenExclusive == \A p \in Procs : pc[p] \in Holding => Serving("token", p)

\* Until a connection opens, nobody reads from it and it is bound to nobody.
NewConnections == \A c \in Conns : conns[c] = "new" => pc[c] = "idle" /\ owner[c] = NoOwner

\* Nobody is bound on behalf of a login still to come.
OwnersPast == \A c \in Conns : owner[c].uid \in Uids => owner[c].epoch <= epoch[owner[c].uid]

\* The login on behalf of which p binds a connection.
LoginOf(p) == [uid |-> loc[p].uid, epoch |-> epoch[loc[p].uid]]

\* Whoever is about to change the socket of a player has closed the previous one.
ReadyToBind ==
    \A p \in Procs, c \in Conns :
        pc[p] \in {"bind", "exit_unbind"} /\ conns[c] = "open" => owner[c] # LoginOf(p)

CutInv == TokenExclusive /\ NewConnections /\ OwnersPast /\ ReadyToBind /\ OldConnectionCut

-----------------------------------------------------------------------------
(* Types *)

LEMMA ProcKinds ==
    /\ \A p \in Conns : p \in Procs /\ p \notin Https /\ p \notin Closers
    /\ \A p \in Https : p \in Procs /\ p \notin Conns /\ p \notin Closers
    /\ \A p \in Closers : p \in Procs /\ p \notin Https /\ p \notin Conns
BY SessionAssumption DEF Procs

LEMMA TypeInit == Init => TypeInv
<1> SUFFICES ASSUME Init PROVE TypeInv
  OBVIOUS
<1>1. /\ NoPlayer \in Player /\ NoLocals \in Locals
      /\ NoOwner \in [uid: Uids \cup {NoUid}, epoch: Nat]
  BY DEF NoPlayer, Player, Scenes, NoLocals, Locals, NoOwner
<1>2. TypeOK
  BY <1>1 DEF Init, TypeOK, ConnStates, PCs, Services
<1>3. LocalsKnown
  BY ProcKinds DEF Init, LocalsKnown
<1> QED
  BY <1>2, <1>3 DEF TypeInv

LEMMA QueueType ==
    ASSUME queue \in [Services -> Seq(Procs)], NEW p \in Procs, NEW s \in Services
    PROVE  /\ Enter(queue, s, p) \in [Services -> Seq(Procs)]
           /\ Serving(s, p) => Leave(queue, s) \in [Services -> Seq(Procs)]
<1>1. Append(queue[s], p) \in Seq(Procs)
  OBVIOUS
<1>2. queue[s] # <<>> => Tail(queue[s]) \in Seq(Procs)
  OBVIOUS
<1> QED
  BY <1>1, <1>2 DEF Enter, Leave, Serving

\* A player's scene and socket change together.
LEMMA BoundType ==
    ASSUME players \in [Uids -> Player], NEW u \in Uids, NEW s \in Scenes,
           NEW k \in Conns \cup {NoConn}
    PROVE  /\ [players EXCEPT ![u].scene = s, ![u].sock = k] \in [Uids -> Player]
           /\ \A v \in Uids : [players EXCEPT ![u].scene = s, ![u].sock = k][v] =
                 IF v = u THEN [players[u] EXCEPT !.scene = s, !.sock = k] ELSE players[v]
<1> DEFINE new == [players[u] EXCEPT !.scene = s, !.sock = k]
<1>1. players[u] \in Player
  OBVIOUS
<1>2. new \in Player
  BY <1>1 DEF Player
<1>3. [players EXCEPT ![u].scene = s, ![u].sock = k] = [players EXCEPT ![u] = new]
  OBVIOUS
<1> HIDE DEF new
<1>4. /\ [players EXCEPT ![u] = new] \in [Uids -> Player]
      /\ \A v \in Uids : [players EXCEPT ![u] = new][v] = IF v = u THEN new ELSE players[v]
  BY <1>2
<1> QED
  BY <1>3, <1>4 DEF new

LEMMA UnboundType ==
    ASSUME players \in [Uids -> Player], NEW u \in Uids
    PROVE  \A v \in Uids : [players EXCEPT ![u].scene = "hall", ![u].sock = NoConn][v] =
              IF v = u THEN [players[v] EXCEPT !.scene = "hall", !.sock = NoConn] ELSE players[v]
<1>1. "hall" \in Scenes /\ NoConn \in Conns \cup {NoConn}
  BY DEF Scenes
<1> QED
  BY <1>1, BoundType

LEMMA ClientsType == TypeInv /\ Clients => TypeInv'
<1> SUFFICES ASSUME TypeInv, Clients PROVE TypeInv'
  OBVIOUS
<1> USE ProcKinds
<1>1. ASSUME NEW c \in Conns, on_open(c) \/ on_close(c) PROVE TypeInv'
  BY <1>1 DEF on_open, on_close, TypeInv, TypeOK, LocalsKnown, ConnStates
<1>2. ASSUME NEW c \in Conns, NEW u \in Uids, NEW tok \in Tokens, NEW s \in {"hall", "fight"},
             on_message(c, u, tok, s)
      PROVE  TypeInv'
  <2>1. queue' \in [Services -> Seq(Procs)]
    BY <1>2, QueueType DEF on_message, TypeInv, TypeOK, Services
  <2>2. [uid |-> u, token |-> tok, scene |-> s] \in Locals
    BY DEF Locals, Scenes
  <2>3. TypeOK'
    BY <1>2, <2>1, <2>2 DEF on_message, Goto, TypeInv, TypeOK, PCs
  <2>4. LocalsKnown'
    BY <1>2 DEF on_message, Goto, TypeInv, TypeOK, LocalsKnown, ConnPCs
  <2> QED
    BY <2>3, <2>4 DEF TypeInv
<1>3. ASSUME NEW h \in Https, NEW tok \in Tokens, login_third(h, tok) PROVE TypeInv'
  <2>1. queue' \in [Services -> Seq(Procs)]
    BY <1>3, QueueType DEF login_third, TypeInv, TypeOK, Services
  <2>2. loc' \in [Procs -> Locals]
    BY <1>3 DEF login_third, TypeInv, TypeOK, Locals
  <2>3. TypeOK'
    BY <1>3, <2>1, <2>2 DEF login_third, Goto, TypeInv, TypeOK, PCs
  <2>4. LocalsKnown'
    BY <1>3 DEF login_third, Goto, TypeInv, TypeOK, LocalsKnown, Locals
  <2> QED
    BY <2>3, <2>4 DEF TypeInv
<1>4. ASSUME NEW x \in Closers, NEW u \in Uids, closeRoom(x, u) PROVE TypeInv'
  <2>1. queue' \in [Services -> Seq(Procs)]
    BY <1>4, QueueType DEF closeRoom, TypeInv, TypeOK, Services
  <2>2. loc' \in [Procs -> Locals]
    BY <1>4 DEF closeRoom, TypeInv, TypeOK, Locals
  <2>3. TypeOK'
    BY <1>4, <2>1, <2>2 DEF closeRoom, Goto, TypeInv, TypeOK, PCs
  <2>4. LocalsKnown'
    BY <1>4 DEF closeRoom, Goto, TypeInv, TypeOK, LocalsKnown, Locals, ExitPCs
  <2> QED
    BY <2>3, <2>4 DEF TypeInv
<1> QED
  BY <1>1, <1>2, <1>3, <1>4 DEF Clients

LEMMA ConnType == ASSUME TypeInv, NEW c \in Conns, ConnStep(c) PROVE TypeInv'
<1> USE ProcKinds
<1>n. NoLocals \in Locals /\ NoLocals.uid = NoUid
  BY DEF NoLocals, Locals, Scenes
<1>s. pc[c] # "idle" => loc[c].scene \in {"hall", "fight"} /\ loc[c].uid \in Uids
  BY DEF TypeInv, LocalsKnown
<1>t. /\ {"token", "hall", "fight"} = Services /\ queue \in [Services -> Seq(Procs)]
      /\ pc \in [Procs -> PCs] /\ loc \in [Procs -> Locals]
  BY DEF TypeInv, TypeOK, Services
<1>1. CASE login_by_uid_token(c)
  <2>1. queue' \in [Services -> Seq(Procs)]
    BY <1>1, <1>t, QueueType DEF login_by_uid_token
  <2> QED
    BY <1>1, <2>1 DEF login_by_uid_token, Goto, TypeInv, TypeOK, LocalsKnown, PCs, ConnPCs
<1>2. CASE login_accepted(c)
  <2>1. queue' \in [Services -> Seq(Procs)]
    BY <1>2, <1>t, <1>s, QueueType DEF login_accepted
  <2>2. fdUid' \in [Conns -> Uids \cup {NoUid}]
    BY <1>2, <1>s DEF login_accepted, TypeInv, TypeOK
  <2> QED
    BY <1>2, <1>n, <2>1, <2>2 DEF login_accepted, Goto, TypeInv, TypeOK, LocalsKnown, PCs
<1>3. CASE login_rejected(c)
  <2>1. queue' \in [Services -> Seq(Procs)]
    BY <1>3, <1>t, <1>s, QueueType DEF login_rejected
  <2> QED
    BY <1>3, <1>n, <2>1 DEF login_rejected, Goto, TypeInv, TypeOK, LocalsKnown, PCs
<1>4. CASE chanage_check(c)
  <2>1. queue' \in [Services -> Seq(Procs)]
    BY <1>4, <1>t, QueueType DEF chanage_check
  <2>2. \E l \in {"rejected", "closing", "bind"} : pc' = [pc EXCEPT ![c] = l]
    BY <1>4 DEF chanage_check, Goto
  <2>3. pc' \in [Procs -> PCs] /\ pc'[c] \in ConnPCs
    BY <1>t, <2>2 DEF PCs, ConnPCs
  <2>4. TypeOK'
    BY <1>4, <2>1, <2>3 DEF chanage_check, TypeInv, TypeOK
  <2>5. LocalsKnown'
    <3>1. \A q \in Procs \ {c} : pc'[q] = pc[q]
      BY <1>t, <2>2
    <3>2. loc' = loc /\ pc[c] # "idle"
      BY <1>4 DEF chanage_check
    <3> QED
      BY <1>s, <2>3, <3>1, <3>2 DEF TypeInv, LocalsKnown
  <2> QED
    BY <2>4, <2>5 DEF TypeInv
<1>5. CASE chanage_close(c)
  <2>1. conns' \in [Conns -> ConnStates]
    BY <1>5 DEF chanage_close, close_agent, TypeInv, TypeOK, ConnStates
  <2> QED
    BY <1>5, <2>1 DEF chanage_close, Goto, TypeInv, TypeOK, LocalsKnown, PCs, ConnPCs
<1>6. CASE chanage_bind(c)
  <2>1. queue' \in [Services -> Seq(Procs)]
    BY <1>6, <1>t, QueueType DEF chanage_bind
  <2>2. players' \in [Uids -> Player]
    BY <1>6, <1>s, BoundType DEF chanage_bind, TypeInv, TypeOK, Scenes
  <2>3. owner' \in [Conns -> [uid: Uids \cup {NoUid}, epoch: Nat]]
    BY <1>6, <1>s DEF chanage_bind, TypeInv, TypeOK
  <2> QED
    BY <1>6, <2>1, <2>2, <2>3
    DEF chanage_bind, Goto, TypeInv, TypeOK, LocalsKnown, PCs, ConnPCs
<1> QED
  BY <1>1, <1>2, <1>3, <1>4, <1>5, <1>6 DEF ConnStep

LEMMA LoginType == ASSUME TypeInv, NEW h \in Https, login_by_token(h) PROVE TypeInv'
<1> USE ProcKinds
<1>1. NoLocals \in Locals
  BY DEF NoLocals, Locals, Scenes
<1>2. loc[h].token \in Tokens /\ UidOf[loc[h].token] \in Uids
  BY SessionAssumption DEF login_by_token, TypeInv, LocalsKnown
<1>3. queue' \in [Services -> Seq(Procs)]
  BY QueueType DEF login_by_token, TypeInv, TypeOK, Services
<1>4. [NoPlayer EXCEPT !.on = TRUE, !.token = loc[h].token] \in Player
  BY <1>2 DEF NoPlayer, Player, Scenes
<1>5. players' \in [Uids -> Player] /\ online' \in Int /\ epoch' \in [Uids -> Nat]
  BY <1>2, <1>4 DEF login_by_token, OnlineAfterLogin, TypeInv, TypeOK
<1> QED
  BY <1>1, <1>3, <1>5 DEF login_by_token, Goto, TypeInv, TypeOK, LocalsKnown, PCs

LEMMA CloserType == ASSUME TypeInv, NEW x \in Closers, CloserStep(x) PROVE TypeInv'
<1> USE ProcKinds
<1>1. CASE ExitRoom_begin(x)
  <2>1. \E l \in {"exit_closing", "exit_unbind"} : pc' = [pc EXCEPT ![x] = l]
    BY <1>1 DEF ExitRoom_begin, Goto
  <2>2. pc' \in [Procs -> PCs] /\ pc'[x] \in ExitPCs
    BY <2>1 DEF TypeInv, TypeOK, PCs, ExitPCs
  <2>3. TypeOK'
    BY <1>1, <2>2 DEF ExitRoom_begin, TypeInv, TypeOK
  <2>4. LocalsKnown'
    <3>1. \A q \in Procs \ {x} : pc'[q] = pc[q]
      BY <2>1 DEF TypeInv, TypeOK
    <3>2. loc' = loc /\ pc[x] # "idle"
      BY <1>1 DEF ExitRoom_begin
    <3> QED
      BY <2>2, <3>1, <3>2 DEF TypeInv, LocalsKnown
  <2> QED
    BY <2>3, <2>4 DEF TypeInv
<1>2. CASE ExitRoom_close(x)
  <2>1. conns' \in [Conns -> ConnStates]
    BY <1>2 DEF ExitRoom_close, close_agent, TypeInv, TypeOK, ConnStates
  <2> QED
    BY <1>2, <2>1 DEF ExitRoom_close, Goto, TypeInv, TypeOK, LocalsKnown, PCs, ExitPCs
<1>3. CASE ExitRoom_unbind(x)
  <2>1. queue' \in [Services -> Seq(Procs)]
    BY <1>3, QueueType DEF ExitRoom_unbind, TypeInv, TypeOK, Services
  <2>2. players' \in [Uids -> Player]
    BY <1>3, BoundType DEF ExitRoom_unbind, TypeInv, TypeOK, LocalsKnown, Scenes
  <2>3. NoLocals \in Locals
    BY DEF NoLocals, Locals, Scenes
  <2> QED
    BY <1>3, <2>1, <2>2, <2>3
    DEF ExitRoom_unbind, Goto, TypeInv, TypeOK, LocalsKnown, PCs
<1> QED
  BY <1>1, <1>2, <1>3 DEF CloserStep

LEMMA TypeNext == TypeInv /\ [Next]_vars => TypeInv'
<1> SUFFICES ASSUME TypeInv, [Next]_vars PROVE TypeInv'
  OBVIOUS
<1>1. CASE UNCHANGED vars
  BY <1>1 DEF vars, TypeInv, TypeOK, LocalsKnown
<1> QED
  BY <1>1, ClientsType, ConnType, LoginType, CloserType DEF Next

\* The variables keep their types, and every handler knows the user it serves.
THEOREM SessionTyped == Spec => []TypeInv
BY TypeInit, TypeNext, PTL DEF Spec

-----------------------------------------------------------------------------
(* Turns of the token service *)

\* What a step of p has to show of p itself.
HolderKept(p) ==
    /\ \A q \in Procs \ {p} : pc'[q] = pc[q] /\ loc'[q] = loc[q]
    /\ \/ /\ queue'["token"] \in {queue["token"], Append(queue["token"], p)}
          /\ pc'[p] \in Holding => Serving("token", p)
       \/ Serving("token", p) /\ pc'[p] \notin Holding

LEMMA HolderStep ==
    ASSUME TypeInv, TokenExclusive, NEW p \in Procs, HolderKept(p)
    PROVE  TokenExclusive'
<1>1. queue["token"] \in Seq(Procs)
  BY DEF TypeInv, TypeOK, Services
<1>2. ASSUME queue'["token"] \in {queue["token"], Append(queue["token"], p)},
             NEW q \in Procs, Serving("token", q)
      PROVE  Serving("token", q)'
  <2>1. queue["token"] # <<>>
    BY <1>2 DEF Serving
  <2>2. /\ Append(queue["token"], p) # <<>>
        /\ Head(Append(queue["token"], p)) = Head(queue["token"])
    BY <1>1, <2>1, HeadTailAppend, AppendProperties
  <2> QED
    BY <1>2, <2>1, <2>2 DEF Serving
<1>3. CASE Serving("token", p) /\ pc'[p] \notin Holding
  BY <1>3 DEF HolderKept, TokenExclusive, Serving
<1>4. CASE /\ queue'["token"] \in {queue["token"], Append(queue["token"], p)}
           /\ pc'[p] \in Holding => Serving("token", p)
  BY <1>2, <1>4 DEF HolderKept, TokenExclusive
<1> QED
  BY <1>3, <1>4 DEF HolderKept

\* Nobody else holds the token service's queue.
LEMMA SoleHolder ==
    ASSUME TokenExclusive, NEW p \in Procs, Serving("token", p),
           NEW q \in Procs, pc[q] \in Holding
    PROVE  q = p
BY DEF TokenExclusive, Serving

LEMMA ClientHolder ==
    /\ \A c \in Conns : TypeInv /\ TokenExclusive /\ (on_open(c) \/ on_close(c))
          => HolderKept(c)
    /\ \A c \in Conns, u \in Uids, tok \in Tokens, s \in {"hall", "fight"} :
          TypeInv /\ on_message(c, u, tok, s) => HolderKept(c)
    /\ \A h \in Https, tok \in Tokens : TypeInv /\ login_third(h, tok) => HolderKept(h)
    /\ \A x \in Closers, u \in Uids : TypeInv /\ closeRoom(x, u) => HolderKept(x)
<1> USE ProcKinds DEF HolderKept, TypeInv, TypeOK, Services, Holding, Enter, Goto
<1>1. \A c \in Conns : TypeInv /\ TokenExclusive /\ (on_open(c) \/ on_close(c))
          => HolderKept(c)
  BY DEF on_open, on_close, TokenExclusive
<1>2. \A c \in Conns, u \in Uids, tok \in Tokens, s \in {"hall", "fight"} :
          TypeInv /\ on_message(c, u, tok, s) => HolderKept(c)
  BY DEF on_message
<1>3. \A h \in Https, tok \in Tokens : TypeInv /\ login_third(h, tok) => HolderKept(h)
  BY DEF login_third
<1>4. \A x \in Closers, u \in Uids : TypeInv /\ closeRoom(x, u) => HolderKept(x)
  BY DEF closeRoom
<1> QED
  BY <1>1, <1>2, <1>3, <1>4

LEMMA ConnHolder ==
    ASSUME TypeInv, TokenExclusive, NEW c \in Conns, ConnStep(c)
    PROVE  HolderKept(c)
<1> USE ProcKinds
<1>t. queue \in [Services -> Seq(Procs)] /\ pc \in [Procs -> PCs] /\ loc \in [Procs -> Locals]
  BY DEF TypeInv, TypeOK
<1>s. pc[c] # "idle" => loc[c].scene \in {"hall", "fight"}
  BY DEF TypeInv, LocalsKnown
<1>1. CASE login_by_uid_token(c)
  BY <1>1, <1>t DEF login_by_uid_token, HolderKept, Holding, Enter, Goto, Services
<1>2. CASE login_accepted(c)
  BY <1>2, <1>t, <1>s DEF login_accepted, HolderKept, Holding, Leave, Goto, Services
<1>3. CASE login_rejected(c)
  BY <1>3, <1>t, <1>s DEF login_rejected, HolderKept, Holding, Leave, Goto, Services
<1>4. CASE chanage_check(c)
  BY <1>4, <1>t DEF chanage_check, HolderKept, Holding, Leave, Goto, Services
<1>5. CASE chanage_close(c)
  BY <1>5, <1>t DEF chanage_close, HolderKept, Holding, Goto, Services
<1>6. CASE chanage_bind(c)
  BY <1>6, <1>t DEF chanage_bind, HolderKept, Holding, Leave, Goto, Services
<1> QED
  BY <1>1, <1>2, <1>3, <1>4, <1>5, <1>6 DEF ConnStep

LEMMA LoginHolder ==
    ASSUME TypeInv, NEW h \in Https, login_by_token(h)
    PROVE  HolderKept(h)
BY ProcKinds DEF login_by_token, HolderKept, Holding, Leave, Goto, TypeInv, TypeOK, Services

LEMMA CloserHolder ==
    ASSUME TypeInv, TokenExclusive, NEW x \in Closers, CloserStep(x)
    PROVE  HolderKept(x)
<1> USE ProcKinds
<1>t. queue \in [Services -> Seq(Procs)] /\ pc \in [Procs -> PCs] /\ loc \in [Procs -> Locals]
  BY DEF TypeInv, TypeOK
<1>1. CASE ExitRoom_begin(x)
  BY <1>1, <1>t DEF ExitRoom_begin, HolderKept, Holding, Goto, Services
<1>2. CASE ExitRoom_close(x)
  BY <1>2, <1>t DEF ExitRoom_close, HolderKept, Holding, Goto, Services
<1>3. CASE ExitRoom_unbind(x)
  BY <1>3, <1>t DEF ExitRoom_unbind, HolderKept, Holding, Leave, Goto, Services
<1> QED
  BY <1>1, <1>2, <1>3 DEF CloserStep

-----------------------------------------------------------------------------
(* The previous connection is cut *)

LEMMA CutInit == Init => CutInv
<1> SUFFICES ASSUME Init PROVE CutInv
  OBVIOUS
<1>1. TokenExclusive /\ ReadyToBind
  BY DEF Init, TokenExclusive, Holding, ReadyToBind
<1>2. NewConnections /\ OwnersPast /\ OldConnectionCut
  BY SessionAssumption, ProcKinds
  DEF Init, NewConnections, OwnersPast, NoOwner, OldConnectionCut
<1> QED
  BY <1>1, <1>2 DEF CutInv

\* Steps that bind nobody and log nobody in: at most they close connections, open one
\* that was never bound, or bring p to the point of changing a socket.
CutKept(p) ==
    /\ HolderKept(p)
    /\ owner' = owner /\ epoch' = epoch /\ players' = players
    /\ \A c \in Conns : /\ conns'[c] = "open" => conns[c] = "open" \/ owner[c] = NoOwner
                        /\ conns'[c] = "new" => conns[c] = "new"
    /\ p \in Conns /\ conns'[p] = "new" => pc'[p] = "idle"
    /\ pc'[p] \in {"bind", "exit_unbind"} =>
          \A c \in Conns : conns'[c] = "open" => owner[c] # LoginOf(p)'

LEMMA CutStep ==
    ASSUME TypeInv, TypeInv', CutInv, NEW p \in Procs, CutKept(p)
    PROVE  CutInv'
<1>1. TokenExclusive'
  BY HolderStep DEF CutInv, CutKept
<1>2. NewConnections'
  BY ProcKinds DEF CutInv, CutKept, HolderKept, NewConnections
<1>3. OwnersPast'
  BY DEF CutInv, CutKept, OwnersPast
<1>4. ReadyToBind'
  <2> SUFFICES ASSUME NEW q \in Procs, NEW c \in Conns,
                      pc'[q] \in {"bind", "exit_unbind"}, conns'[c] = "open"
               PROVE  owner'[c] # LoginOf(q)'
    BY DEF ReadyToBind
  <2>1. loc'[q].uid \in Uids
    BY DEF TypeInv, LocalsKnown, Procs, ConnPCs, ExitPCs
  <2>2. CASE q = p
    BY <2>2 DEF CutKept
  <2>3. CASE q # p
    BY <2>1, <2>3, SessionAssumption
    DEF CutKept, HolderKept, CutInv, ReadyToBind, LoginOf, NoOwner
  <2> QED
    BY <2>2, <2>3
<1>5. OldConnectionCut'
  BY SessionAssumption DEF CutInv, CutKept, OldConnectionCut, NoOwner
<1> QED
  BY <1>1, <1>2, <1>3, <1>4, <1>5 DEF CutInv

LEMMA ClientsCut == TypeInv /\ TypeInv' /\ CutInv /\ Clients => CutInv'
<1> SUFFICES ASSUME TypeInv, TypeInv', CutInv, Clients PROVE CutInv'
  OBVIOUS
<1> USE ProcKinds
<1>t. /\ pc \in [Procs -> PCs] /\ conns \in [Conns -> ConnStates]
      /\ TokenExclusive /\ NewConnections
  BY DEF TypeInv, TypeOK, CutInv
<1>1. ASSUME NEW c \in Conns, on_open(c) \/ on_close(c) PROVE CutKept(c)
  <2>1. HolderKept(c) /\ pc[c] = "idle"
    BY <1>1, <1>t, ClientHolder DEF on_open, on_close, NewConnections
  <2> QED
    BY <1>1, <1>t, <2>1 DEF on_open, on_close, NewConnections, CutKept
<1>2. ASSUME NEW c \in Conns, NEW u \in Uids, NEW tok \in Tokens, NEW s \in {"hall", "fight"},
             on_message(c, u, tok, s)
      PROVE  CutKept(c)
  BY <1>2, <1>t, ClientHolder DEF on_message, Goto, CutKept
<1>3. ASSUME NEW h \in Https, NEW tok \in Tokens, login_third(h, tok) PROVE CutKept(h)
  BY <1>3, <1>t, ClientHolder DEF login_third, Goto, CutKept
<1>4. ASSUME NEW x \in Closers, NEW u \in Uids, closeRoom(x, u) PROVE CutKept(x)
  BY <1>4, <1>t, ClientHolder DEF closeRoom, Goto, CutKept
<1> QED
  BY <1>1, <1>2, <1>3, <1>4, CutStep DEF Clients

\* Once the socket of p's player is closed, none of the connections of its login is open.
LEMMA ClosedFirst ==
    ASSUME TypeInv, CutInv, NEW p \in Procs, loc[p].uid \in Uids,
           loc' = loc, epoch' = epoch,
           conns' = close_agent(players[loc[p].uid].sock),
           NEW c \in Conns, conns'[c] = "open"
    PROVE  owner[c] # LoginOf(p)' /\ conns[c] = "open"
<1>1. conns[c] = "open" /\ players[loc[p].uid].sock # c
  BY DEF close_agent, TypeInv, TypeOK
<1> QED
  BY <1>1 DEF CutInv, OldConnectionCut, LoginOf

\* The same when that player has no socket.
LEMMA NoneBound ==
    ASSUME TypeInv, CutInv, NEW p \in Procs, loc[p].uid \in Uids,
           loc' = loc, epoch' = epoch, players[loc[p].uid].sock = NoConn,
           NEW c \in Conns, conns[c] = "open"
    PROVE  owner[c] # LoginOf(p)'
BY SessionAssumption DEF CutInv, OldConnectionCut, LoginOf

\* Closing a connection opens none.
LEMMA CloseAgent ==
    ASSUME TypeInv, NEW k, NEW c \in Conns
    PROVE  close_agent(k)[c] \in {conns[c], "closed"}
BY DEF close_agent, TypeInv, TypeOK

LEMMA ConnCut ==
    ASSUME TypeInv, TypeInv', CutInv, NEW c \in Conns, ConnStep(c)
    PROVE  CutInv'
<1> USE ProcKinds
<1>t. /\ pc \in [Procs -> PCs] /\ conns \in [Conns -> ConnStates]
      /\ TokenExclusive /\ NewConnections
  BY DEF TypeInv, TypeOK, CutInv
<1>h. HolderKept(c)
  BY <1>t, ConnHolder
<1>u. pc[c] # "idle" /\ conns[c] # "new" /\ loc[c].uid \in Uids
  BY <1>t DEF ConnStep, login_by_uid_token, login_accepted, login_rejected, chanage_check,
              chanage_close, chanage_bind, NewConnections, TypeInv, LocalsKnown
<1>1. CASE login_by_uid_token(c) \/ login_accepted(c) \/ login_rejected(c)
  <2>1. CutKept(c)
    BY <1>1, <1>t, <1>h, <1>u
    DEF login_by_uid_token, login_accepted, login_rejected, Goto, CutKept
  <2> QED
    BY <2>1, CutStep
<1>2. CASE chanage_check(c)
  <2>1. pc'[c] \in {"bind", "exit_unbind"} => players[loc[c].uid].sock = NoConn
    BY <1>2, <1>t DEF chanage_check, Goto
  <2>2. CutKept(c)
    BY <1>2, <1>t, <1>h, <1>u, <2>1, NoneBound DEF chanage_check, CutKept
  <2> QED
    BY <2>2, CutStep
<1>3. CASE chanage_close(c)
  <2>1. \A d \in Conns : conns'[d] = "open" => owner[d] # LoginOf(c)' /\ conns[d] = "open"
    BY <1>3, <1>u, ClosedFirst DEF chanage_close
  <2>2. \A d \in Conns : conns'[d] = "new" => conns[d] = "new"
    BY <1>3, CloseAgent DEF chanage_close
  <2>3. CutKept(c)
    BY <1>3, <1>h, <1>u, <2>1, <2>2 DEF chanage_close, CutKept
  <2> QED
    BY <2>3, CutStep
<1>4. CASE chanage_bind(c)
  <2> DEFINE u == loc[c].uid
  <2>1. /\ pc[c] = "bind" /\ Serving("token", c) /\ u \in Uids
        /\ conns' = conns /\ epoch' = epoch
        /\ owner' = [owner EXCEPT ![c] = [uid |-> u, epoch |-> epoch[u]]]
    BY <1>4, <1>u DEF chanage_bind
  <2>2. \A v \in Uids : players'[v].sock = IF v = u THEN c ELSE players[v].sock
    <3>1. players \in [Uids -> Player] /\ loc[c].scene \in Scenes
      BY DEF TypeInv, TypeOK, Locals
    <3>2. players' = [players EXCEPT ![u].scene = loc[c].scene, ![u].sock = c]
      BY <1>4 DEF chanage_bind
    <3>3. \A v \in Uids : players'[v] =
             IF v = u THEN [players[u] EXCEPT !.scene = loc[c].scene, !.sock = c]
             ELSE players[v]
      BY <2>1, <3>1, <3>2, BoundType
    <3> QED
      BY <2>1, <3>1, <3>3 DEF Player
  <2>3. \A d \in Conns : owner'[d] = IF d = c THEN [uid |-> u, epoch |-> epoch[u]] ELSE owner[d]
    BY <2>1 DEF TypeInv, TypeOK
  <2>4. TokenExclusive'
    BY <1>h, <1>t, HolderStep
  <2>5. NewConnections'
    BY <1>h, <1>t, <1>u, <2>1, <2>3 DEF NewConnections, HolderKept
  <2>6. OwnersPast'
    BY <2>1, <2>3 DEF CutInv, OwnersPast, TypeInv, TypeOK
  <2>7. ReadyToBind'
    <3>1. pc' = [pc EXCEPT ![c] = "accepted"]
      BY <1>4 DEF chanage_bind, Goto
    <3> QED
      BY <1>t, <2>1, <3>1, SoleHolder DEF ReadyToBind, Holding
  <2>8. OldConnectionCut'
    <3> SUFFICES ASSUME NEW d \in Conns, NEW v \in Uids, conns[d] = "open",
                        owner'[d] = [uid |-> v, epoch |-> epoch[v]]
                 PROVE  players'[v].sock = d
      BY <2>1 DEF OldConnectionCut
    <3>1. CASE d = c
      BY <2>2, <2>3, <3>1
    <3>2. CASE d # c
      <4>1. owner[d] = [uid |-> v, epoch |-> epoch[v]]
        BY <2>3, <3>2
      <4>2. v # u
        BY <2>1, <4>1 DEF CutInv, ReadyToBind, LoginOf
      <4> QED
        BY <2>2, <4>1, <4>2 DEF CutInv, OldConnectionCut
    <3> QED
      BY <3>1, <3>2
  <2> QED
    BY <2>4, <2>5, <2>6, <2>7, <2>8 DEF CutInv
<1> QED
  BY <1>1, <1>2, <1>3, <1>4 DEF ConnStep

LEMMA LoginCut ==
    ASSUME TypeInv, TypeInv', CutInv, NEW h \in Https, login_by_token(h)
    PROVE  CutInv'
<1> DEFINE u == UidOf[loc[h].token]
<1> USE ProcKinds
<1>1. /\ pc[h] = "third" /\ Serving("token", h) /\ conns' = conns /\ owner' = owner
      /\ pc' = [pc EXCEPT ![h] = "idle"]
      /\ epoch' = [epoch EXCEPT ![u] = @ + 1]
      /\ \A v \in Uids \ {u} : players'[v] = players[v]
  BY DEF login_by_token, Goto, TypeInv, TypeOK
<1>2. u \in Uids /\ epoch \in [Uids -> Nat] /\ pc \in [Procs -> PCs]
      /\ \A c \in Conns : owner[c].epoch \in Nat
  BY <1>1, SessionAssumption DEF TypeInv, TypeOK, LocalsKnown
<1>3. TokenExclusive'
  BY LoginHolder, HolderStep DEF CutInv
<1>4. NewConnections'
  BY <1>1, <1>2 DEF CutInv, NewConnections
<1>5. OwnersPast'
  <2> SUFFICES ASSUME NEW c \in Conns, owner[c].uid \in Uids
               PROVE  owner[c].epoch <= epoch'[owner[c].uid]
    BY <1>1 DEF OwnersPast
  <2>1. owner[c].epoch <= epoch[owner[c].uid]
    BY DEF CutInv, OwnersPast
  <2>2. epoch'[owner[c].uid] \in {epoch[owner[c].uid], epoch[owner[c].uid] + 1}
    BY <1>1, <1>2
  <2> QED
    BY <1>2, <2>1, <2>2
<1>6. ReadyToBind'
  <2>1. \A q \in Procs : pc'[q] \notin {"bind", "exit_unbind"}
    BY <1>1, <1>2, SoleHolder DEF CutInv, Holding
  <2> QED
    BY <2>1 DEF ReadyToBind
<1>7. OldConnectionCut'
  <2> SUFFICES ASSUME NEW c \in Conns, NEW v \in Uids, conns[c] = "open",
                      owner[c] = [uid |-> v, epoch |-> epoch'[v]]
               PROVE  players'[v].sock = c
    BY <1>1 DEF OldConnectionCut
  <2>1. v # u
    <3>1. owner[c].uid = v /\ owner[c].epoch = epoch'[v]
      OBVIOUS
    <3>2. epoch'[v] <= epoch[v]
      BY <3>1 DEF CutInv, OwnersPast
    <3> QED
      BY <1>1, <1>2, <3>2
  <2> QED
    BY <1>1, <1>2, <2>1 DEF CutInv, OldConnectionCut
<1> QED
  BY <1>3, <1>4, <1>5, <1>6, <1>7 DEF CutInv

LEMMA CloserCut ==
    ASSUME TypeInv, TypeInv', CutInv, NEW x \in Closers, CloserStep(x)
    PROVE  CutInv'
<1> USE ProcKinds
<1>t. pc \in [Procs -> PCs] /\ conns \in [Conns -> ConnStates] /\ TokenExclusive
  BY DEF TypeInv, TypeOK, CutInv
<1>h. HolderKept(x)
  BY <1>t, CloserHolder
<1>u. loc[x].uid \in Uids
  BY DEF CloserStep, ExitRoom_begin, ExitRoom_close, ExitRoom_unbind, TypeInv, LocalsKnown
<1>1. CASE ExitRoom_begin(x)
  <2>1. pc'[x] \in {"bind", "exit_unbind"} => players[loc[x].uid].sock = NoConn
    BY <1>1, <1>t DEF ExitRoom_begin, Goto
  <2>2. CutKept(x)
    BY <1>1, <1>h, <1>u, <2>1, NoneBound DEF ExitRoom_begin, CutKept
  <2> QED
    BY <2>2, CutStep
<1>2. CASE ExitRoom_close(x)
  <2>1. \A d \in Conns : conns'[d] = "open" => owner[d] # LoginOf(x)' /\ conns[d] = "open"
    BY <1>2, <1>u, ClosedFirst DEF ExitRoom_close
  <2>2. \A d \in Conns : conns'[d] = "new" => conns[d] = "new"
    BY <1>2, CloseAgent DEF ExitRoom_close
  <2>3. CutKept(x)
    BY <1>2, <1>h, <2>1, <2>2 DEF ExitRoom_close, CutKept
  <2> QED
    BY <2>3, CutStep
<1>3. CASE ExitRoom_unbind(x)
  <2> DEFINE u == loc[x].uid
  <2>1. /\ pc[x] = "exit_unbind" /\ Serving("token", x)
        /\ conns' = conns /\ epoch' = epoch /\ owner' = owner
        /\ pc' = [pc EXCEPT ![x] = "idle"]
        /\ players' = [players EXCEPT ![u].scene = "hall", ![u].sock = NoConn]
    BY <1>3 DEF ExitRoom_unbind, Goto
  <2>2. \A v \in Uids \ {u} : players'[v] = players[v]
    BY <1>u, <2>1, UnboundType DEF TypeInv, TypeOK
  <2>3. TokenExclusive'
    BY <1>h, <1>t, HolderStep
  <2>4. NewConnections' /\ OwnersPast'
    BY <1>t, <2>1 DEF CutInv, NewConnections, OwnersPast
  <2>5. ReadyToBind'
    BY <1>t, <2>1, SoleHolder DEF ReadyToBind, Holding
  <2>6. OldConnectionCut'
    <3> SUFFICES ASSUME NEW c \in Conns, NEW v \in Uids, conns[c] = "open",
                        owner[c] = [uid |-> v, epoch |-> epoch[v]]
                 PROVE  players'[v].sock = c
      BY <2>1 DEF OldConnectionCut
    <3>1. v # u
      BY <2>1 DEF CutInv, ReadyToBind, LoginOf
    <3> QED
      BY <2>2, <3>1 DEF CutInv, OldConnectionCut
  <2> QED
    BY <2>3, <2>4, <2>5, <2>6 DEF CutInv
<1> QED
  BY <1>1, <1>2, <1>3 DEF CloserStep

LEMMA CutNext == TypeInv /\ TypeInv' /\ CutInv /\ [Next]_vars => CutInv'
<1> SUFFICES ASSUME TypeInv, TypeInv', CutInv, [Next]_vars PROVE CutInv'
  OBVIOUS
<1>1. CASE UNCHANGED vars
  BY <1>1 DEF vars, CutInv, TokenExclusive, Serving, NewConnections, OwnersPast,
              ReadyToBind, LoginOf, OldConnectionCut
<1> QED
  BY <1>1, ClientsCut, ConnCut, LoginCut, CloserCut DEF Next

\* Of the connections bound on behalf of a player's latest HTTP login only the one in
\* the player's record can be open, although chanage_serverScene_by_uid_token closes the
\* previous one, waits for the gateway and only then binds the new one: nobody else is
\* admitted by the token service's queue meanwhile.
THEOREM OldConnectionsCut == Spec => []OldConnectionCut
<1>1. Init => CutInv
  BY CutInit
<1>2. CutInv => OldConnectionCut
  BY DEF CutInv
<1> QED
  BY <1>1, <1>2, CutNext, SessionTyped, PTL DEF Spec

-----------------------------------------------------------------------------
(* Players in a fight *)

LEMMA FightNext == TypeInv /\ FightIsBound /\ [Next]_vars => FightIsBound'
<1> SUFFICES ASSUME TypeInv, FightIsBound, [Next]_vars PROVE FightIsBound'
  OBVIOUS
<1>t. players \in [Uids -> Player]
  BY DEF TypeInv, TypeOK
<1>1. CASE players' = players
  BY <1>1 DEF FightIsBound
<1>2. ASSUME NEW c \in Conns, chanage_bind(c) PROVE FightIsBound'
  <2>1. loc[c].scene \in Scenes /\ loc[c].uid \in Uids /\ c # NoConn
    BY <1>2, SessionAssumption DEF chanage_bind, TypeInv, TypeOK, LocalsKnown, Locals, Procs
  <2>2. players' = [players EXCEPT ![loc[c].uid].scene = loc[c].scene, ![loc[c].uid].sock = c]
    BY <1>2 DEF chanage_bind
  <2>3. \A v \in Uids : players'[v] =
           IF v = loc[c].uid THEN [players[v] EXCEPT !.scene = loc[c].scene, !.sock = c]
           ELSE players[v]
    BY <1>t, <2>1, <2>2, BoundType
  <2> QED
    BY <1>t, <2>1, <2>3 DEF FightIsBound, Player
<1>3. ASSUME NEW h \in Https, login_by_token(h) PROVE FightIsBound'
  BY <1>3, <1>t DEF login_by_token, FightIsBound, NoPlayer
<1>4. ASSUME NEW x \in Closers, ExitRoom_unbind(x) PROVE FightIsBound'
  <2>1. loc[x].uid \in Uids
    BY <1>4, ProcKinds DEF ExitRoom_unbind, TypeInv, LocalsKnown
  <2>2. players' = [players EXCEPT ![loc[x].uid].scene = "hall", ![loc[x].uid].sock = NoConn]
    BY <1>4 DEF ExitRoom_unbind
  <2>3. \A v \in Uids : players'[v] =
           IF v = loc[x].uid THEN [players[v] EXCEPT !.scene = "hall", !.sock = NoConn]
           ELSE players[v]
    BY <1>t, <2>1, <2>2, UnboundType
  <2> QED
    BY <1>t, <2>3 DEF FightIsBound, Player
<1> QED
  BY <1>1, <1>2, <1>3, <1>4
  DEF Next, vars, Clients, on_open, on_close, on_message, login_third, closeRoom,
      ConnStep, login_by_uid_token, login_accepted, login_rejected, chanage_check,
      chanage_close, CloserStep, ExitRoom_begin, ExitRoom_close

\* A player in the fight scene has a socket: bindSocket follows setServerScene in one
\* turn, and ExitRoomWithUid takes the scene and the socket away together.
THEOREM FightsAreBound == Spec => []FightIsBound
<1>1. Init => FightIsBound
  BY DEF Init, FightIsBound, NoPlayer
<1> QED
  BY <1>1, FightNext, SessionTyped, PTL DEF Spec

-----------------------------------------------------------------------------
(* The online number *)

Online == {u \in Uids : players[u].on}

\* There are finitely many users whom the token service knows, whatever Uids is.
OnlineInv == IsFiniteSet(Online) /\ OnlineCountsPlayers

LEMMA OnlineNext == TypeInv /\ OnlineInv /\ [Next]_vars => OnlineInv'
<1> SUFFICES ASSUME TypeInv, OnlineInv, [Next]_vars PROVE OnlineInv'
  OBVIOUS
<1>t. players \in [Uids -> Player] /\ IsFiniteSet(Online) /\ online = Cardinality(Online)
  BY DEF TypeInv, TypeOK, OnlineInv, OnlineCountsPlayers, Online
<1>1. ASSUME online' = online, \A u \in Uids : players'[u].on = players[u].on PROVE OnlineInv'
  <2>1. Online' = Online
    BY <1>1 DEF Online
  <2> QED
    BY <1>t, <1>1, <2>1 DEF OnlineInv, OnlineCountsPlayers, Online
<1>2. ASSUME NEW c \in Conns, chanage_bind(c) PROVE OnlineInv'
  <2>1. loc[c].scene \in Scenes /\ loc[c].uid \in Uids
    BY <1>2 DEF chanage_bind, TypeInv, TypeOK, LocalsKnown, Locals, Procs
  <2>2. players' = [players EXCEPT ![loc[c].uid].scene = loc[c].scene, ![loc[c].uid].sock = c]
    BY <1>2 DEF chanage_bind
  <2>3. \A v \in Uids : players'[v] =
           IF v = loc[c].uid THEN [players[v] EXCEPT !.scene = loc[c].scene, !.sock = c]
           ELSE players[v]
    BY <1>t, <2>1, <2>2, BoundType
  <2>4. \A v \in Uids : players'[v].on = players[v].on
    BY <1>t, <2>3 DEF Player
  <2> QED
    BY <1>1, <1>2, <2>4 DEF chanage_bind
<1>3. ASSUME NEW x \in Closers, ExitRoom_unbind(x) PROVE OnlineInv'
  <2>1. loc[x].uid \in Uids
    BY <1>3, ProcKinds DEF ExitRoom_unbind, TypeInv, LocalsKnown
  <2>2. players' = [players EXCEPT ![loc[x].uid].scene = "hall", ![loc[x].uid].sock = NoConn]
    BY <1>3 DEF ExitRoom_unbind
  <2>3. \A v \in Uids : players'[v] =
           IF v = loc[x].uid THEN [players[v] EXCEPT !.scene = "hall", !.sock = NoConn]
           ELSE players[v]
    BY <1>t, <2>1, <2>2, UnboundType
  <2>4. \A v \in Uids : players'[v].on = players[v].on
    BY <1>t, <2>3 DEF Player
  <2> QED
    BY <1>1, <1>3, <2>4 DEF ExitRoom_unbind
<1>4. ASSUME NEW h \in Https, login_by_token(h) PROVE OnlineInv'
  <2> DEFINE u == UidOf[loc[h].token]
  <2>1. u \in Uids
    BY <1>4, ProcKinds, SessionAssumption DEF login_by_token, TypeInv, LocalsKnown
  <2>2. Online' = Online \cup {u}
    BY <1>4, <1>t, <2>1 DEF login_by_token, Online, NoPlayer
  <2>3. IsFiniteSet(Online')
        /\ Cardinality(Online') = IF u \in Online THEN Cardinality(Online)
                                  ELSE Cardinality(Online) + 1
    BY <1>t, <2>2, FS_AddElement
  <2>4. online' = IF u \in Online THEN online ELSE online + 1
    <3>1. online' = (online - (IF u \in Online THEN 1 ELSE 0)) + 1
      BY <1>4, <2>1 DEF login_by_token, OnlineAfterLogin, Online
    <3> QED
      BY <3>1 DEF TypeInv, TypeOK
  <2> QED
    BY <1>t, <2>3, <2>4 DEF OnlineInv, OnlineCountsPlayers, Online
<1> QED
  BY <1>1, <1>2, <1>3, <1>4
  DEF Next, vars, Clients, on_open, on_close, on_message, login_third, closeRoom,
      ConnStep, login_by_uid_token, login_accepted, login_rejected, chanage_check,
      chanage_close, CloserStep, ExitRoom_begin, ExitRoom_close

\* ONLINE_NUMBER is the number of users in Player_list: login_by_token logs a known user
\* out before it counts the user again, in one turn of the token service.
THEOREM OnlineNumberCounts == Spec => []OnlineCountsPlayers
<1>1. Init => OnlineInv
  <2> SUFFICES ASSUME Init PROVE OnlineInv
    OBVIOUS
  <2>1. Online = {}
    BY DEF Init, Online, NoPlayer
  <2> QED
    BY <2>1, FS_EmptySet DEF Init, OnlineInv, OnlineCountsPlayers, Online
<1>2. OnlineInv => OnlineCountsPlayers
  BY DEF OnlineInv
<1> QED
  BY <1>1, <1>2, OnlineNext, SessionTyped, PTL DEF Spec
=============================================================================
