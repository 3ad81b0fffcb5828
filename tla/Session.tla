------------------------------- MODULE Session ------------------------------
(***************************************************************************)
(* Who is logged in, and over which connection: srv_login_http and         *)
(* srv_token_login (Player_list), srv_hall_login and srv_game_login        *)
(* (FD_list), network.lua's dispatch of websocket messages, and the        *)
(* websocket gateways' table of connections.                               *)
(*                                                                         *)
(* A connection's reader handles one message at a time, so the handler is  *)
(* named after the connection.  The token, hall login and game login       *)
(* services admit one handler at a time (skynet.queue); the gateways admit *)
(* any.  A handler that calls another service keeps its own service's      *)
(* queue until it returns.                                                 *)
(***************************************************************************)
EXTENDS Integers, Sequences, FiniteSets

CONSTANTS
    Uids, NoUid,
    Tokens, NoToken,
    UidOf,         \* getPlayerByToken: the user a token belongs to
    Conns, NoConn, \* connections (fds, which skynet never reuses)
    Https,         \* coroutines serving HTTP logins
    Closers,       \* coroutines of srv_hall_room.closeRoom
    MaxLogins      \* bound: MaxLogins[u] HTTP logins of user u

Procs == Conns \cup Https \cup Closers

ASSUME SessionAssumption ==
    /\ NoUid \notin Uids /\ NoToken \notin Tokens /\ NoConn \notin Conns
    /\ UidOf \in [Tokens -> Uids]
    /\ Conns \cap Https = {} /\ Conns \cap Closers = {} /\ Https \cap Closers = {}
    /\ MaxLogins \in [Uids -> Nat]

VARIABLES
    players,   \* Player_list: token, scene and bound connection
    online,    \* ONLINE_NUMBER of the token service
    fdUid,     \* FD_list of srv_game_login
    conns,     \* SOCKET_TO_CLIENT of the gateways, and whose agent runs
    queue, pc, loc,
    epoch,     \* history: number of HTTP logins of each user
    owner      \* history: the login on behalf of which a connection was bound

vars == <<players, online, fdUid, conns, queue, pc, loc, epoch, owner>>

Scenes == {"none", "hall", "fight"}
Player == [on: BOOLEAN, token: Tokens \cup {NoToken}, scene: Scenes,
           sock: Conns \cup {NoConn}]
NoPlayer == [on |-> FALSE, token |-> NoToken, scene |-> "none", sock |-> NoConn]

\* Locals of a handler: the user and token of the request, the scene asked for.
Locals == [uid: Uids \cup {NoUid}, token: Tokens \cup {NoToken}, scene: Scenes]
NoLocals == [uid |-> NoUid, token |-> NoToken, scene |-> "none"]

Services == {"token", "hall", "fight"}
ConnStates == {"new", "open", "closed"}
PCs == {"idle", "login", "check", "closing", "bind", "accepted", "rejected",
        "third", "exit", "exit_closing", "exit_unbind"}

NoOwner == [uid |-> NoUid, epoch |-> 0]

Init ==
    /\ players = [u \in Uids |-> NoPlayer]
    /\ online = 0
    /\ fdUid = [c \in Conns |-> NoUid]
    /\ conns = [c \in Conns |-> "new"]
    /\ queue = [s \in Services |-> <<>>]
    /\ pc = [p \in Procs |-> "idle"]
    /\ loc = [p \in Procs |-> NoLocals]
    /\ epoch = [u \in Uids |-> 0]
    /\ owner = [c \in Conns |-> NoOwner]

Enter(q, s, p) == [q EXCEPT ![s] = Append(@, p)]
Leave(q, s) == [q EXCEPT ![s] = Tail(@)]
Serving(s, p) == queue[s] # <<>> /\ Head(queue[s]) = p
Goto(p, l) == pc' = [pc EXCEPT ![p] = l]

-----------------------------------------------------------------------------
(* The gateways. *)

\* on_open: an agent is started and the connection is registered.
on_open(c) ==
    /\ conns[c] = "new"
    /\ conns' = [conns EXCEPT ![c] = "open"]
    /\ UNCHANGED <<players, online, fdUid, queue, pc, loc, epoch, owner>>

\* The reader, between two messages, finds the connection gone: on_error and
\* on_close unregister it and stop its agent.
on_close(c) ==
    /\ conns[c] = "open" /\ pc[c] = "idle"
    /\ conns' = [conns EXCEPT ![c] = "closed"]
    /\ UNCHANGED <<players, online, fdUid, queue, pc, loc, epoch, owner>>

\* Mutant: the connection stays registered.
close_agent_nop(c) == conns

\* close_agent(fd): nothing happens when the fd is not registered.
close_agent(c) ==
    IF c \in Conns /\ conns[c] = "open" THEN [conns EXCEPT ![c] = "closed"] ELSE conns

\* on_message with common_hall_login or common_game_login.
on_message(c, u, tok, s) ==
    /\ conns[c] = "open" /\ pc[c] = "idle"
    /\ Goto(c, "login")
    /\ loc' = [loc EXCEPT ![c] = [uid |-> u, token |-> tok, scene |-> s]]
    /\ queue' = Enter(queue, s, c)
    /\ UNCHANGED <<players, online, fdUid, conns, epoch, owner>>

-----------------------------------------------------------------------------
(* srv_hall_login and srv_game_login: login_by_uid_token *)

login_by_uid_token(c) ==
    /\ pc[c] = "login" /\ Serving(loc[c].scene, c)
    /\ queue' = Enter(queue, "token", c)
    /\ Goto(c, "check")
    /\ UNCHANGED <<players, online, fdUid, conns, loc, epoch, owner>>

\* The token service accepted; the game login service keeps the fd's user.  (Both
\* services also count their logins, for their own log lines only.)
login_accepted(c) ==
    /\ pc[c] = "accepted" /\ Serving(loc[c].scene, c)
    /\ fdUid' = IF loc[c].scene = "fight" THEN [fdUid EXCEPT ![c] = loc[c].uid] ELSE fdUid
    /\ queue' = Leave(queue, loc[c].scene)
    /\ Goto(c, "idle")
    /\ loc' = [loc EXCEPT ![c] = NoLocals]
    /\ UNCHANGED <<players, online, conns, epoch, owner>>

\* It did not.  The second result, closefd, is lost in network.lua, which assigns
\* only the first, so the connection stays open.
login_rejected(c) ==
    /\ pc[c] = "rejected" /\ Serving(loc[c].scene, c)
    /\ queue' = Leave(queue, loc[c].scene)
    /\ Goto(c, "idle")
    /\ loc' = [loc EXCEPT ![c] = NoLocals]
    /\ UNCHANGED <<players, online, fdUid, conns, epoch, owner>>

-----------------------------------------------------------------------------
(* srv_token_login *)

check_by_uid_token(u, tok) == players[u].on /\ players[u].token = tok

\* Mutant: the early return forgets to release the queue.
CheckLeaks(c) ==
    /\ pc[c] = "check" /\ Serving("token", c)
    /\ IF ~check_by_uid_token(loc[c].uid, loc[c].token)
         THEN Goto(c, "rejected") /\ UNCHANGED queue
         ELSE /\ UNCHANGED queue
              /\ Goto(c, IF players[loc[c].uid].sock # NoConn THEN "closing" ELSE "bind")
    /\ UNCHANGED <<players, online, fdUid, conns, loc, epoch, owner>>

\* chanage_serverScene_by_uid_token: the token is checked, and a bound connection
\* is closed before the new one is bound.
chanage_check(c) ==
    /\ pc[c] = "check" /\ Serving("token", c)
    /\ IF ~check_by_uid_token(loc[c].uid, loc[c].token)
         THEN Goto(c, "rejected") /\ queue' = Leave(queue, "token")
         ELSE /\ UNCHANGED queue
              /\ Goto(c, IF players[loc[c].uid].sock # NoConn THEN "closing" ELSE "bind")
    /\ UNCHANGED <<players, online, fdUid, conns, loc, epoch, owner>>

\* The gateway serves the call close(fd), the token service's queue being held.
chanage_close(c) ==
    /\ pc[c] = "closing" /\ Serving("token", c)
    /\ conns' = close_agent(players[loc[c].uid].sock)
    /\ Goto(c, "bind")
    /\ UNCHANGED <<players, online, fdUid, queue, loc, epoch, owner>>

\* setServerScene and bindSocket.  Nothing looks at the scene the player was in, nor
\* at whether c is still open.
chanage_bind(c) ==
    /\ pc[c] = "bind" /\ Serving("token", c)
    /\ players' = [players EXCEPT ![loc[c].uid].scene = loc[c].scene,
                                  ![loc[c].uid].sock = c]
    /\ owner' = [owner EXCEPT ![c] = [uid |-> loc[c].uid, epoch |-> epoch[loc[c].uid]]]
    /\ queue' = Leave(queue, "token")
    /\ Goto(c, "accepted")
    /\ UNCHANGED <<online, fdUid, conns, loc, epoch>>

\* srv_login_http.login_third asks the token service for login_by_token.
login_third(h, tok) ==
    /\ pc[h] = "idle" /\ epoch[UidOf[tok]] < MaxLogins[UidOf[tok]]
    /\ \A g \in Https : pc[g] = "idle"
    /\ Goto(h, "third")
    /\ loc' = [loc EXCEPT ![h].token = tok]
    /\ queue' = Enter(queue, "token", h)
    /\ UNCHANGED <<players, online, fdUid, conns, epoch, owner>>

\* Mutant: logout_by_uid is skipped.
OnlineAfterLoginOnly(u) == online + 1

\* logout_by_uid takes a user who is known off the count before it is counted.
OnlineAfterLogin(u) == (online - (IF players[u].on THEN 1 ELSE 0)) + 1

\* login_by_token: a fresh Player, bound to nothing, whatever the old one was.
login_by_token(h) ==
    /\ pc[h] = "third" /\ Serving("token", h)
    /\ LET u == UidOf[loc[h].token] IN
       /\ online' = OnlineAfterLogin(u)
       /\ players' = [players EXCEPT ![u] =
                        [NoPlayer EXCEPT !.on = TRUE, !.token = loc[h].token]]
       /\ epoch' = [epoch EXCEPT ![u] = @ + 1]
    /\ queue' = Leave(queue, "token")
    /\ Goto(h, "idle")
    /\ loc' = [loc EXCEPT ![h] = NoLocals]
    /\ UNCHANGED <<fdUid, conns, owner>>

\* srv_hall_room.closeRoom asks for ExitRoomWithUid.
closeRoom(x, u) ==
    /\ pc[x] = "idle"
    /\ players[u].on
    /\ Goto(x, "exit")
    /\ loc' = [loc EXCEPT ![x].uid = u]
    /\ queue' = Enter(queue, "token", x)
    /\ UNCHANGED <<players, online, fdUid, conns, epoch, owner>>

ExitRoom_begin(x) ==
    /\ pc[x] = "exit" /\ Serving("token", x)
    /\ Goto(x, IF players[loc[x].uid].sock # NoConn THEN "exit_closing" ELSE "exit_unbind")
    /\ UNCHANGED <<players, online, fdUid, conns, queue, loc, epoch, owner>>

ExitRoom_close(x) ==
    /\ pc[x] = "exit_closing" /\ Serving("token", x)
    /\ conns' = close_agent(players[loc[x].uid].sock)
    /\ Goto(x, "exit_unbind")
    /\ UNCHANGED <<players, online, fdUid, queue, loc, epoch, owner>>

\* Mutant: the player is left in the fight scene.
ExitRoom_unbind_stay(x) ==
    /\ pc[x] = "exit_unbind" /\ Serving("token", x)
    /\ players' = [players EXCEPT ![loc[x].uid].sock = NoConn]
    /\ queue' = Leave(queue, "token")
    /\ Goto(x, "idle")
    /\ loc' = [loc EXCEPT ![x] = NoLocals]
    /\ UNCHANGED <<online, fdUid, conns, epoch, owner>>

ExitRoom_unbind(x) ==
    /\ pc[x] = "exit_unbind" /\ Serving("token", x)
    /\ players' = [players EXCEPT ![loc[x].uid].scene = "hall",
                                  ![loc[x].uid].sock = NoConn]
    /\ queue' = Leave(queue, "token")
    /\ Goto(x, "idle")
    /\ loc' = [loc EXCEPT ![x] = NoLocals]
    /\ UNCHANGED <<online, fdUid, conns, epoch, owner>>

-----------------------------------------------------------------------------
Clients ==
    \/ \E c \in Conns : on_open(c) \/ on_close(c)
    \/ \E c \in Conns, u \in Uids, tok \in Tokens, s \in {"hall", "fight"} :
          on_message(c, u, tok, s)
    \/ \E h \in Https, tok \in Tokens : login_third(h, tok)
    \/ \E x \in Closers, u \in Uids : closeRoom(x, u)

ConnStep(c) ==
    \/ login_by_uid_token(c) \/ login_accepted(c) \/ login_rejected(c)
    \/ chanage_check(c) \/ chanage_close(c) \/ chanage_bind(c)
CloserStep(x) == ExitRoom_begin(x) \/ ExitRoom_close(x) \/ ExitRoom_unbind(x)

Next ==
    \/ Clients
    \/ \E c \in Conns : ConnStep(c)
    \/ \E h \in Https : login_by_token(h)
    \/ \E x \in Closers : CloserStep(x)

Spec == Init /\ [][Next]_vars

\* skynet resumes every coroutine whose reply has arrived and admits queued handlers
\* in order; nothing obliges a client to act.
FairSpec ==
    /\ Spec
    /\ \A c \in Conns : WF_vars(ConnStep(c))
    /\ \A h \in Https : WF_vars(login_by_token(h))
    /\ \A x \in Closers : WF_vars(CloserStep(x))

-----------------------------------------------------------------------------
TypeOK ==
    /\ players \in [Uids -> Player]
    /\ online \in Int
    /\ fdUid \in [Conns -> Uids \cup {NoUid}]
    /\ conns \in [Conns -> ConnStates]
    /\ queue \in [Services -> Seq(Procs)]
    /\ pc \in [Procs -> PCs]
    /\ loc \in [Procs -> Locals]
    /\ epoch \in [Uids -> Nat]
    /\ owner \in [Conns -> [uid: Uids \cup {NoUid}, epoch: Nat]]

\* "If the previous server still holds a connection, cut it first": of the
\* connections bound since the user's last HTTP login, only the one in the player's
\* record can be open, however logins, room closings and disconnections overlap.
OldConnectionCut ==
    \A c \in Conns, u \in Uids :
        conns[c] = "open" /\ owner[c] = [uid |-> u, epoch |-> epoch[u]]
            => players[u].sock = c

\* What the comment in chanage_serverScene_by_uid_token promises of the socket it is about to replace: a
\* user keeps one long connection, so at most one connection on which the user has logged
\* in is open.  An HTTP login in between makes a fresh Player, which knows nothing of the
\* connection bound to the old one.
OneConnection ==
    \A b, c \in Conns :
        conns[b] = "open" /\ conns[c] = "open"
            /\ owner[b].uid # NoUid /\ owner[b].uid = owner[c].uid => b = c

\* The online number of the token service is the number of users it knows, however
\* often they log in again.
OnlineCountsPlayers ==
    online = Cardinality({u \in Uids : players[u].on})

\* A player in the fight scene has a socket, so that broadcasts of its room reach
\* skynet.call with a service to call.
FightIsBound == \A u \in Uids : players[u].scene = "fight" => players[u].sock # NoConn

\* Every websocket login is answered: the login services wait for the token service,
\* it waits for the gateways, and nobody waits the other way round.
LoginAnswered == \A c \in Conns : (pc[c] = "login") ~> (pc[c] = "idle")
=============================================================================
