----------------------------- MODULE MCSession ------------------------------
(* Values for the constants of Session. *)
EXTENDS Session

CONSTANT u1

\* getPlayerByToken as it stands: every token belongs to one user.
OneUser == [tok \in Tokens |-> u1]

\* A user logs in over HTTP and does so again.
Twice == [u \in Uids |-> 2]
=============================================================================
