---------------------------- MODULE MCCardTable -----------------------------
(* Values for the constants of CardTable. *)
EXTENDS CardTable, TLC

\* Player.roomCard is 0 for every user of the login stub.
NoCards == [u \in Uids |-> 0]

\* Users, coroutines and codes are interchangeable.
Symmetry ==
    Permutations(Uids) \cup Permutations(Https) \cup Permutations(Timers)
        \cup Permutations(Wss) \cup Permutations(Codes)
=============================================================================
