----------------------------- MODULE MCLibrary ------------------------------
(***************************************************************************)
(* The libraries for TLC: the deck of Decks.lua, the parts of lfs.c and    *)
(* webclient.c.  They share nothing, so that one of them moves in a        *)
(* behaviour: `part' says which.                                           *)
(***************************************************************************)
EXTENDS MCDecks, DirLock, DirIter, FileInfo, WebClient

VARIABLE part

libraryVars == <<part, deckVars, lockVars, iterVars, infoVars, vars>>

LibraryInit ==
    /\ part \in {"deck", "lock", "iter", "info", "webclient"}
    /\ DeckInit /\ LockInit /\ IterInit /\ InfoInit /\ Init

LibraryNext ==
    /\ UNCHANGED part
    /\ \/ part = "deck" /\ DeckNext /\ UNCHANGED <<lockVars, iterVars, infoVars, vars>>
       \/ part = "lock" /\ LockNext /\ UNCHANGED <<deckVars, iterVars, infoVars, vars>>
       \/ part = "iter" /\ IterNext /\ UNCHANGED <<deckVars, lockVars, infoVars, vars>>
       \/ part = "info" /\ InfoNext /\ UNCHANGED <<deckVars, lockVars, iterVars, vars>>
       \/ part = "webclient" /\ Next /\ UNCHANGED <<deckVars, lockVars, iterVars, infoVars>>

LibrarySpec == LibraryInit /\ [][LibraryNext]_libraryVars /\ WF_vars(Poll)
=============================================================================
