------------------------------ MODULE DirIter -------------------------------
(***************************************************************************)
(* luafilesystem/src/lfs.c: the directory iterators of lfs.dir.            *)
(***************************************************************************)
EXTENDS Integers, FiniteSets

CONSTANTS
    Iterators   \* objects of Lua, reused once collected

\* A Lua state has so much memory.
ASSUME IterAssumption == IsFiniteSet(Iterators)

VARIABLES
    dirs,       \* the dir_data of each object: `closed', and whether `dir' is NULL
    streams     \* streams of opendir that closedir was not called for

iterVars == <<dirs, streams>>

DirData == [made : BOOLEAN, closed : BOOLEAN, null : BOOLEAN]

Unmade == [made |-> FALSE, closed |-> FALSE, null |-> TRUE]

IterInit == dirs = [i \in Iterators |-> Unmade] /\ streams = 0

\* dir_iter_factory: the object has its metatable before opendir is called; when that
\* fails the error leaves an object with a null pointer to be collected.
dir_iter_factory(i) ==
    /\ ~dirs[i].made
    /\ \E opened \in BOOLEAN :
         /\ dirs' = [dirs EXCEPT ![i] = [made |-> TRUE, closed |-> FALSE, null |-> ~opened]]
         /\ streams' = IF opened THEN streams + 1 ELSE streams

\* dir_iter with an entry left changes nothing; the one after the last closes.
IterOpen(i) == dirs[i].made /\ ~dirs[i].null /\ ~dirs[i].closed

\* Mutant: dir_iter does not set closed.
IterUnmarked(i) ==
    /\ IterOpen(i)
    /\ streams' = streams - 1
    /\ UNCHANGED dirs

dir_iter_last(i) ==
    /\ IterOpen(i)
    /\ dirs' = [dirs EXCEPT ![i].closed = TRUE]
    /\ streams' = streams - 1

Closing(i) == IF dirs[i].closed \/ dirs[i].null THEN 0 ELSE 1

\* dir_obj:close().  An object whose opendir failed was never returned.
dir_close(i) ==
    /\ dirs[i].made /\ ~dirs[i].null
    /\ streams' = streams - Closing(i)
    /\ dirs' = [dirs EXCEPT ![i].closed = TRUE]

\* __gc is dir_close too.
dir_gc(i) ==
    /\ dirs[i].made
    /\ streams' = streams - Closing(i)
    /\ dirs' = [dirs EXCEPT ![i] = Unmade]

IterNext ==
    \E i \in Iterators : dir_iter_factory(i) \/ dir_iter_last(i) \/ dir_close(i) \/ dir_gc(i)

IterSpec == IterInit /\ [][IterNext]_iterVars

-----------------------------------------------------------------------------
IterTypeOK == dirs \in [Iterators -> DirData] /\ streams \in Nat

\* closedir is called once for every stream that was opened, at its end, by close or by
\* the collector, in whatever order they come, and not for one that was not.
StreamsClosedOnce == streams = Cardinality({i \in Iterators : IterOpen(i)})
=============================================================================
