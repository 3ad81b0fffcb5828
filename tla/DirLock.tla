------------------------------ MODULE DirLock -------------------------------
(***************************************************************************)
(* luafilesystem/src/lfs.c: lock_dir, which locks a directory by making    *)
(* the symbolic link lockfile.lfs in it, and the calls that change where a *)
(* path leads to: chdir, mkdir and rmdir.                                  *)
(*                                                                         *)
(* Several processes use the directories and may crash and be started      *)
(* again.  All services of a skynet process share its working directory.   *)
(* symlink(2) and unlink(2) are atomic.  A call that fails changes nothing *)
(* and is not an action.                                                   *)
(***************************************************************************)
CONSTANTS
    Processes, Nobody,
    Dirs, Start,    \* directories, by their absolute names; where processes are started
    Here,           \* the path ".", and with it any relative one
    Gone,           \* the working directory of a process when it was removed
    Locks           \* lock objects of Lua, reused once collected

ASSUME LockAssumption ==
    /\ Start \in Dirs
    /\ Here \notin Dirs /\ Gone \notin Dirs /\ Nobody \notin Processes

VARIABLES
    exists,     \* the directories there are
    lockfile,   \* those that contain lockfile.lfs
    cwd,        \* the working directory of each process
    locks,      \* the lock objects: where ln leads to now is a matter of cwd
    strayed,    \* history: directories whose link was removed by the lock of another one
    left        \* history: directories whose link a crash or a chdir left behind

lockVars == <<exists, lockfile, cwd, locks, strayed, left>>

Paths == Dirs \cup {Here}

\* "held": ln points to the path of the link; "freed": it is NULL; "none": no object.
\* `dir' is where the link was made.
LockObject ==
    [state : {"held"}, owner : Processes, path : Paths, dir : Dirs]
      \cup [state : {"freed"}, owner : Processes, path : Paths, dir : {Gone}]
      \cup [state : {"none"}, owner : {Nobody}, path : {Here}, dir : {Gone}]

NoLock == [state |-> "none", owner |-> Nobody, path |-> Here, dir |-> Gone]

Freed(l) == [locks[l] EXCEPT !.state = "freed", !.dir = Gone]

\* The directory a path leads to.
Resolve(p, path) == IF path = Here THEN cwd[p] ELSE path

Held == {l \in Locks : locks[l].state = "held"}

LockInit ==
    /\ exists = Dirs
    /\ lockfile = {}
    /\ cwd = [p \in Processes |-> Start]
    /\ locks = [l \in Locks |-> NoLock]
    /\ strayed = {} /\ left = {}

-----------------------------------------------------------------------------
\* Mutant: the link is taken for the caller's own when it is there already.
LockOverwrites(p, path, l) ==
    LET d == Resolve(p, path)
    IN  /\ locks[l].state = "none"
        /\ d \in exists
        /\ lockfile' = lockfile \cup {d}
        /\ locks' = [locks EXCEPT ![l] = [state |-> "held", owner |-> p, path |-> path, dir |-> d]]
        /\ UNCHANGED <<exists, cwd, strayed, left>>

\* lock_dir: the object is made first, then the link, which fails when it is there
\* ("File exists") or the directory is not.
lfs_lock_dir(p, path, l) ==
    LET d == Resolve(p, path)
    IN  /\ locks[l].state = "none"
        /\ d \in exists \ lockfile
        /\ lockfile' = lockfile \cup {d}
        /\ locks' = [locks EXCEPT ![l] = [state |-> "held", owner |-> p, path |-> path, dir |-> d]]
        /\ UNCHANGED <<exists, cwd, strayed, left>>

\* Mutant: the object forgets its link and does not remove it.
UnlinksNothing(l) == {}

\* lfs_unlock_dir: "if(lock->ln)", the link its path leads to now.
Unlinked(l) == IF l \in Held THEN {Resolve(locks[l].owner, locks[l].path)} ELSE {}

\* A relative path leads elsewhere after a chdir ...
Astray(l) ==
    l \in Held /\ locks[l].path = Here /\ cwd[locks[l].owner] # locks[l].dir

\* ... so that the link of another lock is removed and that of this one is not.
Strays(l) == IF Astray(l) THEN Unlinked(l) \cap lockfile ELSE {}
Missed(l) == IF Astray(l) THEN {locks[l].dir} \cap lockfile ELSE {}

lfs_unlock_dir(l, object) ==
    /\ locks[l].state # "none"
    /\ lockfile' = lockfile \ Unlinked(l)
    /\ locks' = [locks EXCEPT ![l] = object]
    /\ strayed' = strayed \cup Strays(l)
    /\ left' = (left \ Unlinked(l)) \cup Missed(l)
    /\ UNCHANGED <<exists, cwd>>

\* lock:free(), as often as one likes, and __gc.
free(l) == lfs_unlock_dir(l, Freed(l))
gc(l) == lfs_unlock_dir(l, NoLock)

change_dir(p, d) ==
    /\ d \in exists
    /\ cwd' = [cwd EXCEPT ![p] = d]
    /\ UNCHANGED <<exists, lockfile, locks, strayed, left>>

make_dir(d) ==
    /\ d \notin exists
    /\ exists' = exists \cup {d}
    /\ UNCHANGED <<lockfile, cwd, locks, strayed, left>>

\* rmdir(2) refuses a directory that is not empty.  A process may be in the one it removes.
remove_dir(d) ==
    /\ d \in exists \ lockfile
    /\ exists' = exists \ {d}
    /\ cwd' = [p \in Processes |-> IF cwd[p] = d THEN Gone ELSE cwd[p]]
    /\ UNCHANGED <<lockfile, locks, strayed, left>>

\* A process dies and is started again: its objects are lost, the links stay.
crash(p) ==
    LET mine == {l \in Held : locks[l].owner = p}
    IN  /\ locks' = [l \in Locks |-> IF locks[l].owner = p THEN NoLock ELSE locks[l]]
        /\ left' = left \cup ({locks[l].dir : l \in mine} \cap lockfile)
        /\ cwd' = [cwd EXCEPT ![p] = IF Start \in exists THEN Start ELSE Gone]
        /\ UNCHANGED <<exists, lockfile, strayed>>

\* Somebody removes a link that no lock stands for: lfs has no call for it.
sweep(d) ==
    /\ d \in lockfile /\ \A l \in Held : locks[l].dir # d
    /\ lockfile' = lockfile \ {d}
    /\ left' = left \ {d}
    /\ UNCHANGED <<exists, cwd, locks, strayed>>

LockNext ==
    \/ \E p \in Processes, path \in Paths, l \in Locks : lfs_lock_dir(p, path, l)
    \/ \E l \in Locks : free(l) \/ gc(l)
    \/ \E p \in Processes, d \in Dirs : change_dir(p, d)
    \/ \E d \in Dirs : make_dir(d) \/ remove_dir(d) \/ sweep(d)
    \/ \E p \in Processes : crash(p)

LockSpec == LockInit /\ [][LockNext]_lockVars

\* Somebody keeps trying to lock a directory by its absolute name.
LockFairness ==
    \A d \in Dirs : WF_lockVars(\E p \in Processes, l \in Locks : lfs_lock_dir(p, d, l))

FairLockSpec == LockSpec /\ LockFairness

-----------------------------------------------------------------------------
LockTypeOK ==
    /\ exists \subseteq Dirs /\ lockfile \subseteq exists
    /\ cwd \in [Processes -> Dirs \cup {Gone}]
    /\ locks \in [Locks -> LockObject]
    /\ strayed \subseteq Dirs /\ left \subseteq Dirs

\* A lock that is held has its link in its directory, until another lock's path leads there.
HeldHasLink == \A l \in Held : locks[l].dir \in lockfile \cup strayed

\* A directory is locked once at a time, by whatever processes, over frees that are
\* repeated, collected locks, crashes and removed directories.  What breaks it is a lock
\* of another directory, taken by a relative path and freed after a chdir of any service.
LockExclusive ==
    \A k, l \in Held : k # l /\ locks[k].dir = locks[l].dir => locks[k].dir \in strayed

\* A link is removed with its lock.  One without a lock is where a process died holding the
\* lock, or where a lock taken by a relative path was freed after a chdir, and nobody
\* has removed it since.
LinkAccounted == \A d \in lockfile : d \in left \/ \E l \in Held : locks[l].dir = d

\* No lock stands for the link of d.
Stale(d) == d \in lockfile /\ \A l \in Held : locks[l].dir # d

\* What the manual says of lock_dir: a lock that is stale does not keep a directory locked
\* for ever.  lfs_lock_dir reads no seconds_stale and fails for as long as the link is
\* there.
StaleTaken == \A d \in Dirs : Stale(d) ~> ~Stale(d)
=============================================================================
