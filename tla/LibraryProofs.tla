---------------------------- MODULE LibraryProofs ---------------------------
(***************************************************************************)
(* The libraries, proved for any cards, processes, services, Lua objects,  *)
(* handles and requests: the deck of Decks.lua, the locks, the directory   *)
(* iterators and the file attributes of lfs.c, and the HTTP client of      *)
(* webclient.c.                                                            *)
(***************************************************************************)
EXTENDS Decks, DirLock, DirIter, FileInfo, WebClient, TLAPS, FiniteSetTheorems

-----------------------------------------------------------------------------
(* Decks: draw() duplicates no card, the use of key 0 notwithstanding, and *)
(* loses one at most.                                                      *)

\* Beyond its length the table is empty.
EmptyAbove == \A i \in 0 .. Size : i > count => slot[i] = NoCard

\* A card that was not dealt is in the array or at key 0.
InTable == \A card \in Cards : card \in dealt \/ \E i \in 0 .. count : slot[i] = card

\* The inductive invariant.  NeverTwice alone is not inductive: draw() removes the
\* card at index count and must know that it copied the only other reference to it.
\* LosesOneAtMost is what InTable leaves when the array has run out.
DeckInv == DeckTypeOK /\ EmptyAbove /\ NeverTwice /\ InTable

LEMMA InitDeckInv == DeckInit => DeckInv
<1> SUFFICES ASSUME DeckInit PROVE DeckInv
  OBVIOUS
<1> USE DecksAssumption DEF DeckInit
<1>1. DeckTypeOK
  BY DEF DeckTypeOK
<1>2. EmptyAbove
  BY DEF EmptyAbove
<1>3. NeverTwice
  BY DEF NeverTwice
<1>4. InTable
  <2> SUFFICES ASSUME NEW card \in Cards
               PROVE  \E i \in 0 .. count : slot[i] = card
    BY DEF InTable
  <2>1. PICK i \in 1 .. Size : Full[i] = card
    OBVIOUS
  <2>2. i \in 0 .. count /\ slot[i] = card
    BY <2>1
  <2> QED
    BY <2>2
<1> QED
  BY <1>1, <1>2, <1>3, <1>4 DEF DeckInv

LEMMA DrawPreserves ==
  ASSUME DeckInv, NEW i \in 0 .. Size, draw(i)
  PROVE  DeckInv'
<1> USE DecksAssumption DEF DeckInv, draw
<1>0. /\ count \in 1 .. Size /\ i \in 0 .. count /\ count' = count - 1
      /\ slot \in [0 .. Size -> Cards \cup {NoCard}]
      /\ drawn' = slot[i]
      /\ dealt' = dealt \cup ({slot[i]} \ {NoCard})
      /\ slot' = [slot EXCEPT ![i] = slot[count], ![count] = NoCard]
  BY DEF DeckTypeOK, Compact
<1>1. DeckTypeOK'
  BY <1>0 DEF DeckTypeOK
<1>2. \A k \in 0 .. Size : slot'[k] = IF k = count THEN NoCard
                                      ELSE IF k = i THEN slot[count] ELSE slot[k]
  BY <1>0
<1>3. EmptyAbove'
  BY <1>0, <1>2 DEF EmptyAbove
<1>4. NeverTwice'
  <2>1. ASSUME NEW j \in 0 .. Size, NEW k \in 0 .. Size,
               slot'[j] # NoCard, slot'[j] = slot'[k]
        PROVE  j = k
    BY <1>0, <1>2, <2>1 DEF NeverTwice
  <2>2. ASSUME NEW k \in 0 .. Size
        PROVE  slot'[k] \notin dealt'
    <3>1. slot'[k] \notin dealt
      BY <1>0, <1>2 DEF NeverTwice, DeckTypeOK
    <3>2. slot'[k] # NoCard => slot'[k] # slot[i]
      BY <1>0, <1>2 DEF NeverTwice
    <3> QED
      BY <1>0, <3>1, <3>2
  <2> QED
    BY <2>1, <2>2 DEF NeverTwice
<1>5. InTable'
  <2> SUFFICES ASSUME NEW card \in Cards, card \notin dealt'
               PROVE  \E k \in 0 .. count' : slot'[k] = card
    BY DEF InTable
  <2>1. card \notin dealt /\ card # slot[i]
    BY <1>0
  <2>2. PICK k \in 0 .. count : slot[k] = card
    BY <2>1 DEF InTable
  <2>3. CASE k = count
    <3>1. i \in 0 .. count' /\ slot'[i] = card
      BY <1>0, <1>2, <2>1, <2>2, <2>3
    <3> QED
      BY <3>1
  <2>4. CASE k # count
    <3>1. k \in 0 .. count' /\ slot'[k] = card
      BY <1>0, <1>2, <2>1, <2>2, <2>4
    <3> QED
      BY <3>1
  <2> QED
    BY <2>3, <2>4
<1> QED
  BY <1>1, <1>3, <1>4, <1>5

\* Decks:draw keeps the deck well formed: DeckTypeOK, NeverTwice and InTable hold in
\* every state of every deck, of any size.
THEOREM DeckInvariant == DeckSpec => []DeckInv
<1>1. DeckInv /\ [DeckNext]_deckVars => DeckInv'
  <2> SUFFICES ASSUME DeckInv, [DeckNext]_deckVars PROVE DeckInv'
    OBVIOUS
  <2>1. CASE draw_empty
    BY <2>1, DecksAssumption
    DEF draw_empty, DeckInv, DeckTypeOK, EmptyAbove, NeverTwice, InTable
  <2>2. CASE \E i \in 0 .. Size : draw(i)
    BY <2>2, DrawPreserves
  <2>3. CASE UNCHANGED deckVars
    BY <2>3 DEF deckVars, DeckInv, DeckTypeOK, EmptyAbove, NeverTwice, InTable
  <2> QED
    BY <2>1, <2>2, <2>3 DEF DeckNext
<1> QED
  BY InitDeckInv, <1>1, PTL DEF DeckSpec

\* No card is dealt twice from one deck, whatever indices math.random yields.
THEOREM CardsNeverTwice == DeckSpec => []NeverTwice
<1>1. DeckInv => NeverTwice
  BY DEF DeckInv
<1> QED
  BY DeckInvariant, <1>1, PTL

\* A deck loses no card but the one at key 0 when its array has run out: every other one
\* was dealt or can still be drawn.
THEOREM OneCardLost == DeckSpec => []LosesOneAtMost
<1>1. DeckInv => LosesOneAtMost
  <2> SUFFICES ASSUME DeckInv, NEW card \in Lost PROVE count = 0 /\ card = slot[0]
    BY DEF LosesOneAtMost
  <2>1. card \in Cards /\ card # NoCard /\ card \notin dealt /\ card \notin Drawable
    BY DecksAssumption DEF Lost
  <2>2. PICK i \in 0 .. count : slot[i] = card
    BY <2>1 DEF DeckInv, InTable
  <2>3. count = 0
    BY <2>1, <2>2 DEF Drawable
  <2> QED
    BY <2>2, <2>3
<1> QED
  BY DeckInvariant, <1>1, PTL

-----------------------------------------------------------------------------
(* DirLock.  LockInv is inductive: that a relative path is all that leads  *)
(* elsewhere than where the link was made (PathsLead) is what the          *)
(* exclusion rests on, and the exclusion is what keeps the other lock's    *)
(* link when a lock is freed.                                              *)

\* An absolute path leads to where the link was made.
PathsLead == \A l \in Held : locks[l].path # Here => locks[l].path = locks[l].dir

LockInv == LockTypeOK /\ PathsLead /\ HeldHasLink /\ LockExclusive /\ LinkAccounted

-----------------------------------------------------------------------------
LEMMA InitLockInv == LockInit => LockInv
BY LockAssumption
DEF LockInit, LockInv, LockTypeOK, PathsLead, HeldHasLink, LockExclusive, LinkAccounted,
    LockObject, NoLock, Held, Paths

\* What a held lock's object holds.
LEMMA HeldObject ==
    ASSUME LockTypeOK, NEW l \in Held
    PROVE  /\ l \in Locks /\ locks[l].owner \in Processes
           /\ locks[l].path \in Paths /\ locks[l].dir \in Dirs
BY DEF LockTypeOK, LockObject, Held

LEMMA LockStep ==
    ASSUME LockInv, NEW p \in Processes, NEW path \in Paths, NEW l \in Locks,
           lfs_lock_dir(p, path, l)
    PROVE  LockInv'
<1> DEFINE d == Resolve(p, path)
           object == [state |-> "held", owner |-> p, path |-> path, dir |-> d]
<1> USE DEF LockInv
<1>1. d \in exists /\ d \notin lockfile /\ d \in Dirs
  BY DEF lfs_lock_dir, LockTypeOK
<1>2. /\ lockfile' = lockfile \cup {d} /\ locks' = [locks EXCEPT ![l] = object]
      /\ UNCHANGED <<exists, cwd, strayed, left>>
  BY DEF lfs_lock_dir
<1>3. l \notin Held /\ locks \in [Locks -> LockObject]
  BY DEF lfs_lock_dir, Held, LockTypeOK
<1>4. Held' = Held \cup {l}
  BY <1>2, <1>3 DEF Held
<1>5. /\ locks'[l] = object
      /\ \A k \in Held : k # l /\ locks'[k] = locks[k]
  BY <1>2, <1>3 DEF Held
<1>6. object \in LockObject
  BY <1>1 DEF LockObject
<1> HIDE DEF d
<1>7. LockTypeOK'
  BY <1>1, <1>2, <1>3, <1>6 DEF LockTypeOK
<1>8. PathsLead'
  BY <1>4, <1>5 DEF PathsLead, Paths, Resolve, d
<1>9. HeldHasLink'
  BY <1>2, <1>4, <1>5 DEF HeldHasLink
<1>10. LockExclusive'
  <2>1. \A k \in Held : locks[k].dir = d => d \in strayed
    BY <1>1 DEF HeldHasLink
  <2> QED  BY <2>1, <1>2, <1>4, <1>5 DEF LockExclusive
<1>11. LinkAccounted'
  BY <1>2, <1>4, <1>5 DEF LinkAccounted
<1> QED  BY <1>7, <1>8, <1>9, <1>10, <1>11

\* free and __gc, which differ in what becomes of the object.
LEMMA UnlockStep ==
    ASSUME LockInv, NEW l \in Locks, NEW object \in LockObject, object.state # "held",
           lfs_unlock_dir(l, object)
    PROVE  LockInv'
<1> USE DEF LockInv
<1>1. /\ lockfile' = lockfile \ Unlinked(l) /\ locks' = [locks EXCEPT ![l] = object]
      /\ strayed' = strayed \cup Strays(l) /\ left' = (left \ Unlinked(l)) \cup Missed(l)
      /\ UNCHANGED <<exists, cwd>>
  BY DEF lfs_unlock_dir
<1>2. locks \in [Locks -> LockObject] /\ lockfile \subseteq exists /\ exists \subseteq Dirs
  BY DEF LockTypeOK
<1>3. Held' = Held \ {l} /\ \A k \in Held' : k \in Held /\ k # l /\ locks'[k] = locks[k]
  BY <1>1, <1>2 DEF Held
<1>4. LockTypeOK'
  <2>1. Strays(l) \subseteq Dirs
    BY <1>2 DEF Strays
  <2>2. Missed(l) \subseteq Dirs
    BY HeldObject DEF Missed, Astray
  <2> QED  BY <1>1, <1>2, <2>1, <2>2 DEF LockTypeOK
<1>5. PathsLead'
  BY <1>3 DEF PathsLead
<1>6. \A k \in Held' : locks[k].dir \in Unlinked(l) => locks[k].dir \in strayed'
  <2> SUFFICES ASSUME NEW k \in Held', locks[k].dir \in Unlinked(l)
               PROVE  locks[k].dir \in strayed'
    OBVIOUS
  <2>1. l \in Held
    BY DEF Unlinked
  <2>2. CASE locks[k].dir = locks[l].dir
    BY <1>1, <1>3, <2>1, <2>2 DEF LockExclusive
  <2>3. CASE locks[k].dir # locks[l].dir
    <3>1. locks[l].path = Here
      BY <2>1, <2>3 DEF Unlinked, Resolve, PathsLead
    <3>2. locks[k].dir \in lockfile \cup strayed
      BY <1>3 DEF HeldHasLink
    <3>3. Astray(l)
      BY <2>1, <2>3, <3>1 DEF Astray, Unlinked, Resolve
    <3> QED  BY <1>1, <3>2, <3>3 DEF Strays
  <2> QED  BY <2>2, <2>3
<1>7. HeldHasLink'
  BY <1>1, <1>3, <1>6 DEF HeldHasLink
<1>8. LockExclusive'
  BY <1>1, <1>3 DEF LockExclusive
<1>9. LinkAccounted'
  <2> SUFFICES ASSUME NEW d \in lockfile'
               PROVE  d \in left' \/ \E k \in Held' : locks'[k].dir = d
    BY DEF LinkAccounted
  <2>1. d \in lockfile /\ d \notin Unlinked(l)
    BY <1>1
  <2>2. d \in left \/ \E k \in Held : locks[k].dir = d
    BY <2>1 DEF LinkAccounted
  <2>3. CASE l \in Held /\ locks[l].dir = d
    <3>1. locks[l].path = Here /\ cwd[locks[l].owner] # d
      BY <2>1, <2>3 DEF Unlinked, Resolve, PathsLead
    <3> QED  BY <1>1, <2>1, <2>3, <3>1 DEF Missed, Astray
  <2>4. CASE ~(l \in Held /\ locks[l].dir = d)
    BY <1>1, <1>3, <2>1, <2>2, <2>4
  <2> QED  BY <2>3, <2>4
<1> QED  BY <1>4, <1>5, <1>7, <1>8, <1>9

\* chdir, mkdir and rmdir: no link and no lock changes.
LEMMA PathStep ==
    ASSUME LockInv, UNCHANGED <<lockfile, locks, strayed, left>>, LockTypeOK'
    PROVE  LockInv'
BY DEF LockInv, PathsLead, HeldHasLink, LockExclusive, LinkAccounted, Held

LEMMA SweepStep ==
    ASSUME LockInv, NEW d \in Dirs, sweep(d)
    PROVE  LockInv'
BY DEF LockInv, LockTypeOK, PathsLead, HeldHasLink, LockExclusive, LinkAccounted, Held, sweep

LEMMA CrashStep ==
    ASSUME LockInv, NEW p \in Processes, crash(p)
    PROVE  LockInv'
<1> USE DEF LockInv
<1> DEFINE mine == {l \in Held : locks[l].owner = p}
<1>1. /\ locks' = [l \in Locks |-> IF locks[l].owner = p THEN NoLock ELSE locks[l]]
      /\ left' = left \cup ({locks[l].dir : l \in mine} \cap lockfile)
      /\ cwd' = [cwd EXCEPT ![p] = IF Start \in exists THEN Start ELSE Gone]
      /\ UNCHANGED <<exists, lockfile, strayed>>
  BY DEF crash
<1>2. Held' = Held \ mine /\ \A k \in Held' : k \in Held /\ locks'[k] = locks[k]
  BY <1>1 DEF Held, NoLock
<1>3. LockTypeOK'
  <2>1. locks' \in [Locks -> LockObject]
    BY <1>1 DEF LockTypeOK, LockObject, NoLock, Paths
  <2>2. cwd' \in [Processes -> Dirs \cup {Gone}]
    BY <1>1, LockAssumption DEF LockTypeOK
  <2>3. left' \subseteq Dirs
    BY <1>1, HeldObject DEF LockTypeOK
  <2> QED  BY <1>1, <2>1, <2>2, <2>3 DEF LockTypeOK
<1>4. PathsLead' /\ HeldHasLink' /\ LockExclusive'
  BY <1>1, <1>2 DEF PathsLead, HeldHasLink, LockExclusive
<1>5. LinkAccounted'
  BY <1>1, <1>2 DEF LinkAccounted
<1> QED  BY <1>3, <1>4, <1>5

LEMMA NextLockInv == LockInv /\ [LockNext]_lockVars => LockInv'
<1> SUFFICES ASSUME LockInv, [LockNext]_lockVars PROVE LockInv'
  OBVIOUS
<1>1. ASSUME NEW p \in Processes, NEW path \in Paths, NEW l \in Locks, lfs_lock_dir(p, path, l)
      PROVE  LockInv'
  BY <1>1, LockStep
<1>2. ASSUME NEW l \in Locks, free(l) \/ gc(l)
      PROVE  LockInv'
  <2>1. locks \in [Locks -> LockObject]
    BY DEF LockInv, LockTypeOK
  <2>2. NoLock \in LockObject /\ NoLock.state # "held"
    BY DEF NoLock, LockObject, Paths
  <2>3. CASE gc(l)
    BY <2>2, <2>3, UnlockStep DEF gc
  <2>4. CASE free(l)
    <3>1. locks[l].state # "none"
      BY <2>4 DEF free, lfs_unlock_dir
    <3>2. Freed(l) \in LockObject /\ Freed(l).state # "held"
      BY <2>1, <3>1 DEF Freed, LockObject
    <3> QED  BY <2>4, <3>2, UnlockStep DEF free
  <2> QED  BY <1>2, <2>3, <2>4
<1>3. ASSUME NEW p \in Processes, NEW d \in Dirs, change_dir(p, d)
      PROVE  LockInv'
  BY <1>3, PathStep DEF change_dir, LockInv, LockTypeOK
<1>4. ASSUME NEW d \in Dirs, make_dir(d)
      PROVE  LockInv'
  BY <1>4, PathStep DEF make_dir, LockInv, LockTypeOK
<1>5. ASSUME NEW d \in Dirs, remove_dir(d)
      PROVE  LockInv'
  BY <1>5, PathStep DEF remove_dir, LockInv, LockTypeOK
<1>6. CASE UNCHANGED lockVars
  BY <1>6, PathStep DEF lockVars, LockInv, LockTypeOK
<1> QED  BY <1>1, <1>2, <1>3, <1>4, <1>5, <1>6, SweepStep, CrashStep DEF LockNext

-----------------------------------------------------------------------------
\* A directory is locked once at a time, over repeated frees, collected locks, crashes
\* and removed directories, unless a relative path led a lock of another one to its link.
THEOREM DirectoriesLockedOnce == LockSpec => []LockExclusive
<1>1. LockInv => LockExclusive
  BY DEF LockInv
<1> QED  BY <1>1, InitLockInv, NextLockInv, PTL DEF LockSpec

\* A lock that is held has its link, and a link nobody holds was left by a crash or by a
\* lock that was freed after a chdir.
THEOREM LinksAndLocksAgree == LockSpec => [](LockTypeOK /\ HeldHasLink /\ LinkAccounted)
<1>1. LockInv => LockTypeOK /\ HeldHasLink /\ LinkAccounted
  BY DEF LockInv
<1> QED  BY <1>1, InitLockInv, NextLockInv, PTL DEF LockSpec

-----------------------------------------------------------------------------
(* DirIter.  IterInv is inductive: it counts the streams of the objects    *)
(* that were made, are not closed and have one.                            *)

Opened == {i \in Iterators : IterOpen(i)}

IterInv == IterTypeOK /\ StreamsClosedOnce

LEMMA OpenedFinite == IsFiniteSet(Opened) /\ Cardinality(Opened) \in Nat
<1>1. Opened \subseteq Iterators
  BY DEF Opened
<1> QED  BY <1>1, IterAssumption, FS_Subset, FS_CardinalityType

LEMMA InitIterInv == IterInit => IterInv
<1> SUFFICES ASSUME IterInit PROVE IterInv
  OBVIOUS
<1>1. IterTypeOK
  BY DEF IterInit, IterTypeOK, Unmade, DirData
<1>2. {i \in Iterators : IterOpen(i)} = {}
  BY DEF IterInit, IterOpen, Unmade
<1> QED  BY <1>1, <1>2, FS_EmptySet DEF IterInit, IterInv, StreamsClosedOnce

Opens(object) == object.made /\ ~object.null /\ ~object.closed

\* The object of a call is counted before it, after it, both times or neither time.
LEMMA OneObjectMoves ==
    ASSUME IterInv, NEW i \in Iterators, NEW object \in DirData,
           dirs' = [dirs EXCEPT ![i] = object],
           \/ streams' = streams /\ (Opens(object) <=> IterOpen(i))
           \/ streams' = streams + 1 /\ Opens(object) /\ ~IterOpen(i)
           \/ streams' = streams - 1 /\ ~Opens(object) /\ IterOpen(i)
    PROVE  IterInv'
<1>1. IterTypeOK /\ streams = Cardinality(Opened) /\ dirs \in [Iterators -> DirData]
  BY DEF IterInv, IterTypeOK, StreamsClosedOnce, Opened
<1>2. Opened' = IF Opens(object) THEN Opened \cup {i} ELSE Opened \ {i}
  BY <1>1 DEF Opened, IterOpen, Opens
<1>3. i \in Opened <=> IterOpen(i)
  BY DEF Opened
<1>4. Cardinality(Opened \cup {i}) = IF IterOpen(i) THEN streams ELSE streams + 1
  BY <1>1, <1>3, OpenedFinite, FS_AddElement
<1>5. Cardinality(Opened \ {i}) = IF IterOpen(i) THEN streams - 1 ELSE streams
  BY <1>1, <1>3, OpenedFinite, FS_RemoveElement
<1>6. streams' = Cardinality(Opened')
  <2>0. streams \in Nat
    BY <1>1 DEF IterTypeOK
  <2>1. CASE Opens(object)
    BY <1>2, <1>4, <2>0, <2>1
  <2>2. CASE ~Opens(object)
    BY <1>2, <1>5, <2>0, <2>2
  <2> QED  BY <2>1, <2>2
<1>7. streams' \in Nat
  <2>1. IsFiniteSet(Opened')
    BY <1>2, OpenedFinite, FS_AddElement, FS_RemoveElement
  <2> QED  BY <1>6, <2>1, FS_CardinalityType
<1>8. dirs' \in [Iterators -> DirData]
  BY <1>1
<1> QED  BY <1>6, <1>7, <1>8 DEF IterInv, IterTypeOK, StreamsClosedOnce, Opened

LEMMA NextIterInv == IterInv /\ [IterNext]_iterVars => IterInv'
<1> SUFFICES ASSUME IterInv, [IterNext]_iterVars PROVE IterInv'
  OBVIOUS
<1>0. dirs \in [Iterators -> DirData] /\ streams \in Nat
  BY DEF IterInv, IterTypeOK
<1>1. ASSUME NEW i \in Iterators, dir_iter_factory(i)
      PROVE  IterInv'
  <2>1. PICK opened \in BOOLEAN :
          /\ dirs' = [dirs EXCEPT ![i] = [made |-> TRUE, closed |-> FALSE, null |-> ~opened]]
          /\ streams' = IF opened THEN streams + 1 ELSE streams
    BY <1>1 DEF dir_iter_factory
  <2>2. ~IterOpen(i)
    BY <1>1 DEF dir_iter_factory, IterOpen
  <2> DEFINE object == [made |-> TRUE, closed |-> FALSE, null |-> ~opened]
  <2>3. object \in DirData /\ (Opens(object) <=> opened)
    BY DEF DirData, Opens
  <2> QED  BY <2>1, <2>2, <2>3, OneObjectMoves
<1>2. ASSUME NEW i \in Iterators, dir_iter_last(i) \/ dir_close(i)
      PROVE  IterInv'
  <2> DEFINE object == [dirs[i] EXCEPT !.closed = TRUE]
  <2>1. object \in DirData /\ ~Opens(object) /\ dirs' = [dirs EXCEPT ![i] = object]
    BY <1>0, <1>2 DEF dir_iter_last, dir_close, DirData, Opens
  <2>2. streams' = IF IterOpen(i) THEN streams - 1 ELSE streams
    BY <1>0, <1>2 DEF dir_iter_last, dir_close, IterOpen, Closing
  <2> QED  BY <2>1, <2>2, OneObjectMoves
<1>3. ASSUME NEW i \in Iterators, dir_gc(i)
      PROVE  IterInv'
  <2>1. Unmade \in DirData /\ ~Opens(Unmade) /\ dirs' = [dirs EXCEPT ![i] = Unmade]
    BY <1>3 DEF dir_gc, Unmade, DirData, Opens
  <2>2. streams' = IF IterOpen(i) THEN streams - 1 ELSE streams
    BY <1>0, <1>3 DEF dir_gc, IterOpen, Closing
  <2> QED  BY <2>1, <2>2, OneObjectMoves
<1>4. CASE UNCHANGED iterVars
  BY <1>4 DEF iterVars, IterInv, IterTypeOK, StreamsClosedOnce, IterOpen
<1> QED  BY <1>1, <1>2, <1>3, <1>4 DEF IterNext

\* closedir is called once for every stream that opendir returned, whether the iterator
\* comes to its end, is closed or is collected, or all of these.
THEOREM StreamsAreClosedOnce == IterSpec => []StreamsClosedOnce
<1>1. IterInv => StreamsClosedOnce
  BY DEF IterInv
<1> QED  BY <1>1, InitIterInv, NextIterInv, PTL DEF IterSpec

-----------------------------------------------------------------------------
(* FileInfo.  PermissionsBlend is inductive once it is known what a call   *)
(* has seen of those it shares perm2string with: that of two services in   *)
(* it neither is alone, and that each counts the other's permissions.      *)

NotAlone ==
    \A s, t \in Services : s # t /\ InPerm(s) /\ InPerm(t) => ~calls[s].alone

Overlapping ==
    \A s, t \in Services : InPerm(s) /\ InPerm(t) => calls[s].mode \subseteq calls[t].overlap

Cleared ==
    \A s \in Services :
        calls[s].pc = "set" => /\ perms \subseteq calls[s].overlap
                               /\ calls[s].alone => perms = {}

InfoInv ==
    InfoTypeOK /\ NotAlone /\ Overlapping /\ Cleared /\ PermissionsBlend /\ TargetWhole

PcShape == {"idle", "clear", "set", "push", "alloc", "read", "target", "done"}

LEMMA IdleCall == Idle \in Call /\ Idle.pc = "idle"
BY DEF Idle, Call

\* A call with one of its fields changed.
LEMMA MovedCall ==
    ASSUME NEW c \in Call, NEW p \in PcShape
    PROVE  LET d == [c EXCEPT !.pc = p]
           IN  /\ d \in Call /\ d.pc = p /\ d.mode = c.mode /\ d.alone = c.alone
               /\ d.overlap = c.overlap /\ d.size = c.size
BY DEF Call, PcShape

LEMMA ModeCall ==
    ASSUME NEW c \in Call, NEW mode \in SUBSET Perms
    PROVE  LET d == [c EXCEPT !.mode = mode] IN d \in Call /\ d.pc = c.pc /\ d.mode = mode
BY DEF Call

LEMMA AloneCall ==
    ASSUME NEW c \in Call, NEW alone \in BOOLEAN
    PROVE  LET d == [c EXCEPT !.alone = alone]
           IN  d \in Call /\ d.pc = c.pc /\ d.mode = c.mode /\ d.alone = alone
BY DEF Call

LEMMA OverlapCall ==
    ASSUME NEW c \in Call, NEW overlap \in SUBSET Perms
    PROVE  LET d == [c EXCEPT !.overlap = overlap]
           IN  /\ d \in Call /\ d.pc = c.pc /\ d.mode = c.mode /\ d.alone = c.alone
               /\ d.overlap = overlap
BY DEF Call

LEMMA SizeCall ==
    ASSUME NEW c \in Call, NEW size \in Nat
    PROVE  LET d == [c EXCEPT !.size = size] IN d \in Call /\ d.pc = c.pc
BY DEF Call

LEMMA TsizeCall ==
    ASSUME NEW c \in Call, NEW tsize \in Nat
    PROVE  LET d == [c EXCEPT !.tsize = tsize]
           IN  d \in Call /\ d.pc = c.pc /\ d.size = c.size /\ d.tsize = tsize
BY DEF Call

LEMMA SeenCall ==
    ASSUME NEW c \in Call, NEW seen \in Nat
    PROVE  LET d == [c EXCEPT !.seen = seen]
           IN  d \in Call /\ d.pc = c.pc /\ d.size = c.size /\ d.tsize = c.tsize /\ d.seen = seen
BY DEF Call

LEMMA DoneCall == Done \in Call /\ Done.pc = "done"
BY IdleCall, MovedCall DEF Done, PcShape

\* push_link_target is called, or calls realloc again.
LEMMA AllocCall ==
    ASSUME NEW c \in Call, NEW size \in Nat
    PROVE  LET d == [c EXCEPT !.pc = "alloc", !.size = size]
           IN  d \in Call /\ d.pc = "alloc"
<1> DEFINE d == [c EXCEPT !.pc = "alloc"]
           e == [d EXCEPT !.size = size]
<1>1. [c EXCEPT !.pc = "alloc", !.size = size] = e
  BY Zenon
<1>2. d \in Call /\ d.pc = "alloc"
  BY MovedCall DEF PcShape
<1> HIDE DEF d
<1>3. e \in Call /\ e.pc = "alloc"
  BY <1>2, SizeCall
<1> QED  BY <1>1, <1>3, Zenon

LEMMA InitInfoInv == InfoInit => InfoInv
<1> SUFFICES ASSUME InfoInit PROVE InfoInv
  OBVIOUS
<1>1. node \in Nodes /\ perms \subseteq Perms /\ calls \in [Services -> Call]
  BY IdleCall DEF InfoInit, Nodes, NoNode
<1>2. \A s \in Services : calls[s].pc = "idle"
  BY IdleCall DEF InfoInit
<1> QED
  BY <1>1, <1>2
  DEF InfoInv, InfoTypeOK, NotAlone, Overlapping, Cleared, PermissionsBlend, TargetWhole,
      InPerm

\* A service goes on outside perm2string: the others keep theirs.
LEMMA OutsidePerm ==
    ASSUME InfoInv, NEW s \in Services, NEW c \in Call,
           c.pc \notin {"clear", "set", "push"},
           c.pc = "target" => c.tsize = c.seen /\ c.tsize + 1 <= c.size,
           calls' = [calls EXCEPT ![s] = c], UNCHANGED <<node, perms>>
    PROVE  InfoInv'
<1>1. /\ calls \in [Services -> Call] /\ calls'[s] = c
      /\ \A t \in Services \ {s} : calls'[t] = calls[t]
  BY DEF InfoInv, InfoTypeOK
<1>2. InfoTypeOK'
  BY <1>1 DEF InfoInv, InfoTypeOK
<1>3. NotAlone'
  BY <1>1 DEF InfoInv, NotAlone, InPerm
<1>4. Cleared'
  BY <1>1 DEF InfoInv, Cleared
<1>5. PermissionsBlend'
  BY <1>1 DEF InfoInv, PermissionsBlend
<1>6. TargetWhole'
  BY <1>1 DEF InfoInv, TargetWhole
<1>7. Overlapping'
  BY <1>1 DEF InfoInv, Overlapping, InPerm
<1> QED  BY <1>2, <1>3, <1>4, <1>5, <1>6, <1>7 DEF InfoInv

\* A service goes on inside perm2string: it leaves `content' in the buffer, where it has
\* added no permissions but its own.
LEMMA InsidePerm ==
    ASSUME InfoInv, NEW s \in Services, NEW p \in {"set", "push"}, InPerm(s),
           NEW content \in SUBSET Perms, perms' = content,
           content = {} \/ (content = perms \cup calls[s].mode /\ calls[s].pc = "set"),
           calls[s].alone => content = IF p = "set" THEN {} ELSE calls[s].mode,
           calls' = [calls EXCEPT ![s].pc = p], UNCHANGED node
    PROVE  InfoInv'
<1>0. calls \in [Services -> Call] /\ p \in PcShape
  BY DEF InfoInv, InfoTypeOK, PcShape
<1>1. /\ calls'[s] \in Call /\ calls'[s].pc = p /\ calls'[s].mode = calls[s].mode
      /\ calls'[s].alone = calls[s].alone /\ calls'[s].overlap = calls[s].overlap
      /\ \A t \in Services \ {s} : calls'[t] = calls[t]
  BY <1>0, MovedCall
<1>2. InfoTypeOK'
  BY <1>0, <1>1 DEF InfoInv, InfoTypeOK
<1>3. \A t \in Services : /\ InPerm(t)' <=> InPerm(t)
                          /\ calls'[t].mode = calls[t].mode
                          /\ calls'[t].alone = calls[t].alone
                          /\ calls'[t].overlap = calls[t].overlap
  BY <1>1 DEF InPerm
<1>4. NotAlone' /\ Overlapping'
  BY <1>3 DEF InfoInv, NotAlone, Overlapping
<1>5. \A t \in Services \ {s} : InPerm(t) => ~calls[t].alone
  BY DEF InfoInv, NotAlone
<1>6. ASSUME NEW t \in Services, calls'[t].pc \in {"set", "push"}
      PROVE  perms' \subseteq calls'[t].overlap
  <2>1. InPerm(t)
    BY <1>3, <1>6 DEF InPerm
  <2>2. CASE content = {}
    BY <2>2
  <2>3. CASE content = perms \cup calls[s].mode /\ calls[s].pc = "set"
    <3>1. calls[s].mode \subseteq calls[t].overlap
      BY <2>1 DEF InfoInv, Overlapping
    <3>2. perms \subseteq calls[t].overlap
      BY <1>1, <1>6, <2>3 DEF InfoInv, Cleared, PermissionsBlend
    <3> QED  BY <1>3, <2>3, <3>1, <3>2
  <2> QED  BY <2>2, <2>3
<1>7. ASSUME NEW t \in Services, calls'[t].pc \in {"set", "push"}, calls'[t].alone
      PROVE  perms' = IF calls'[t].pc = "set" THEN {} ELSE calls'[t].mode
  <2>1. InPerm(t) /\ calls[t].alone
    BY <1>3, <1>7 DEF InPerm
  <2>2. t = s
    BY <1>5, <2>1
  <2> QED  BY <1>1, <2>1, <2>2
<1>8. Cleared' /\ PermissionsBlend'
  BY <1>6, <1>7 DEF Cleared, PermissionsBlend
<1>9. TargetWhole'
  BY <1>1 DEF InfoInv, TargetWhole
<1> QED  BY <1>2, <1>4, <1>8, <1>9 DEF InfoInv

LEMMA EntersPerm ==
    ASSUME InfoInv, NEW s \in Services, link_info(s)
    PROVE  InfoInv'
<1> DEFINE alone == \A u \in Services : ~InPerm(u)
           overlap == node.mode \cup BeingWritten
           c == [Idle EXCEPT !.pc = "clear", !.mode = node.mode, !.alone = alone,
                             !.overlap = overlap]
           later(t) == [calls[t] EXCEPT !.alone = FALSE, !.overlap = @ \cup node.mode]
<1>0. /\ calls \in [Services -> Call] /\ node.mode \subseteq Perms
      /\ \A t \in Services : calls[t].mode \subseteq Perms /\ calls[t].overlap \subseteq Perms
  BY DEF InfoInv, InfoTypeOK, Nodes, Call
<1>a. /\ overlap \subseteq Perms /\ node.mode \subseteq overlap
      /\ \A t \in Services : InPerm(t) => calls[t].mode \subseteq overlap
  BY <1>0 DEF BeingWritten
<1> DEFINE d == [Idle EXCEPT !.pc = "clear"]
           e == [d EXCEPT !.mode = node.mode]
           f == [e EXCEPT !.alone = alone]
           g == [f EXCEPT !.overlap = overlap]
<1>1. c = g
  BY Zenon
<1>2. /\ c \in Call /\ c.pc = "clear" /\ c.alone = alone /\ c.mode = node.mode
      /\ c.overlap = overlap
  <2>0. alone \in BOOLEAN
    OBVIOUS
  <2> HIDE DEF alone, overlap
  <2>1. d \in Call /\ d.pc = "clear"
    BY IdleCall, MovedCall DEF PcShape
  <2> HIDE DEF d
  <2>2. e \in Call /\ e.pc = "clear" /\ e.mode = node.mode
    BY <1>0, <2>1, ModeCall
  <2> HIDE DEF e
  <2>3. f \in Call /\ f.pc = "clear" /\ f.alone = alone /\ f.mode = node.mode
    BY <2>0, <2>2, AloneCall
  <2> HIDE DEF f
  <2>4. /\ g \in Call /\ g.pc = "clear" /\ g.alone = alone /\ g.mode = node.mode
        /\ g.overlap = overlap
    BY <1>a, <2>3, OverlapCall
  <2> HIDE DEF g, c
  <2> QED  BY <1>1, <2>4, Zenon
<1>3. /\ UNCHANGED <<node, perms>>
      /\ calls' = [t \in Services |->
                     IF t = s THEN c ELSE IF InPerm(t) THEN later(t) ELSE calls[t]]
  BY DEF link_info
<1>4. ASSUME NEW t \in Services
      PROVE  /\ later(t) \in Call /\ later(t).pc = calls[t].pc /\ later(t).mode = calls[t].mode
             /\ ~later(t).alone /\ later(t).overlap = calls[t].overlap \cup node.mode
  <2> DEFINE h == [calls[t] EXCEPT !.alone = FALSE]
  <2>1. later(t) = [h EXCEPT !.overlap = calls[t].overlap \cup node.mode]
    BY <1>0 DEF Call
  <2>2. h \in Call /\ h.pc = calls[t].pc /\ h.mode = calls[t].mode /\ ~h.alone
    BY <1>0, AloneCall
  <2> HIDE DEF h
  <2>3. calls[t].overlap \cup node.mode \in SUBSET Perms
    BY <1>0
  <2> QED  BY <2>1, <2>2, <2>3, OverlapCall
<1> HIDE DEF c, later
<1>5. calls'[s] = c /\ InPerm(s)'
  BY <1>2, <1>3 DEF InPerm
<1>6. \A t \in Services \ {s} :
        /\ calls'[t] \in Call /\ calls'[t].pc = calls[t].pc /\ calls'[t].mode = calls[t].mode
        /\ InPerm(t) => /\ ~calls'[t].alone
                        /\ calls'[t].overlap = calls[t].overlap \cup node.mode
        /\ ~InPerm(t) => calls'[t] = calls[t]
        /\ InPerm(t)' <=> InPerm(t)
  BY <1>0, <1>3, <1>4 DEF InPerm
<1>7. InfoTypeOK'
  BY <1>2, <1>3, <1>5, <1>6 DEF InfoInv, InfoTypeOK
<1>8. NotAlone'
  <2> SUFFICES ASSUME NEW t \in Services, NEW u \in Services, t # u, InPerm(t)', InPerm(u)'
               PROVE  ~calls'[t].alone
    BY DEF NotAlone
  <2>1. CASE t = s
    BY <1>2, <1>5, <1>6, <2>1
  <2>2. CASE t # s
    BY <1>6, <2>2
  <2> QED  BY <2>1, <2>2
<1>9. Overlapping'
  <2> SUFFICES ASSUME NEW t \in Services, NEW u \in Services, InPerm(t)', InPerm(u)'
               PROVE  calls'[t].mode \subseteq calls'[u].overlap
    BY DEF Overlapping
  <2> HIDE DEF overlap
  <2>1. CASE u = s
    BY <1>2, <1>5, <1>6, <1>a, <2>1
  <2>2. CASE u # s /\ t = s
    BY <1>2, <1>5, <1>6, <2>2
  <2>3. CASE u # s /\ t # s
    BY <1>6, <2>3 DEF InfoInv, Overlapping
  <2> QED  BY <2>1, <2>2, <2>3
<1>10. Cleared' /\ PermissionsBlend'
  BY <1>2, <1>3, <1>5, <1>6 DEF InfoInv, Cleared, PermissionsBlend, InPerm
<1>11. TargetWhole'
  <2> SUFFICES ASSUME NEW t \in Services, calls'[t].pc = "target"
               PROVE  calls'[t] = calls[t]
    BY DEF InfoInv, TargetWhole
  <2> QED  BY <1>2, <1>5, <1>6 DEF InPerm
<1> QED  BY <1>7, <1>8, <1>9, <1>10, <1>11 DEF InfoInv

\* readlink cuts the target only when it fills the buffer.
LEMMA ReadsTarget ==
    ASSUME InfoInv, NEW s \in Services, target_read(s)
    PROVE  InfoInv'
<1> DEFINE size == calls[s].size
           tsize == IF node.len < size THEN node.len ELSE size
<1>0. /\ calls[s] \in Call /\ size \in Nat /\ node.len \in Nat /\ tsize \in Nat
      /\ UNCHANGED <<node, perms>>
  BY InfoAssumption DEF InfoInv, InfoTypeOK, Call, Nodes, target_read
<1>1. CASE node.kind # "link"
  <2>1. calls' = [calls EXCEPT ![s] = Done]
    BY <1>1 DEF target_read
  <2> QED  BY <1>0, <2>1, DoneCall, OutsidePerm
<1>2. CASE node.kind = "link" /\ Whole(tsize, size)
  <2> DEFINE c == [calls[s] EXCEPT !.pc = "target", !.tsize = tsize, !.seen = node.len]
  <2>1. calls' = [calls EXCEPT ![s] = c]
    BY <1>2 DEF target_read
  <2>2. tsize = node.len /\ tsize + 1 <= size
    BY <1>0, <1>2 DEF Whole
  <2> DEFINE d == [calls[s] EXCEPT !.pc = "target"]
             e == [d EXCEPT !.tsize = tsize]
             f == [e EXCEPT !.seen = node.len]
  <2>3. c = f
    BY Zenon
  <2> HIDE DEF c, tsize
  <2>4. c \in Call /\ c.pc = "target" /\ c.tsize = tsize /\ c.seen = node.len /\ c.size = size
    <3>1. d \in Call /\ d.pc = "target" /\ d.size = size
      BY <1>0, MovedCall DEF PcShape
    <3> HIDE DEF d
    <3>2. e \in Call /\ e.pc = "target" /\ e.size = size /\ e.tsize = tsize
      BY <1>0, <3>1, TsizeCall
    <3> HIDE DEF e
    <3>3. f \in Call /\ f.pc = "target" /\ f.size = size /\ f.tsize = tsize /\ f.seen = node.len
      BY <1>0, <3>2, SeenCall
    <3> HIDE DEF f
    <3> QED  BY <2>3, <3>3
  <2> QED  BY <1>0, <2>1, <2>2, <2>4, OutsidePerm
<1>3. CASE node.kind = "link" /\ ~Whole(tsize, size)
  <2> DEFINE c == [calls[s] EXCEPT !.pc = "alloc", !.size = 2 * size]
  <2>1. calls' = [calls EXCEPT ![s] = c]
    BY <1>3 DEF target_read
  <2>2. 2 * size \in Nat
    BY <1>0
  <2>3. c \in Call /\ c.pc = "alloc"
    BY <1>0, <2>2, AllocCall
  <2> HIDE DEF c
  <2> QED  BY <1>0, <2>1, <2>3, OutsidePerm
<1> QED  BY <1>1, <1>2, <1>3

LEMMA WorkingStep ==
    ASSUME InfoInv, NEW s \in Services, Working(s)
    PROVE  InfoInv'
<1>0. calls \in [Services -> Call] /\ perms \subseteq Perms /\ calls[s].mode \subseteq Perms
  BY DEF InfoInv, InfoTypeOK, Call
<1>1. CASE perm2string_clear(s)
  BY <1>1, InsidePerm DEF perm2string_clear, InPerm
<1>2. CASE perm2string_set(s)
  BY <1>0, <1>2, InsidePerm DEF perm2string_set, InPerm, InfoInv, Cleared
<1>3. CASE push_st_perm(s)
  <2>1. LET c == [Idle EXCEPT !.pc = "alloc", !.size = InitialSize]
        IN  c \in Call /\ c.pc = "alloc" /\ calls' = [calls EXCEPT ![s] = c]
    BY <1>3, IdleCall, AllocCall, InfoAssumption DEF push_st_perm
  <2> QED  BY <1>3, <2>1, OutsidePerm DEF push_st_perm
<1>4. CASE target_alloc(s)
  <2>1. /\ [calls[s] EXCEPT !.pc = "read"] \in Call
        /\ [calls[s] EXCEPT !.pc = "read"].pc = "read"
    BY <1>0, MovedCall DEF PcShape
  <2>2. PICK granted \in BOOLEAN :
          calls' = [calls EXCEPT ![s] = IF granted THEN [calls[s] EXCEPT !.pc = "read"] ELSE Done]
    BY <1>4 DEF target_alloc
  <2>3. UNCHANGED <<node, perms>>
    BY <1>4 DEF target_alloc
  <2> QED  BY <2>1, <2>2, <2>3, DoneCall, OutsidePerm
<1>5. CASE target_push(s)
  BY <1>5, DoneCall, OutsidePerm DEF target_push
<1>6. CASE info_return(s)
  BY <1>6, IdleCall, OutsidePerm DEF info_return
<1> QED  BY <1>1, <1>2, <1>3, <1>4, <1>5, <1>6, ReadsTarget DEF Working

LEMMA NextInfoInv == InfoInv /\ [InfoNext]_infoVars => InfoInv'
<1> SUFFICES ASSUME InfoInv, [InfoNext]_infoVars PROVE InfoInv'
  OBVIOUS
<1>1. ASSUME NEW n \in Nodes, replace(n)
      PROVE  InfoInv'
  BY <1>1
  DEF replace, InfoInv, InfoTypeOK, NotAlone, Overlapping, Cleared, PermissionsBlend, TargetWhole,
      InPerm
<1>2. ASSUME NEW s \in Services, link_info_target(s)
      PROVE  InfoInv'
  <2>1. LET c == [Idle EXCEPT !.pc = "alloc", !.size = InitialSize]
        IN  c \in Call /\ c.pc = "alloc" /\ calls' = [calls EXCEPT ![s] = c]
    BY <1>2, IdleCall, AllocCall, InfoAssumption DEF link_info_target
  <2> QED  BY <1>2, <2>1, OutsidePerm DEF link_info_target
<1>3. CASE UNCHANGED infoVars
  BY <1>3
  DEF infoVars, InfoInv, InfoTypeOK, NotAlone, Overlapping, Cleared, PermissionsBlend, TargetWhole,
      InPerm
<1> QED  BY <1>1, <1>2, <1>3, EntersPerm, WorkingStep DEF InfoNext

\* The permissions returned are of the files whose calls shared perm2string with this one,
\* and of its own file alone when none did: perm2string clears the static buffer first.
THEOREM PermissionsOfTheFiles == InfoSpec => []PermissionsBlend
<1>1. InfoInv => PermissionsBlend
  BY DEF InfoInv
<1> QED  BY <1>1, InitInfoInv, NextInfoInv, PTL DEF InfoSpec

\* The target of a link is returned whole and ends inside its buffer, however often the
\* link is replaced while the buffer grows.
THEOREM TargetsAreWhole == InfoSpec => []TargetWhole
<1>1. InfoInv => TargetWhole
  BY DEF InfoInv
<1> QED  BY <1>1, InitInfoInv, NextInfoInv, PTL DEF InfoSpec

-----------------------------------------------------------------------------
(* WebClient.  MemoryInv is about the answer being received: a realloc     *)
(* that failed leaves a content_maxlength that is wrong, and WritesFit     *)
(* holds as nothing is written after it.  TableInv is about who owns a     *)
(* handle; what HandlesOwned lacks to be inductive is where finish_key     *)
(* points to between webclient:query and the answer.                       *)

\* The memory for an answer.

WebShape ==
    [content : Seq(Nat), content_length : Nat, content_maxlength : Nat, memory : Nat,
     content_realloc_failed : BOOLEAN, sent : Nat, error : BOOLEAN, code : {"ok", "other"}]

\* While no realloc failed content_maxlength says what there is.
Sound(w) ==
    /\ w.content_length <= w.memory
    /\ w.content_realloc_failed \/ w.content_maxlength = w.memory

MemoryInv == webrequest \in [Handles -> WebShape] /\ \A h \in Handles : Sound(webrequest[h])

LEMMA ZeroedSound == Zeroed \in WebShape /\ Sound(Zeroed)
BY DEF Zeroed, WebShape, Sound

\* What the proofs below say of a field that is not changed.
SameMemory(v, w) ==
    /\ v.content_length = w.content_length /\ v.memory = w.memory
    /\ v.content_maxlength = w.content_maxlength
    /\ v.content_realloc_failed = w.content_realloc_failed

LEMMA SentShape ==
    ASSUME NEW w \in WebShape, NEW n \in Nat
    PROVE  [w EXCEPT !.sent = n] \in WebShape /\ SameMemory([w EXCEPT !.sent = n], w)
BY DEF WebShape, SameMemory

LEMMA ContentShape ==
    ASSUME NEW w \in WebShape, NEW c \in Seq(Nat)
    PROVE  [w EXCEPT !.content = c] \in WebShape /\ SameMemory([w EXCEPT !.content = c], w)
BY DEF WebShape, SameMemory

LEMMA LengthShape ==
    ASSUME NEW w \in WebShape, NEW n \in Nat
    PROVE  /\ [w EXCEPT !.content_length = n] \in WebShape
           /\ [w EXCEPT !.content_length = n].content_length = n
           /\ [w EXCEPT !.content_length = n].memory = w.memory
           /\ [w EXCEPT !.content_length = n].content_maxlength = w.content_maxlength
           /\ [w EXCEPT !.content_length = n].content_realloc_failed = w.content_realloc_failed
           /\ [w EXCEPT !.content_length = n].sent = w.sent
BY DEF WebShape

LEMMA KeptShape ==
    ASSUME NEW w \in WebShape, NEW len \in Nat
    PROVE  /\ Kept(w, len) \in WebShape
           /\ Kept(w, len).content_length = w.content_length + len
           /\ Kept(w, len).memory = w.memory
           /\ Kept(w, len).content_maxlength = w.content_maxlength
           /\ Kept(w, len).content_realloc_failed = w.content_realloc_failed
<1> DEFINE c == Append(w.content, w.sent + 1)
           l == w.content_length + len
           n == w.sent + 1
           u == [w EXCEPT !.content = c]
           v == [u EXCEPT !.content_length = l]
<1>1. c \in Seq(Nat) /\ l \in Nat /\ n \in Nat
  BY DEF WebShape
<1>2. Kept(w, len) = [v EXCEPT !.sent = n]
  <2>1. /\ u.content_length = w.content_length /\ u.sent = w.sent
        /\ v.sent = w.sent
    BY DEF WebShape
  <2>2. Kept(w, len) = [w EXCEPT !.content = c, !.content_length = l, !.sent = n]
    BY Zenon DEF Kept
  <2> QED  BY <2>2, Zenon
<1> HIDE DEF c, l, n
<1>3. u \in WebShape /\ SameMemory(u, w)
  BY <1>1, ContentShape
<1> HIDE DEF u
<1>4. /\ v \in WebShape /\ v.content_length = l
      /\ v.memory = w.memory /\ v.content_maxlength = w.content_maxlength
      /\ v.content_realloc_failed = w.content_realloc_failed
  BY <1>1, <1>3, LengthShape DEF SameMemory
<1> HIDE DEF v
<1> QED  BY <1>1, <1>2, <1>4, SentShape DEF SameMemory, l

\* write_callback keeps what it writes inside the memory there is, and leaves it alone for
\* ever when realloc finds none.
LEMMA WrittenSound ==
    ASSUME NEW w \in WebShape, Sound(w), NEW len \in Nat, NEW granted \in BOOLEAN
    PROVE  Written(w, len, granted) \in WebShape /\ Sound(Written(w, len, granted))
<1> DEFINE size == Grown(w, len)
<1>0. /\ w.content_length \in Nat /\ w.content_maxlength \in Nat /\ w.memory \in Nat
      /\ w.content_realloc_failed \in BOOLEAN
  BY DEF WebShape
<1>1. size \in Nat /\ w.content_length + len <= size
  BY <1>0, WebClientAssumption DEF Grown, Larger
<1> HIDE DEF size
<1>2. CASE w.content_realloc_failed
  <2>1. Written(w, len, granted) = [w EXCEPT !.sent = w.sent + 1]
    BY <1>2 DEF Written
  <2>2. w.sent + 1 \in Nat
    BY DEF WebShape
  <2> QED  BY <1>2, <2>1, <2>2, SentShape DEF SameMemory, Sound
<1>3. CASE ~w.content_realloc_failed /\ Fits(w, len)
  <2>1. Written(w, len, granted) = Kept(w, len)
    BY <1>3 DEF Written
  <2>2. w.content_length + len <= w.memory /\ w.content_maxlength = w.memory
    BY <1>3 DEF Sound, Fits
  <2> QED  BY <2>1, <2>2, KeptShape DEF Sound
<1>4. CASE ~w.content_realloc_failed /\ ~Fits(w, len) /\ granted
  <2> DEFINE u == [w EXCEPT !.content_maxlength = size]
             v == [u EXCEPT !.memory = size]
  <2>1. Written(w, len, granted) = Kept(v, len)
    BY <1>4, Zenon DEF Written, size
  <2>2. u \in WebShape /\ u.content_length = w.content_length /\ u.content_maxlength = size
    BY <1>1 DEF WebShape
  <2> HIDE DEF u
  <2>3. /\ v \in WebShape /\ v.content_length = w.content_length
        /\ v.content_maxlength = size /\ v.memory = size
    BY <1>1, <2>2 DEF WebShape
  <2> HIDE DEF v
  <2> QED  BY <1>1, <2>1, <2>3, KeptShape DEF Sound
<1>5. CASE ~w.content_realloc_failed /\ ~Fits(w, len) /\ ~granted
  <2> DEFINE u == [w EXCEPT !.content_maxlength = size]
             v == [u EXCEPT !.content_realloc_failed = TRUE]
             x == [v EXCEPT !.sent = v.sent + 1]
  <2>1. Written(w, len, granted) = x
    BY <1>5, Zenon DEF Written, size
  <2>2. u \in WebShape /\ u.content_length = w.content_length /\ u.memory = w.memory
    BY <1>1 DEF WebShape
  <2> HIDE DEF u
  <2>3. /\ v \in WebShape /\ v.content_length = w.content_length /\ v.memory = w.memory
        /\ v.content_realloc_failed
    BY <2>2 DEF WebShape
  <2> HIDE DEF v
  <2>4. /\ x \in WebShape /\ x.content_length = w.content_length /\ x.memory = w.memory
        /\ x.content_realloc_failed
    <3>1. v.sent + 1 \in Nat
      BY <2>3 DEF WebShape
    <3> QED  BY <2>3, <3>1, SentShape DEF SameMemory
  <2> HIDE DEF x
  <2> QED  BY <2>1, <2>4 DEF Sound
<1> QED  BY <1>2, <1>3, <1>4, <1>5

LEMMA OneRequestChanges ==
    ASSUME MemoryInv, NEW h \in Handles, NEW w \in WebShape, Sound(w),
           webrequest' = [webrequest EXCEPT ![h] = w]
    PROVE  MemoryInv'
BY DEF MemoryInv

LEMMA DoneSound ==
    ASSUME NEW w \in WebShape, Sound(w), NEW error \in BOOLEAN, NEW code \in {"ok", "other"}
    PROVE  /\ [w EXCEPT !.error = error, !.code = code] \in WebShape
           /\ Sound([w EXCEPT !.error = error, !.code = code])
BY DEF WebShape, Sound

LEMMA NextMemory == MemoryInv /\ [Next]_vars => MemoryInv'
<1> SUFFICES ASSUME MemoryInv, [Next]_vars PROVE MemoryInv'
  OBVIOUS
<1>1. ASSUME NEW r \in Requests, NEW h \in Handles, request(r, h)
      PROVE  MemoryInv'
  BY <1>1, ZeroedSound, OneRequestChanges DEF request
<1>2. ASSUME NEW h \in Handles, NEW len \in Chunks, write_callback(h, len)
      PROVE  MemoryInv'
  <2>1. PICK granted \in BOOLEAN :
          webrequest' = [webrequest EXCEPT ![h] = Written(@, len, granted)]
    BY <1>2 DEF write_callback
  <2>2. len \in Nat /\ webrequest[h] \in WebShape /\ Sound(webrequest[h])
    BY WebClientAssumption DEF MemoryInv
  <2>3. webrequest' = [webrequest EXCEPT ![h] = Written(webrequest[h], len, granted)]
    BY <2>1
  <2> QED  BY <2>2, <2>3, WrittenSound, OneRequestChanges
<1>3. ASSUME NEW h \in Handles, transfer_done(h)
      PROVE  MemoryInv'
  <2>1. PICK error \in BOOLEAN, code \in {"ok", "other"} :
          webrequest' = [webrequest EXCEPT ![h].error = error, ![h].code = code]
    BY <1>3 DEF transfer_done
  <2>2. webrequest[h] \in WebShape /\ Sound(webrequest[h])
    BY DEF MemoryInv
  <2>3. webrequest' = [webrequest EXCEPT ![h] = [webrequest[h] EXCEPT !.error = error, !.code = code]]
    BY <2>1, <2>2 DEF MemoryInv
  <2> QED  BY <2>2, <2>3, DoneSound, OneRequestChanges
<1>4. CASE respond
  <2>1. finish_key \in Handles \/ webrequest' = webrequest
    BY <1>4 DEF respond, MemoryInv
  <2>2. webrequest' = [webrequest EXCEPT ![finish_key] = Zeroed]
    BY <1>4 DEF respond
  <2>3. CASE finish_key \in Handles
    BY <2>2, <2>3, ZeroedSound, OneRequestChanges
  <2> QED  BY <2>1, <2>3 DEF MemoryInv
<1>5. CASE UNCHANGED webrequest
  BY <1>5 DEF MemoryInv
<1> QED
  BY <1>1, <1>2, <1>3, <1>4, <1>5
  DEF Next, Poll, Performing, request_failed, query_wake, query_loop, query_end, query_found,
      query_perform, query_performed, query_failed, query_sleep, vars

\* What arrives is written into memory there is, also after a failed realloc.
THEOREM AnswersFit == Spec => []WritesFit
<1>1. Init => MemoryInv
  BY ZeroedSound DEF Init, MemoryInv
<1>2. MemoryInv => WritesFit
  BY DEF MemoryInv, Sound, WritesFit
<1> QED  BY <1>1, <1>2, NextMemory, PTL DEF Spec

-----------------------------------------------------------------------------
\* Who owns a handle.

TableType ==
    /\ requests = NoTable \/ \E keys \in SUBSET Handles : requests \in [keys -> Requests]
    /\ transfers \in [Handles -> {"none", "running", "done"}]
    /\ msgs \in Seq(Handles)

\* finish_key is the transfer being answered, and nothing else.
FinishKey ==
    IF poller = "respond" THEN finish_key \in Handles /\ transfers[finish_key] = "done"
    ELSE finish_key = NoHandle

TableInv == TableType /\ FinishKey /\ HandlesOwned /\ Polled

LEMMA KeysAreHandles ==
    ASSUME TableType
    PROVE  /\ Keys \subseteq Handles
           /\ \A h \in Keys : requests[h] \in Requests
BY DEF TableType, Keys

\* A table of requests is not the nil that stands for none.
LEMMA TableIsTable ==
    ASSUME NEW keys \in SUBSET Handles, NEW f \in [keys -> Requests]
    PROVE  f # NoTable /\ DOMAIN f = keys
BY WebClientAssumption

LEMMA InitTable == Init => TableInv
BY DEF Init, TableInv, TableType, FinishKey, HandlesOwned, Polled, Keys

LEMMA RequestTable ==
    ASSUME TableInv, NEW r \in Requests, NEW h \in Handles, request(r, h)
    PROVE  TableInv'
<1> USE DEF TableInv
<1>1. /\ poller \in {"none", "forked", "sleeping", "dead"} /\ transfers[h] = "none"
      /\ \A k \in Keys : requests[k] # r
      /\ transfers' = [transfers EXCEPT ![h] = "running"]
      /\ requests' = [k \in Keys \cup {h} |-> IF k = h THEN r ELSE requests[k]]
      /\ poller' = IF requests = NoTable THEN "forked" ELSE poller
      /\ UNCHANGED <<finish_key, msgs>>
  BY DEF request, Yielded, New
<1>2. h \notin Keys
  BY <1>1 DEF HandlesOwned
<1>3. Keys \cup {h} \in SUBSET Handles /\ requests' \in [Keys \cup {h} -> Requests]
  BY <1>1, KeysAreHandles
<1>4. Keys' = Keys \cup {h}
  BY <1>3, TableIsTable DEF Keys
<1>5. TableType'
  BY <1>1, <1>3 DEF TableType
<1>6. FinishKey'
  BY <1>1 DEF FinishKey
<1>7. HandlesOwned'
  <2>1. Keys' = {k \in Handles : transfers'[k] # "none"}
    BY <1>1, <1>4 DEF HandlesOwned, TableType
  <2>2. \A g, k \in Keys' : requests'[g] = requests'[k] => g = k
    BY <1>1, <1>2, <1>4 DEF HandlesOwned
  <2>3. \A i \in DOMAIN msgs : msgs[i] \in Handles /\ msgs[i] # h
    BY <1>1 DEF HandlesOwned, TableType
  <2> QED  BY <1>1, <2>1, <2>2, <2>3 DEF HandlesOwned, TableType
<1>8. Polled'
  BY <1>1 DEF Polled
<1> QED  BY <1>5, <1>6, <1>7, <1>8

LEMMA FoundTable ==
    ASSUME TableInv, query_found
    PROVE  TableInv'
<1> USE DEF TableInv
<1>1. /\ msgs # <<>> /\ finish_key' = Head(msgs) /\ msgs' = Tail(msgs) /\ poller' = "respond"
      /\ UNCHANGED <<requests, transfers>>
  BY DEF query_found
<1>2. /\ msgs \in Seq(Handles) /\ Len(msgs) \in Nat \ {0}
      /\ finish_key' = msgs[1] /\ 1 \in DOMAIN msgs
      /\ msgs' \in Seq(Handles) /\ DOMAIN msgs' = 1 .. Len(msgs) - 1
      /\ \A i \in DOMAIN msgs' : i + 1 \in DOMAIN msgs /\ i + 1 # 1 /\ msgs'[i] = msgs[i + 1]
  BY <1>1 DEF TableType
<1>3. TableType' /\ FinishKey' /\ Polled'
  BY <1>1, <1>2 DEF TableType, FinishKey, HandlesOwned, Polled
<1>4. Keys' = Keys
  BY <1>1 DEF Keys
<1>5. \A i, j \in DOMAIN msgs' : msgs'[i] = msgs'[j] => i = j
  BY <1>2 DEF HandlesOwned
<1>6. \A i \in DOMAIN msgs' : transfers[msgs'[i]] = "done" /\ msgs'[i] # finish_key'
  BY <1>2 DEF HandlesOwned
<1> QED  BY <1>1, <1>3, <1>4, <1>5, <1>6 DEF HandlesOwned

LEMMA DoneTable ==
    ASSUME TableInv, NEW h \in Handles, transfer_done(h)
    PROVE  TableInv'
<1> USE DEF TableInv
<1>1. /\ poller = "perform" /\ transfers[h] = "running"
      /\ transfers' = [transfers EXCEPT ![h] = "done"] /\ msgs' = Append(msgs, h)
      /\ UNCHANGED <<requests, poller, finish_key>>
  BY DEF transfer_done
<1>2. /\ msgs \in Seq(Handles) /\ msgs' \in Seq(Handles) /\ Len(msgs) \in Nat
      /\ DOMAIN msgs = 1 .. Len(msgs) /\ DOMAIN msgs' = 1 .. Len(msgs) + 1
      /\ \A i \in DOMAIN msgs' : msgs'[i] = IF i \in DOMAIN msgs THEN msgs[i] ELSE h
  BY <1>1 DEF TableType
<1>3. finish_key = NoHandle /\ h # NoHandle
  BY <1>1, WebClientAssumption DEF FinishKey
<1>4. TableType' /\ FinishKey' /\ Polled'
  BY <1>1, <1>2 DEF TableType, FinishKey, Polled
<1>5. Keys' = Keys /\ Keys = {k \in Handles : transfers'[k] # "none"}
  BY <1>1 DEF Keys, HandlesOwned, TableType
<1>6. \A i \in DOMAIN msgs : msgs[i] \in Handles /\ msgs[i] # h /\ transfers'[msgs[i]] = "done"
  BY <1>1, <1>2 DEF HandlesOwned, TableType
<1>7. \A i, j \in DOMAIN msgs' : msgs'[i] = msgs'[j] => i = j
  BY <1>2, <1>6 DEF HandlesOwned
<1>8. transfers'[h] = "done"
  BY <1>1 DEF TableType
<1>9. \A i \in DOMAIN msgs' : transfers'[msgs'[i]] = "done" /\ msgs'[i] # finish_key'
  <2> SUFFICES ASSUME NEW i \in DOMAIN msgs'
               PROVE  transfers'[msgs'[i]] = "done" /\ msgs'[i] # finish_key
    BY <1>1
  <2>1. CASE i \in DOMAIN msgs
    BY <1>2, <1>6, <2>1 DEF HandlesOwned
  <2>2. CASE i \notin DOMAIN msgs
    BY <1>2, <1>3, <1>8, <2>2
  <2> QED  BY <2>1, <2>2
<1>10. HandlesOwned'
  BY <1>1, <1>5, <1>7, <1>9 DEF HandlesOwned
<1> QED  BY <1>4, <1>10

LEMMA RespondTable ==
    ASSUME TableInv, respond
    PROVE  TableInv'
<1> USE DEF TableInv
<1>1. /\ finish_key \in Keys /\ poller = "respond" /\ poller' = "loop"
      /\ transfers' = [transfers EXCEPT ![finish_key] = "none"]
      /\ requests' = Restrict(requests, Keys \ {finish_key})
      /\ finish_key' = NoHandle /\ UNCHANGED msgs
  BY DEF respond, PollerGoes
<1>2. /\ Keys \ {finish_key} \in SUBSET Handles
      /\ requests' = [k \in Keys \ {finish_key} |-> requests[k]]
      /\ requests' \in [Keys \ {finish_key} -> Requests]
  BY <1>1, KeysAreHandles DEF Restrict
<1>3. Keys' = Keys \ {finish_key}
  BY <1>2, TableIsTable DEF Keys
<1>4. TableType'
  BY <1>1, <1>2 DEF TableType
<1>5. FinishKey' /\ Polled'
  BY <1>1 DEF FinishKey, Polled
<1>6. Keys' = {k \in Handles : transfers'[k] # "none"}
  BY <1>1, <1>3 DEF HandlesOwned, TableType
<1>7. \A g, k \in Keys' : requests'[g] = requests'[k] => g = k
  BY <1>2, <1>3 DEF HandlesOwned
<1>8. \A i \in DOMAIN msgs : transfers'[msgs[i]] = "done" /\ msgs[i] # NoHandle
  BY <1>1, WebClientAssumption DEF HandlesOwned, TableType
<1>9. HandlesOwned'
  BY <1>1, <1>6, <1>7, <1>8 DEF HandlesOwned
<1> QED  BY <1>4, <1>5, <1>9

\* The steps of the coroutine that move nothing but itself.
LEMMA PollTable ==
    ASSUME TableInv, UNCHANGED <<requests, finish_key, transfers, msgs>>,
           poller' = poller \/ (poller # "respond" /\ poller' \notin {"respond", "none"})
    PROVE  TableInv'
BY DEF TableInv, TableType, FinishKey, HandlesOwned, Polled, Keys

LEMMA EndTable ==
    ASSUME TableInv, query_end
    PROVE  TableInv'
<1>1. /\ Keys = {} /\ poller = "loop" /\ poller' = "none" /\ requests' = NoTable
      /\ UNCHANGED <<finish_key, transfers, msgs>>
  BY DEF query_end, PollerGoes
<1>2. Keys' = Keys
  BY <1>1 DEF Keys
<1> QED  BY <1>1, <1>2 DEF TableInv, TableType, FinishKey, HandlesOwned, Polled

LEMMA NextTable == TableInv /\ [Next]_vars => TableInv'
<1> SUFFICES ASSUME TableInv, [Next]_vars PROVE TableInv'
  OBVIOUS
<1>1. CASE query_wake \/ query_loop \/ query_perform \/ query_performed \/ query_failed \/ query_sleep
  BY <1>1, PollTable
  DEF query_wake, query_loop, query_perform, query_performed, query_failed, query_sleep, PollerGoes
<1>2. ASSUME NEW r \in Requests, request_failed(r)
      PROVE  TableInv'
  BY <1>2, PollTable DEF request_failed
<1>3. ASSUME NEW h \in Handles, NEW len \in Chunks, write_callback(h, len)
      PROVE  TableInv'
  BY <1>3, PollTable DEF write_callback
<1>4. CASE UNCHANGED vars
  BY <1>4, PollTable DEF vars
<1> QED
  BY <1>1, <1>2, <1>3, <1>4, RequestTable, FoundTable, DoneTable, RespondTable, EndTable
  DEF Next, Poll, Performing

\* The service's table and libcurl agree on the handles, over any reuse of addresses, and
\* the coroutine that polls is there while requests wait.
THEOREM HandlesAlwaysOwned == Spec => [](HandlesOwned /\ Polled)
<1>1. TableInv => HandlesOwned /\ Polled
  BY DEF TableInv
<1> QED  BY <1>1, InitTable, NextTable, PTL DEF Spec

-----------------------------------------------------------------------------
(* What an answer holds.  WholeInv is inductive with MemoryInv: until a    *)
(* realloc fails every piece that was sent is kept.                        *)

\* The first n pieces, in order.
Pieces(n) == [i \in 1 .. n |-> i]

Complete(w) == w.content_realloc_failed \/ w.content = Pieces(w.sent)

WholeInv ==
    /\ \A h \in Handles : Complete(webrequest[h])
    /\ DOMAIN answers = Requests

LEMMA NextPiece ==
    ASSUME NEW n \in Nat
    PROVE  Append(Pieces(n), n + 1) = Pieces(n + 1)
<1>1. Pieces(n) \in Seq(Nat) /\ Len(Pieces(n)) = n
  BY DEF Pieces
<1>2. Append(Pieces(n), n + 1) = [i \in 1 .. n + 1 |-> IF i = n + 1 THEN n + 1 ELSE Pieces(n)[i]]
  BY <1>1
<1>3. \A i \in 1 .. n + 1 : (IF i = n + 1 THEN n + 1 ELSE Pieces(n)[i]) = i
  BY DEF Pieces
<1> QED  BY <1>2, <1>3 DEF Pieces

LEMMA KeptComplete ==
    ASSUME NEW w \in WebShape, NEW len \in Nat, w.content = Pieces(w.sent)
    PROVE  Kept(w, len).content = Pieces(Kept(w, len).sent)
<1>1. w.sent \in Nat
  BY DEF WebShape
<1>2. /\ Kept(w, len).content = Append(w.content, w.sent + 1)
      /\ Kept(w, len).sent = w.sent + 1
  BY DEF Kept, WebShape
<1> QED  BY <1>1, <1>2, NextPiece

\* A piece is kept, or no answer will be made of those there are.
LEMMA WrittenComplete ==
    ASSUME NEW w \in WebShape, Complete(w), NEW len \in Nat, NEW granted \in BOOLEAN
    PROVE  Complete(Written(w, len, granted))
<1> DEFINE size == Grown(w, len)
<1>0. size \in Nat
  BY WebClientAssumption DEF Grown, Larger, WebShape
<1> HIDE DEF size
<1>1. CASE w.content_realloc_failed
  <2>1. Written(w, len, granted) = [w EXCEPT !.sent = w.sent + 1]
    BY <1>1 DEF Written
  <2> QED  BY <1>1, <2>1 DEF WebShape, Complete
<1>2. CASE ~w.content_realloc_failed /\ Fits(w, len)
  <2>1. Written(w, len, granted) = Kept(w, len)
    BY <1>2 DEF Written
  <2> QED  BY <1>2, <2>1, KeptComplete DEF Complete
<1>3. CASE ~w.content_realloc_failed /\ ~Fits(w, len) /\ granted
  <2> DEFINE u == [w EXCEPT !.content_maxlength = size]
             v == [u EXCEPT !.memory = size]
  <2>1. Written(w, len, granted) = Kept(v, len)
    BY <1>3, Zenon DEF Written, size
  <2>2. u \in WebShape /\ u.content = w.content /\ u.sent = w.sent
    BY <1>0 DEF WebShape
  <2> HIDE DEF u
  <2>3. v \in WebShape /\ v.content = w.content /\ v.sent = w.sent
    BY <1>0, <2>2 DEF WebShape
  <2> HIDE DEF v
  <2> QED  BY <1>3, <2>1, <2>3, KeptComplete DEF Complete
<1>4. CASE ~w.content_realloc_failed /\ ~Fits(w, len) /\ ~granted
  <2> DEFINE u == [w EXCEPT !.content_maxlength = size]
             v == [u EXCEPT !.content_realloc_failed = TRUE]
             x == [v EXCEPT !.sent = v.sent + 1]
  <2>1. Written(w, len, granted) = x
    BY <1>4, Zenon DEF Written, size
  <2>2. u \in WebShape
    BY <1>0 DEF WebShape
  <2> HIDE DEF u
  <2>3. v \in WebShape /\ v.content_realloc_failed
    BY <2>2 DEF WebShape
  <2> HIDE DEF v
  <2>4. x.content_realloc_failed
    BY <2>3 DEF WebShape
  <2> QED  BY <2>1, <2>4 DEF Complete
<1> QED  BY <1>1, <1>2, <1>3, <1>4

LEMMA OneStaysComplete ==
    ASSUME MemoryInv, WholeInv, NEW h \in Handles, NEW w, Complete(w),
           webrequest' = [webrequest EXCEPT ![h] = w], DOMAIN answers' = DOMAIN answers
    PROVE  WholeInv'
BY DEF MemoryInv, WholeInv

LEMMA NextWhole == MemoryInv /\ WholeInv /\ [Next]_vars => WholeInv'
<1> SUFFICES ASSUME MemoryInv, WholeInv, [Next]_vars PROVE WholeInv'
  OBVIOUS
<1>0. Complete(Zeroed)
  <2>1. <<>> = Pieces(0)
    BY DEF Pieces
  <2> QED  BY <2>1 DEF Complete, Zeroed
<1>1. ASSUME NEW r \in Requests, NEW h \in Handles, request(r, h)
      PROVE  WholeInv'
  BY <1>0, <1>1, OneStaysComplete DEF request
<1>2. ASSUME NEW h \in Handles, NEW len \in Chunks, write_callback(h, len)
      PROVE  WholeInv'
  <2>1. PICK granted \in BOOLEAN :
          webrequest' = [webrequest EXCEPT ![h] = Written(@, len, granted)]
    BY <1>2 DEF write_callback
  <2>2. len \in Nat /\ webrequest[h] \in WebShape /\ Complete(webrequest[h])
    BY WebClientAssumption DEF MemoryInv, WholeInv
  <2>3. /\ webrequest' = [webrequest EXCEPT ![h] = Written(webrequest[h], len, granted)]
        /\ answers' = answers
    BY <1>2, <2>1 DEF write_callback
  <2> QED  BY <2>2, <2>3, WrittenComplete, OneStaysComplete
<1>3. ASSUME NEW h \in Handles, transfer_done(h)
      PROVE  WholeInv'
  <2>1. PICK error \in BOOLEAN, code \in {"ok", "other"} :
          webrequest' = [webrequest EXCEPT ![h].error = error, ![h].code = code]
    BY <1>3 DEF transfer_done
  <2>2. webrequest[h] \in WebShape /\ Complete(webrequest[h])
    BY DEF MemoryInv, WholeInv
  <2>3. webrequest' = [webrequest EXCEPT ![h] = [webrequest[h] EXCEPT !.error = error, !.code = code]]
    BY <2>1, <2>2 DEF MemoryInv
  <2>4. Complete([webrequest[h] EXCEPT !.error = error, !.code = code])
    BY <2>2 DEF Complete, WebShape
  <2> QED  BY <1>3, <2>3, <2>4, OneStaysComplete DEF transfer_done
<1>4. CASE respond
  <2>1. webrequest' = [webrequest EXCEPT ![finish_key] = Zeroed] /\ DOMAIN answers' = DOMAIN answers
    BY <1>4 DEF respond
  <2>2. CASE finish_key \in Handles
    BY <1>0, <2>1, <2>2, OneStaysComplete
  <2>3. CASE finish_key \notin Handles
    BY <2>1, <2>3 DEF MemoryInv, WholeInv
  <2> QED  BY <2>2, <2>3
<1>5. ASSUME NEW r \in Requests, request_failed(r)
      PROVE  WholeInv'
  BY <1>5 DEF request_failed, WholeInv
<1>6. CASE UNCHANGED <<webrequest, answers>>
  BY <1>6 DEF WholeInv
<1> QED
  BY <1>1, <1>2, <1>3, <1>4, <1>5, <1>6
  DEF Next, Poll, Performing, query_wake, query_loop, query_end, query_found, query_perform,
      query_performed, query_failed, query_sleep, vars

\* Only respond gives a positive answer, and only of memory that did not run out.
LEMMA AnswerHolds ==
    ASSUME MemoryInv, WholeInv, TableInv, [Next]_vars,
           NEW r \in Requests, answers[r] = NoAnswer, answers'[r].kind = "success"
    PROVE  answers'[r].content = Pieces(webrequest[finish_key].sent)
<1>0. DOMAIN answers = Requests /\ NoAnswer.kind = "none" /\ Nothing.kind = "nothing"
  BY DEF WholeInv, NoAnswer, Nothing, Answer
<1>1. answers' # answers
  BY <1>0
<1>2. ~ \E q \in Requests : request_failed(q)
  <2> SUFFICES ASSUME NEW q \in Requests, request_failed(q) PROVE FALSE
    OBVIOUS
  <2>1. answers' = [answers EXCEPT ![q] = Nothing]
    BY DEF request_failed
  <2> QED  BY <1>0, <2>1
<1>3. respond
  BY <1>1, <1>2
  DEF Next, Poll, Performing, request, write_callback, transfer_done, query_wake, query_loop,
      query_end, query_found, query_perform, query_performed, query_failed, query_sleep, vars
<1> DEFINE w == webrequest[finish_key]
           q == requests[finish_key]
<1>4. /\ poller = "respond"
      /\ answers' = [answers EXCEPT ![q] = IF q \in NoReply THEN Nothing ELSE Respond(w)]
  BY <1>3 DEF respond, PollerGoes
<1>5. finish_key \in Handles /\ Complete(w)
  BY <1>4 DEF TableInv, FinishKey, WholeInv
<1> HIDE DEF w, q
<1>6. r = q /\ answers'[r] = Respond(w)
  BY <1>0, <1>4
<1>7. Respond(w) = Answer("success", w.content) /\ ~w.content_realloc_failed
  BY <1>6 DEF Respond, Answer
<1> QED  BY <1>5, <1>6, <1>7 DEF Complete, Answer, w

\* A positive answer holds every piece of the body that the server sent, in order, whatever
\* realloc refused in the middle.
THEOREM AnswersAreWhole == Spec => AnswersWhole
<1>1. Init => MemoryInv /\ WholeInv /\ TableInv
  <2>1. Complete(Zeroed)
    <3>1. <<>> = Pieces(0)
      BY DEF Pieces
    <3> QED  BY <3>1 DEF Complete, Zeroed
  <2> QED  BY <2>1, ZeroedSound, InitTable DEF Init, MemoryInv, WholeInv
<1>2. MemoryInv /\ WholeInv /\ TableInv /\ [Next]_vars
        => [\A r \in Requests :
              answers[r] = NoAnswer /\ answers'[r].kind = "success" =>
                answers'[r].content = [i \in 1 .. webrequest[finish_key].sent |-> i]]_vars
  BY AnswerHolds DEF Pieces
<1> QED
  BY <1>1, <1>2, NextMemory, NextWhole, NextTable, PTL DEF Spec, AnswersWhole
=============================================================================
