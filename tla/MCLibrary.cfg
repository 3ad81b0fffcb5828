SPECIFICATION LibrarySpec
CONSTANTS
  Cards <- SixCards
  NoCard = NoCard
  Size = 6
  Full <- InOrder
  Processes = {p1, p2}
  Nobody = Nobody
  Dirs = {d1, d2}
  Start = d1
  Here = Here
  Gone = Gone
  Locks = {l1, l2}
  Iterators = {i1, i2}
  Services = {s1, s2}
  Perms = {r, w}
  Lengths = {1, 2, 5}
  InitialSize = 2
  Requests = {r1, r2, r3}
  NoReply = {r3}
  Handles = {h1, h2}
  NoHandle = NoHandle
  NoTable = NoTable
  Chunks = {1, 5}
  Least = 2
  MaxChunks = 2
  MaxFailures = 1
INVARIANTS
  NeverTwice
  LosesOneAtMost
  LockExclusive
  LinkAccounted
  StreamsClosedOnce
  PermissionsBlend
  TargetWhole
  WritesFit
  HandlesOwned
PROPERTIES
  AnswersWhole
  FinishedAnswered
\* The requests are bounded: when all are answered the service waits for others.
CHECK_DEADLOCK FALSE
