SPECIFICATION Spec
CONSTANTS
  Uids = {u1}
  NoUid = NoUid
  Https = {h1}
  Wss = {w1}
  Timers = {t1, t2}
  Codes = {c1}
  NoCode = NoCode
  DeskPlayers = 1
  NeedCard = 0
  RoomCard <- NoCards
  MaxRound = 2
  MaxRooms = 1
  RoundCap = 3
  Relogin = TRUE
  EagerReady = TRUE
SYMMETRY Symmetry
INVARIANTS
  StartedRoundIsLatest
  ReadyCountStable
  TimerMatchesStatus
PROPERTIES
  ImplementsLifecycle
  DriverKept
