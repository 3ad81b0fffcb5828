SPECIFICATION Spec
CONSTANTS
  Uids = {u1, u2}
  NoUid = NoUid
  Https = {h1, h2}
  Wss = {w1}
  Timers = {t1}
  Codes = {c1, c2}
  NoCode = NoCode
  DeskPlayers = 1
  NeedCard = 0
  RoomCard <- NoCards
  MaxRound = 1
  MaxRooms = 2
  RoundCap = 1
  Relogin = TRUE
  EagerReady = FALSE
SYMMETRY Symmetry
INVARIANTS
  TypeOK
  RidPointsToRoom
  RoomCodesUnique
  HandedRoomIsFresh
PROPERTY
  RoomNotTraded
