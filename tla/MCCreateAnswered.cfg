SPECIFICATION FairSpec
CONSTANTS
  Uids = {u1}
  NoUid = NoUid
  Https = {h1}
  Wss = {w1}
  Timers = {t1}
  Codes = {c1}
  NoCode = NoCode
  DeskPlayers = 1
  NeedCard = 0
  RoomCard <- NoCards
  MaxRound = 1
  MaxRooms = 1
  RoundCap = 1
  Relogin = FALSE
  EagerReady = TRUE
PROPERTY CreateAnswered
