SPECIFICATION FairSpec
CONSTANTS
  u1 = u1
  Uids = {u1}
  NoUid = NoUid
  Tokens = {k1, k2}
  NoToken = NoToken
  UidOf <- OneUser
  Conns = {c1, c2}
  NoConn = NoConn
  Https = {h1}
  Closers = {x1}
  MaxLogins <- Twice
INVARIANTS
  OldConnectionCut
  FightIsBound
  OnlineCountsPlayers
PROPERTY LoginAnswered
