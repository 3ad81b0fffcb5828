SPECIFICATION ServicesSpec
CONSTANTS
  Handles = {a, b, c}
  Callers = {p, q}
  NoHandle = NoHandle
  MaxListed = 3
  Window = 8
  a1 = a1
  a2 = a2
  c1 = c1
  c2 = c2
  c3 = c3
  Appenders = {a1, a2}
  Coroutines = {c1, c2, c3}
  AppenderOf <- MCAppenderOf
  LastDay = 3
  MaxHandle = 8
INVARIANTS
  TakesTurns
  LineInItsFile
  PastFilesClosed
PROPERTIES
  ImplementsRing
  LogReturns
