SPECIFICATION WebSpec
CONSTANTS
  n1 = n1  n2 = n2  f1 = f1  f2 = f2  s1 = s1  c1 = c1  c2 = c2  c3 = c3
  Sockets <- AllSockets
  Queries <- AllQueries
  Data <- AllData
  Updates = {u1, u2, u3}
  CacheNodes = {n1, n2}
  HOUR = 2
  MaxTime = 3
  ObTypes = {f1, f2}
  DAY = 1
  LastDay = 2
  MaxEvents = 4
SYMMETRY Symmetry
CHECK_DEADLOCK FALSE
INVARIANTS
  CountsAreSound
  OnlyWhatWasAskedFor
  PlainMembersServed
  WindowsAreExact
