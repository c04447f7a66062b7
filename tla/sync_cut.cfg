CONSTANTS
  n1 = n1
  n2 = n2
  a = a
  b = b
  p = p
  Network = {n1, n2}
  Device = {a, b}
  NoDevice = NoDevice
  Node = {u1, u2, u3, u4}
  Port = {p}
  NoPort = NoPort
  MaxAsOf = 2
  Contents <- Moving
  NoDocument = NoDocument
  NoSource = NoSource
  Syncer = {s1}
  Faulty = {s1}
SPECIFICATION Spec
INVARIANT LastSyncedWasProjected
