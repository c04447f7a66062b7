CONSTANTS
  Network = {n1, n2}
  Device = {a, b, c}
  NoDevice = NoDevice
  Node = {u1, u2, u3, u4, u5}
  Port = {p}
  NoPort = NoPort
  MaxAsOf = 2
  NoDocument = NoDocument
  NoSource = NoSource
  Contents <- Cabled
  Syncer = {s1}
  Faulty = {s1}
  Reader = {r1}
  Interface = {i1}
  Ends <- PortEnds
  Depth = {0, 1}
  DefaultDepth = 3
  Offline <- BDown
  NoAsOf = NoAsOf
  n1 = n1
  n2 = n2
  a = a
  b = b
  c = c
  p = p
  i1 = i1
SPECIFICATION ImpactSpec
INVARIANT ReadsTypeOK
INVARIANT ImpactIsConnected
INVARIANT FreshnessIsOfTheSeed
INVARIANT FreshnessBoundsTheRows
INVARIANT NetworksAreNeverMixed
PROPERTY FreshnessSafety
