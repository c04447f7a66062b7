CONSTANTS
  Request = {q1}
  Worker = {w1, w2, w3}
  Flaky = {w3}
  Id = {i1, i2, i3}
  Raw = {boot1, raw1, raw2}
  BootstrapToken = boot1
  Ttl = {NoTime}
  MaxTime = 0
  NoRaw = NoRaw
  NoRow = NoRow
  NoTime = NoTime
  NoId = NoId
SPECIFICATION FairSpec
PROPERTY BootstrapIntoEmptyStore
PROPERTY WorkersStay
PROPERTY WorkersStart
