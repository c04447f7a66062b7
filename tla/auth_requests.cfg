CONSTANTS
  Request = {q1, q2}
  Worker = {w1}
  Flaky = {}
  Id = {i1, i2}
  Raw = {boot1, raw1}
  BootstrapToken = boot1
  Ttl = {NoTime, 1}
  MaxTime = 2
  NoRaw = NoRaw
  NoRow = NoRow
  NoTime = NoTime
  NoId = NoId
SPECIFICATION Spec
INVARIANT TypeOK
INVARIANT AuthorizationLinearizes
INVARIANT AnsweredWritesHold
PROPERTY DeadForGood
PROPERTY RealmSpec
