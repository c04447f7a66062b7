CONSTANTS
  Request = {r1}
  Documents <- Appended
  MaxLog = 3
  Device <- Devices
  NetworkId <- Networks
  Text = {line}
  Window <- Windows
  Limit = {0, 2, 3}
  MIN_LIMIT = 1
  MAX_LIMIT = 2
  HitCap = 3
  TwinOrg = ours
  None = None
  ours = ours
  theirs = theirs
  line = line
SPECIFICATION Spec
INVARIANT TypeOK
INVARIANT AnswersAreTheNewest
INVARIANT ChangesStayInOrg
INVARIANT ChangesOpenTheirEntity
