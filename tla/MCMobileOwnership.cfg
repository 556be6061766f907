SPECIFICATION FairSpec
CONSTANTS
  a = a
  b = b
  k1 = k1
  k2 = k2
  Clients = {a, b}
  Controls = {k1}
  Batch <- OneKey
  TokensOf <- TwoOfA
  MaxSeq <- TwoFromB
  MaxSessions = 2
  MaxHeld = 1
  QueueCap = 2
INVARIANTS DownIsOwned SessionsAgree StoppedClear
PROPERTIES SilentReleased
CHECK_DEADLOCK FALSE
