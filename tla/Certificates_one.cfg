CONSTANTS
  c = c
  t1 = t1
  Proxy = Proxy
  Trusters = {t1}
  Conns = {c}
  Ca = Ca
  Server = Server
  Recognised = TRUE
  MaxKeys = 4
  MaxOld = 1
  MaxFaults = 1
  MaxRemoved = 1
  None = None
  Torn = Torn
SPECIFICATION Spec
INVARIANTS CertTypeOK WholePairs ServerChains TrustIsReal
CHECK_DEADLOCK FALSE
