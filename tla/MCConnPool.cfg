SPECIFICATION Spec
CONSTANTS
  c1 = c1
  c2 = c2
  c3 = c3
  k1 = k1
  k2 = k2
  k3 = k3
  NoConn = NoConn
  Caller = {c1, c2, c3}
  Conn = {k1, k2, k3}
SYMMETRY Symmetry
INVARIANTS
  TokensAccounted
PROPERTIES
  ImplementsPool
