SPECIFICATION Spec
CONSTANTS
  u1 = u1
  u2 = u2
  l1 = l1
  l2 = l2
  f1 = f1
  f2 = f2
  Users <- TwoUsers
  Logins <- TwoLogins
  Flows <- TwoFlows
  None = None
SYMMETRY SessionSymmetry
INVARIANTS
  TypeOK
  IdentitySticks
  LoginServed
PROPERTIES
  ImplementsBrowserSession
