SPECIFICATION Spec
CONSTANTS
  t1 = t1
  t2 = t2
  u1 = u1
  u2 = u2
  Tabs <- TwoTabs
  Users <- TwoUsers
  Names <- EdgeNames
  None = None
SYMMETRY FormSymmetry
INVARIANTS
  TypeOK
  HtmxOutcomeShown
  RefusedOnlyIfOld
  PageCanPost
  FormIsForItsUser
  NamesFit
