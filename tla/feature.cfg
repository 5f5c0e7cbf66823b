SPECIFICATION FeatureSpec
CONSTANTS
  own = own
  stray = stray
  Plans <- MCPlans
  Own = own
  Questions = {q1, q2}
  Steps = {s1}
  Cases = {c1}
  Models = {m1}
INVARIANTS DecisionsThreaded ReadyHasModel
PROPERTIES ShipsAligned
SYMMETRY Alike
