\* Two requests, every operation, one or two runs lodged before or registered.
CONSTANTS
  Request = {r1, r2}
  Run = {x, y}
  Dataset = {a, b}
  Template = Template
  NoRecord = NoRecord
  NoRun = NoRun
  Ops = {"register", "lodge", "update", "delete", "clear"}
SPECIFICATION Spec
SYMMETRY Symmetry
INVARIANTS
  EveryEdgeIsAsserted
  UndisturbedRunIsLodged
PROPERTY AssertionsLostToStaleRemovals
