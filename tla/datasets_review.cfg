\* One dataset is edited, reverted and reviewed.
CONSTANTS
  Request = {r1, r2, r3}
  Handle = {1}
  Meta = {m1, m2}
  NoMeta = NoMeta
  Person = {p1, p2}
  NoPerson = NoPerson
  Ops = {"update", "revert", "request", "decide", "lock", "review"}
SPECIFICATION Spec
SYMMETRY Symmetry
INVARIANTS
  ReleaseTrail
  ReviewWasReal
