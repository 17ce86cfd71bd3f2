\* Datasets are minted, versioned and edited; handle 10 begins with handle 1.
CONSTANTS
  Request = {r1, r2, r3}
  Handle = {1, 10, 11}
  Meta = {m1, m2}
  NoMeta = NoMeta
  Person = {p1}
  NoPerson = NoPerson
  Ops = {"mint", "update", "version", "request", "grant"}
SPECIFICATION Spec
SYMMETRY Symmetry
INVARIANTS
  FoldersMatchDatasets
  LateWriterSawItEditable
