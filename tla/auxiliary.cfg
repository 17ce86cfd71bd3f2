\* Three requests about the handles, the access requests, the links of users or
\* the groups.
CONSTANTS
  Request = {r1, r2, r3}
  User = {u}
  NoUser = NoUser
  Index = {1, 2, 3}
  MaxHandle = 2
  Nobody = Nobody
  MaxTime = 1
  Person = {p, q}
  NoPerson = NoPerson
  Group = {g, h}
  NoGroup = NoGroup
  Importer = {r1}
  Before = Before
  Decider = {r1}
  Stranger = Stranger
  Available = {"metadata-read", "metadata-write", "admin"}
  Grantable = {{"dataset-data-read"}, {"admin"}}
SPECIFICATION Spec
SYMMETRY Symmetry
INVARIANTS
  HandleListsAreSound
  AnswersHold
  LinkedPersonWasComplete
  GroupImportIsFaithful
PROPERTY StaleWritesOverlapped
