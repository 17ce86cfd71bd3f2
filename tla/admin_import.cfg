\* One administrator, one request, one item and one minted handle.
CONSTANTS
  Request = {r1}
  Content = {c1, c2}
  NoContent = NoContent
  MaxHandle = 2
  Ops = {"create", "update", "lock", "unlock", "delete"}
  Versioning = FALSE
  Exports = TRUE
SPECIFICATION Spec
SYMMETRY Symmetry
INVARIANTS
  UndisturbedAdminIsFaithful
  OnlyOneItemIsHalfImported
  TrailsAgree
PROPERTY ImportKeepsToItsMode
