\* Registrations, promotions, versions and deletions over four handles.
CONSTANTS
  Request = {r1, r2, r3}
  Content = {c1}
  NoContent = NoContent
  MaxHandle = 4
  Ops = {"seed", "create", "update", "silentUpdate", "version", "delete"}
  Versioning = TRUE
SPECIFICATION Spec
SYMMETRY Symmetry
INVARIANTS
  TypeOK
  VersionLineage
  SettledItemIsComplete
  CreateActivitiesOnlyForSeeds
