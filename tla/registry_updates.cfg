\* Writers of one item: audited updates, reverts, locks and a deletion.
CONSTANTS
  Request = {r1, r2, r3}
  Content = {c1, c2}
  NoContent = NoContent
  MaxHandle = 1
  Ops = {"update", "revert", "lock", "unlock", "delete"}
  Versioning = TRUE
SPECIFICATION Spec
SYMMETRY Symmetry
INVARIANTS
  TrailsAgree
  SearchTextIsFresh
PROPERTIES
  HistoryAppendOnly
  LockedWriteOverlappedTheLock
  UnreasonedUpdateWasOvertaken
