\* What snapshot.go says of Unlisted, against the walk.
SPECIFICATION Spec
CONSTANTS
  Item <- MCItem
  Container <- MCContainer
  Trees <- MCTrees
  Scopes <- MCScopes
  Strays <- MCStrays
  Pages <- MCPages
  MaxFolderDepth = 2
  MaxChanges = 2
  None = None
INVARIANTS UnlistedJobsMissing
\* The walk ends.
CHECK_DEADLOCK FALSE
