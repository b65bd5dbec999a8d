\* The walk of a small job tree that changes twice while it is read.
SPECIFICATION Spec
CONSTANTS
  Item <- MCItem
  Container <- MCContainer
  Trees <- MCTrees
  Scopes <- MCScopes
  Strays <- MCStrays
  Pages <- MCPages
  MaxFolderDepth = 2
  MaxChanges = 2
  None = None
INVARIANTS NoJobLost EachJobOnce NothingOutOfScope
PROPERTIES WalkEnds
\* The walk ends.
CHECK_DEADLOCK FALSE
