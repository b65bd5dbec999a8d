\* Three jobs through two slots.
SPECIFICATION Spec
CONSTANTS
  N = 3
  Concurrency = 2
INVARIANTS ConcurrencyBound WholeOrNothing NothingAfterReturn EveryCountOnce
PROPERTIES PoolEnds
\* The call returns.
CHECK_DEADLOCK FALSE
