\* One fetch of a small controller.
SPECIFICATION Spec
CONSTANTS
  MaxListings = 2
  MaxJobs = 2
INVARIANTS DeadlineFails SomethingWasRead AnonymousIsMeasured AvailabilityIsEarned
PROPERTIES FetchEnds
\* Fetch returns.
CHECK_DEADLOCK FALSE
